--------------------------- MODULE RoundFeed_proofs ---------------------------
(***************************************************************************)
(* Theorems of RoundFeed for every number of rounds, users, messages on    *)
(* the wire and broken connections: whatever is lost, delayed or overtaken *)
(* between the database and the browser, the view is not ahead of the      *)
(* round, its buttons match it, and a listener is in the current room.     *)
(***************************************************************************)
EXTENDS RoundFeed, Sums, SequenceTheorems, TLAPS

-----------------------------------------------------------------------------
(* What messages, snapshots and views are.                                  *)

PlayerEvent == [type : {"PLAYER_BET", "PLAYER_CASHOUT"}, round : Rounds, what : Users]
RoundMessage == [type : {"round_state", "round_crashed", "round_finished"},
                 round : Rounds, what : BackendStatus]
Multiplier == [type : {"multiplier"}, round : Rounds, what : {""}]

Phase == {"PREPARING", "RUNNING", "CRASHED", "RESETTING"}
Shows == PlayerStatus \cup {"none"}
View == [round : 0..MaxRound, phase : Phase, players : [Users -> Shows], mine : SUBSET Users,
         queued : BOOLEAN, active : Users \cup {Nobody}, canBet : BOOLEAN, canCash : BOOLEAN,
         applied : BOOLEAN, pending : Seq(PlayerEvent), stale : BOOLEAN]

\* The bet that is shown as the user's own is in the list and still in the game.
Sound(v) ==
    /\ v \in View
    /\ v.active # Nobody => v.active \in v.mine /\ v.players[v.active] = "ACTIVE"
    /\ v.canCash => v.phase = "RUNNING" /\ v.active # Nobody
    /\ v.canBet => v.phase \in {"PREPARING", "RUNNING"}

\* What is said of round r has happened to it: it is over, or has come so far.
Reached(r, s) ==
    /\ r <= round
    /\ r = round => Rank(StatusToPhase(s)) <= Rank(StatusToPhase(status))

Heard ==
    PlayerEvent \cup Multiplier \cup {m \in RoundMessage : Reached(m.round, m.what)}

\* A snapshot that has been read.
Told(f) ==
    /\ f.at = "ready" /\ f.round \in 0..MaxRound /\ f.status \in BackendStatus \cup {"NONE"}
    /\ Reached(f.round, f.status)
    /\ f.canBet => f.status \in {"WAITING", "RUNNING"}
    /\ f.canCash => f.status = "RUNNING" /\ f.players[Me] = "ACTIVE"

-----------------------------------------------------------------------------
(* The inductive invariant.                                                 *)

RoundInv ==
    /\ round \in 0..MaxRound /\ status \in BackendStatus \cup {"NONE"}
    /\ round = 0 <=> status = "NONE"
    /\ announcing = None \/ (announcing = Message("round", round, status) /\ round > 0)
    /\ late \subseteq PlayerEvent

\* What a room remembers of its round.
Remembered == BackendStatus \cup {"none"}
RoomInv ==
    /\ current \in 0..MaxRound /\ resolved \in 0..MaxRound
    /\ rooms \in [Rounds -> [payload : Remembered, state : Remembered, ticked : BOOLEAN]]
    /\ \A r \in Rounds : /\ rooms[r].payload # "none" => Reached(r, rooms[r].payload)
                         /\ rooms[r].state # "none" => Reached(r, rooms[r].state)

\* Only a gateway that is up has connections and sockets that it will still put in
\* a room, and nobody is in a room who has not been put there.
ListenInv ==
    /\ conn \in {"none", "auth", "in"}
    /\ closing \in Nat
    /\ gw # "up" => conn = "none" /\ closing = 0 /\ held = {}
    /\ conn # "in" => member = 0
    /\ ListenersFollowRound

BrowserInv ==
    /\ wire \in Seq(Heard)
    /\ Sound(view) /\ view.round <= round
    /\ view.round = round => Rank(view.phase) <= Rank(StatusToPhase(status))
    /\ fetch = [slot \in Slots |-> fetch[slot]]
    /\ \A slot \in Slots : fetch[slot] = Idle \/ fetch[slot] = Asked \/ Told(fetch[slot])

FeedInv == RoundInv /\ RoomInv /\ ListenInv /\ BrowserInv

-----------------------------------------------------------------------------
(* The handlers of the view.                                                *)

LEMMA PhaseIs ==
    ASSUME NEW s
    PROVE  /\ StatusToPhase(s) \in Phase
           /\ s = "RUNNING" <=> StatusToPhase(s) = "RUNNING"
           /\ s \in {"WAITING", "NONE"} => StatusToPhase(s) = "PREPARING"
           /\ s = "CRASHED" => StatusToPhase(s) = "CRASHED"
           /\ s = "FINISHED" => StatusToPhase(s) = "RESETTING"
<1>1. CASE s = "RUNNING"
  BY <1>1 DEF StatusToPhase, Phase
<1>2. CASE s = "CRASHED"
  BY <1>2 DEF StatusToPhase, Phase
<1>3. CASE s = "FINISHED"
  BY <1>3 DEF StatusToPhase, Phase
<1>4. CASE s \notin {"RUNNING", "CRASHED", "FINISHED"}
  <2>1. StatusToPhase(s) = "PREPARING"
    BY <1>4 DEF StatusToPhase
  <2> QED
    BY <1>4, <2>1 DEF Phase
<1> QED
  BY <1>1, <1>2, <1>3, <1>4

LEMMA RankIs ==
    /\ Rank("PREPARING") = 1 /\ Rank("RUNNING") = 2
    /\ Rank("CRASHED") = 3 /\ Rank("RESETTING") = 4
<1>1. Rank("PREPARING") = 1
  BY DEF Rank
<1>2. Rank("RUNNING") = 2
  BY DEF Rank
<1>3. Rank("CRASHED") = 3
  BY DEF Rank
<1>4. Rank("RESETTING") = 4
  BY DEF Rank
<1> QED
  BY <1>1, <1>2, <1>3, <1>4

\* A view made of parts that fit is one.
Made(v, r, p, pl, m, q, a, b, c) ==
    [v EXCEPT !.round = r, !.phase = p, !.stale = TRUE, !.players = pl, !.mine = m,
              !.queued = q, !.active = a, !.canBet = b, !.canCash = c]

LEMMA MakesView ==
    ASSUME NEW v \in View, NEW r \in 0..MaxRound, NEW p \in Phase,
           NEW pl \in [Users -> Shows], NEW m \in SUBSET Users, NEW q \in BOOLEAN,
           NEW a \in Users \cup {Nobody}, NEW b \in BOOLEAN, NEW c \in BOOLEAN,
           NEW w, w = Made(v, r, p, pl, m, q, a, b, c)
    PROVE  /\ w \in View /\ w.round = r /\ w.phase = p /\ w.players = pl /\ w.mine = m
           /\ w.active = a /\ w.canBet = b /\ w.canCash = c
<1> DEFINE x == [v EXCEPT !.round = r, !.phase = p, !.stale = TRUE, !.players = pl]
           y == [x EXCEPT !.mine = m, !.queued = q, !.active = a]
           z == [y EXCEPT !.canBet = b, !.canCash = c]
<1>1. w = z
  BY DEF Made
<1>2. x \in View /\ x.round = r /\ x.phase = p /\ x.players = pl
  BY DEF View
<1> HIDE DEF x
<1>3. /\ y \in View /\ y.round = r /\ y.phase = p /\ y.players = pl
      /\ y.mine = m /\ y.active = a
  BY <1>2 DEF View
<1> HIDE DEF y
<1>4. /\ z \in View /\ z.round = r /\ z.phase = p /\ z.players = pl
      /\ z.mine = m /\ z.active = a /\ z.canBet = b /\ z.canCash = c
  BY <1>3 DEF View
<1> QED
  BY <1>1, <1>4

LEMMA SoundRoundState ==
    ASSUME NEW v, Sound(v), NEW r \in Rounds, NEW s
    PROVE  /\ Sound(AfterRoundState(v, r, s))
           /\ AfterRoundState(v, r, s).round = r
           /\ AfterRoundState(v, r, s).phase = StatusToPhase(s)
<1> DEFINE changed == v.round # r
           carried == changed /\ s = "RUNNING" /\ v.queued /\ v.active = Nobody
           active == IF carried THEN Me ELSE IF changed THEN Nobody ELSE v.active
           players == IF carried THEN [NoPlayers EXCEPT ![Me] = "ACTIVE"]
                      ELSE IF changed THEN NoPlayers ELSE v.players
           mine == IF carried THEN {Me} ELSE IF changed THEN {} ELSE v.mine
           queue == v.queued /\ ~changed
           bet == s = "WAITING"
           cash == s = "RUNNING" /\ active # Nobody
           w == AfterRoundState(v, r, s)
           p == StatusToPhase(s)
<1>1. w = Made(v, r, p, players, mine, queue, active, bet, cash)
  BY DEF AfterRoundState, Made
<1>2. /\ v \in View /\ r \in 0..MaxRound /\ StatusToPhase(s) \in Phase /\ TRUE \in BOOLEAN
      /\ Me \in Users /\ Nobody \notin Users
  BY PhaseIs, RoundsAssumption, UsersAssumption DEF Sound, Rounds
<1>3. players \in [Users -> Shows] /\ mine \in SUBSET Users /\ active \in Users \cup {Nobody}
  <2>1. v.players \in [Users -> Shows] /\ v.mine \in SUBSET Users /\ v.active \in Users \cup {Nobody}
    BY <1>2 DEF View
  <2>2. NoPlayers \in [Users -> Shows] /\ [NoPlayers EXCEPT ![Me] = "ACTIVE"] \in [Users -> Shows]
    BY <1>2 DEF NoPlayers, Shows, PlayerStatus
  <2> QED
    BY <1>2, <2>1, <2>2
<1>4. queue \in BOOLEAN /\ bet \in BOOLEAN /\ cash \in BOOLEAN
  OBVIOUS
<1>5. active # Nobody => active \in mine /\ players[active] = "ACTIVE"
  <2>1. CASE carried
    BY <1>2, <2>1 DEF NoPlayers
  <2>2. CASE ~carried
    BY <2>2 DEF Sound
  <2> QED
    BY <2>1, <2>2
<1>6. /\ cash => StatusToPhase(s) = "RUNNING" /\ active # Nobody
      /\ bet => StatusToPhase(s) \in {"PREPARING", "RUNNING"}
  BY PhaseIs
<1>8. v \in View /\ r \in 0..MaxRound /\ p \in Phase
  BY <1>2
<1> HIDE DEF players, mine, active, queue, bet, cash, w, p
<1>7. /\ w \in View /\ w.round = r /\ w.phase = p /\ w.players = players
      /\ w.mine = mine /\ w.active = active /\ w.canBet = bet /\ w.canCash = cash
  BY <1>1, <1>3, <1>4, <1>8, MakesView
<1> QED
  BY <1>5, <1>6, <1>7 DEF Sound, w, p

LEMMA SoundRoundEnd ==
    ASSUME NEW v, Sound(v), NEW r \in Rounds, NEW s
    PROVE  /\ Sound(AfterRoundEnd(v, r, s))
           /\ AfterRoundEnd(v, r, s).round = r
           /\ AfterRoundEnd(v, r, s).phase = StatusToPhase(s)
<1>1. v \in View /\ r \in 0..MaxRound /\ StatusToPhase(s) \in Phase
  BY PhaseIs, RoundsAssumption DEF Sound, Rounds
<1> DEFINE w == AfterRoundEnd(v, r, s)
           p == StatusToPhase(s)
<1> HIDE DEF p
<1>2. /\ w \in View /\ w.round = r /\ w.phase = p /\ w.players = v.players
      /\ w.mine = v.mine /\ w.active = v.active /\ w.canBet = FALSE /\ w.canCash = FALSE
  BY <1>1 DEF AfterRoundEnd, View, p
<1> HIDE DEF w
<1> QED
  BY <1>2 DEF Sound, w, p

LEMMA SoundStale ==
    ASSUME NEW v, Sound(v), NEW b \in BOOLEAN
    PROVE  /\ Sound([v EXCEPT !.stale = b])
           /\ [v EXCEPT !.stale = b].round = v.round /\ [v EXCEPT !.stale = b].phase = v.phase
<1> DEFINE w == [v EXCEPT !.stale = b]
<1>1. /\ w \in View /\ w.round = v.round /\ w.phase = v.phase /\ w.players = v.players
      /\ w.mine = v.mine /\ w.active = v.active /\ w.canBet = v.canBet /\ w.canCash = v.canCash
  BY DEF Sound, View
<1> HIDE DEF w
<1> QED
  BY <1>1 DEF Sound, w

\* A player's event leaves the round and the phase as they are.
Keeps(v, w) == Sound(w) /\ w.round = v.round /\ w.phase = v.phase

LEMMA KeepsBet ==
    ASSUME NEW v, Sound(v), NEW e \in PlayerEvent, NEW own \in BOOLEAN
    PROVE  Keeps(v, ShowBet(v, e, own))
<1> DEFINE u == e.what
           players == UpsertPlayer(v.players, u, "ACTIVE")
           mine == IF own THEN v.mine \cup {u} ELSE v.mine
           flying == {x \in mine : players[x] = "ACTIVE"}
           active == IF flying = {} THEN Nobody ELSE CHOOSE x \in flying : TRUE
           bet == v.canBet /\ active # u
           cash == v.phase = "RUNNING" /\ active # Nobody
           w == ShowBet(v, e, own)
<1>1. w = [v EXCEPT !.players = players, !.mine = mine, !.active = active,
                    !.canBet = bet, !.canCash = cash]
  BY DEF ShowBet
<1>2. v \in View /\ u \in Users /\ v.canBet \in BOOLEAN /\ Nobody \notin Users
  BY UsersAssumption DEF Sound, View, PlayerEvent
<1>3. players \in [Users -> Shows] /\ mine \in SUBSET Users
  BY <1>2 DEF UpsertPlayer, View, Shows, PlayerStatus
<1> HIDE DEF players, mine, u
<1>4. flying \subseteq mine /\ \A x \in flying : players[x] = "ACTIVE"
  OBVIOUS
<1> HIDE DEF flying
<1>5. active = Nobody \/ active \in flying
  OBVIOUS
<1>6. /\ active \in Users \cup {Nobody}
      /\ active # Nobody => active \in mine /\ players[active] = "ACTIVE"
  BY <1>3, <1>4, <1>5
<1> HIDE DEF active
<1>7. bet \in BOOLEAN /\ cash \in BOOLEAN
  OBVIOUS
<1>8. /\ cash => v.phase = "RUNNING" /\ active # Nobody
      /\ bet => v.canBet
  BY <1>2
<1> HIDE DEF bet, cash
<1>9. /\ w \in View /\ w.round = v.round /\ w.phase = v.phase /\ w.players = players
      /\ w.mine = mine /\ w.active = active /\ w.canBet = bet /\ w.canCash = cash
  BY <1>1, <1>2, <1>3, <1>6, <1>7 DEF View
<1> HIDE DEF w
<1> QED
  BY <1>6, <1>8, <1>9 DEF Keeps, Sound, w

LEMMA KeepsCashout ==
    ASSUME NEW v, Sound(v), NEW e \in PlayerEvent, NEW own \in BOOLEAN
    PROVE  Keeps(v, ShowCashout(v, e, own))
<1> DEFINE u == e.what
           players == UpsertPlayer(v.players, u, "CASHED_OUT")
           mine == IF own THEN v.mine \cup {u} ELSE v.mine
           active == IF u \in mine \/ v.active = u THEN Nobody ELSE v.active
           cash == v.canCash /\ u \notin mine /\ v.active # u
           w == ShowCashout(v, e, own)
<1>1. w = [v EXCEPT !.players = players, !.mine = mine, !.active = active, !.canCash = cash]
  BY DEF ShowCashout
<1>2. v \in View /\ u \in Users /\ v.canCash \in BOOLEAN /\ Nobody \notin Users
  BY UsersAssumption DEF Sound, View, PlayerEvent
<1>3. players \in [Users -> Shows] /\ mine \in SUBSET Users
  BY <1>2 DEF UpsertPlayer, View, Shows, PlayerStatus
<1>4. \A x \in Users : x # u => players[x] = v.players[x]
  BY <1>2 DEF UpsertPlayer, View
<1> HIDE DEF players
<1>5. /\ active \in Users \cup {Nobody}
      /\ active # Nobody => active \in mine /\ players[active] = "ACTIVE"
  <2>1. v.active \in Users \cup {Nobody}
    BY <1>2 DEF View
  <2>2. CASE u \in mine \/ v.active = u
    BY <2>2
  <2>3. CASE ~(u \in mine \/ v.active = u)
    BY <1>2, <1>4, <2>1, <2>3 DEF Sound
  <2> QED
    BY <2>2, <2>3
<1>6. /\ cash \in BOOLEAN
      /\ cash => v.phase = "RUNNING" /\ active # Nobody
  BY <1>2 DEF Sound
<1> HIDE DEF mine, u, active, cash
<1>7. /\ w \in View /\ w.round = v.round /\ w.phase = v.phase /\ w.players = players
      /\ w.mine = mine /\ w.active = active /\ w.canBet = v.canBet /\ w.canCash = cash
  BY <1>1, <1>2, <1>3, <1>5, <1>6 DEF View
<1> HIDE DEF w
<1> QED
  BY <1>5, <1>6, <1>7 DEF Keeps, Sound, w

LEMMA KeepsPending ==
    ASSUME NEW v, Sound(v), NEW p \in Seq(PlayerEvent)
    PROVE  Keeps(v, [v EXCEPT !.pending = p])
<1> DEFINE w == [v EXCEPT !.pending = p]
<1>1. /\ w \in View /\ w.round = v.round /\ w.phase = v.phase /\ w.players = v.players
      /\ w.mine = v.mine /\ w.active = v.active /\ w.canBet = v.canBet /\ w.canCash = v.canCash
  BY DEF Sound, View
<1> HIDE DEF w
<1> QED
  BY <1>1 DEF Keeps, Sound, w

LEMMA KeepsPlayerEvent ==
    ASSUME NEW v, Sound(v), NEW e \in PlayerEvent, NEW own \in BOOLEAN
    PROVE  Keeps(v, AfterPlayerEvent(v, e, own))
<1>1. Keeps(v, Enqueue(v, e))
  <2> DEFINE all == Append(v.pending, e)
             p == IF Len(all) > PendingLimit THEN Tail(all) ELSE all
  <2>1. v.pending \in Seq(PlayerEvent)
    BY DEF Sound, View
  <2>2. all \in Seq(PlayerEvent) /\ all # << >>
    BY <2>1
  <2>3. Tail(all) \in Seq(PlayerEvent)
    BY <2>2, HeadTailProperties
  <2>4. p \in Seq(PlayerEvent)
    BY <2>2, <2>3
  <2>5. Enqueue(v, e) = [v EXCEPT !.pending = p]
    BY DEF Enqueue
  <2> HIDE DEF p
  <2> QED
    BY <2>4, <2>5, KeepsPending
<1>2. Keeps(v, [v EXCEPT !.stale = TRUE])
  BY SoundStale DEF Keeps
<1>3. Keeps(v, ShowBet(v, e, own)) /\ Keeps(v, ShowCashout(v, e, own))
  BY KeepsBet, KeepsCashout
<1> QED
  BY <1>1, <1>2, <1>3 DEF AfterPlayerEvent

-----------------------------------------------------------------------------
(* The player events that have waited for a snapshot are caught up with one *)
(* after the other.  The fold is a recursion over the subsets of their      *)
(* places, the last place first; as in Sums, it is shown to be a definition *)
(* and then to keep what each event keeps, by the least counterexample.     *)

\* One step of the recursion, g being what it leaves of the smaller sets.
FlushStep(g, v, own, s) ==
    IF s = {} THEN [v EXCEPT !.pending = << >>]
    ELSE AfterPlayerEvent(g[s \ {Max(s)}], v.pending[Max(s)], own)

IsFlush(g, v, own) ==
    g = [s \in SUBSET (DOMAIN v.pending) |-> FlushStep(g, v, own, s)]

\* g is right on the sets that have no more than n places.
FlushedUpTo(g, v, own, n) ==
    /\ g = [s \in SUBSET (DOMAIN v.pending) |-> g[s]]
    /\ \A s \in SUBSET (DOMAIN v.pending) :
          Cardinality(s) <= n => g[s] = FlushStep(g, v, own, s)

LEMMA HasMax ==
    ASSUME NEW n \in Nat, NEW s \in SUBSET (1..n), s # {}
    PROVE  Max(s) \in s
<1> DEFINE Above == {k \in Nat : \A x \in s : x <= k}
<1>1. n \in Above
  OBVIOUS
<1>2. PICK k \in Above : \A m \in Above : k <= m
  BY <1>1, SmallestMember
<1>3. k \in s
  <2> SUFFICES ASSUME k \notin s PROVE FALSE
    OBVIOUS
  <2>1. k \in Nat /\ \A x \in s : x \in Nat /\ x >= 1 /\ x <= k /\ x # k
    BY <1>2
  <2>4. PICK x \in s : TRUE
    OBVIOUS
  <2>5. k - 1 \in Nat
    BY <2>1, <2>4
  <2>2. k - 1 \in Nat /\ \A y \in s : y <= k - 1
    BY <2>1, <2>5
  <2>3. k - 1 \in Above
    BY <2>2
  <2> QED
    BY <1>2, <2>1, <2>3
<1>4. \A y \in s : k >= y
  BY <1>2
<1> QED
  BY <1>3, <1>4 DEF Max

LEMMA Places ==
    ASSUME NEW v, Sound(v)
    PROVE  /\ IsFiniteSet(DOMAIN v.pending)
           /\ \A i \in DOMAIN v.pending : v.pending[i] \in PlayerEvent
           /\ \A s \in SUBSET (DOMAIN v.pending) :
                 /\ IsFiniteSet(s) /\ Cardinality(s) \in Nat
                 /\ s # {} => /\ Max(s) \in s /\ s \ {Max(s)} \in SUBSET (DOMAIN v.pending)
                              /\ Cardinality(s \ {Max(s)}) = Cardinality(s) - 1
                 /\ Cardinality(s) = 0 => s = {}
<1>1. v.pending \in Seq(PlayerEvent)
  BY DEF Sound, View
<1>2. /\ Len(v.pending) \in Nat /\ DOMAIN v.pending = 1..Len(v.pending)
      /\ \A i \in DOMAIN v.pending : v.pending[i] \in PlayerEvent
  BY <1>1, LenProperties
<1>3. IsFiniteSet(DOMAIN v.pending)
  BY <1>2, FS_Interval
<1>4. ASSUME NEW s \in SUBSET (DOMAIN v.pending)
      PROVE  IsFiniteSet(s) /\ Cardinality(s) \in Nat /\ (Cardinality(s) = 0 => s = {})
  BY <1>3, <1>4, FS_Subset, FS_CardinalityType, FS_EmptySet
<1>5. ASSUME NEW s \in SUBSET (DOMAIN v.pending), s # {}
      PROVE  /\ Max(s) \in s /\ s \ {Max(s)} \in SUBSET (DOMAIN v.pending)
             /\ Cardinality(s \ {Max(s)}) = Cardinality(s) - 1
  <2>1. Max(s) \in s
    BY <1>2, <1>5, HasMax
  <2> QED
    BY <1>4, <2>1, OneLess
<1> QED
  BY <1>2, <1>3, <1>4, <1>5

LEMMA FlushUpTo ==
    ASSUME NEW v, Sound(v), NEW own, NEW n \in Nat
    PROVE  \E g : FlushedUpTo(g, v, own, n)
<1> DEFINE P == SUBSET (DOMAIN v.pending)
           Wrong == {k \in Nat : ~ \E g : FlushedUpTo(g, v, own, k)}
<1> SUFFICES ASSUME Wrong # {} PROVE FALSE
  OBVIOUS
<1>1. PICK k \in Wrong : \A m \in Wrong : k <= m
  BY SmallestMember
<1>2. CASE k = 0
  <2> DEFINE h == [s \in P |-> [v EXCEPT !.pending = << >>]]
  <2>1. ASSUME NEW s \in P, Cardinality(s) <= 0
        PROVE  h[s] = FlushStep(h, v, own, s)
    <3>0. Cardinality(s) \in Nat
      BY Places
    <3>1. Cardinality(s) = 0
      BY <2>1, <3>0
    <3>2. s = {}
      BY <3>1, Places
    <3> QED
      BY <3>2 DEF FlushStep
  <2>2. h = [s \in P |-> h[s]]
    OBVIOUS
  <2> HIDE DEF h
  <2>3. FlushedUpTo(h, v, own, 0)
    BY <2>1, <2>2 DEF FlushedUpTo
  <2> QED
    BY <2>3, <1>1, <1>2
<1>3. CASE k # 0
  <2>1. k - 1 \in Nat /\ k - 1 \notin Wrong
    BY <1>1, <1>3
  <2>2. PICK g : FlushedUpTo(g, v, own, k - 1)
    BY <2>1
  <2> DEFINE h == [s \in P |->
                     IF Cardinality(s) <= k - 1 THEN g[s] ELSE FlushStep(g, v, own, s)]
  <2>3. ASSUME NEW s \in P, Cardinality(s) <= k
        PROVE  h[s] = FlushStep(h, v, own, s)
    <3>1. h[s] = FlushStep(g, v, own, s)
      BY <2>2 DEF FlushedUpTo
    <3>2. CASE s = {}
      BY <3>1, <3>2 DEF FlushStep
    <3>3. CASE s # {}
      <4>1. s \ {Max(s)} \in P /\ Cardinality(s \ {Max(s)}) <= k - 1
        BY <2>3, <3>3, Places
      <4>2. h[s \ {Max(s)}] = g[s \ {Max(s)}]
        BY <4>1
      <4> QED
        BY <3>1, <3>3, <4>2 DEF FlushStep
    <3> QED
      BY <3>2, <3>3
  <2>4. h = [s \in P |-> h[s]]
    OBVIOUS
  <2> HIDE DEF h
  <2>5. FlushedUpTo(h, v, own, k)
    BY <2>3, <2>4 DEF FlushedUpTo
  <2> QED
    BY <2>5, <1>1
<1> QED
  BY <1>2, <1>3

LEMMA FlushIs ==
    ASSUME NEW v, Sound(v), NEW own
    PROVE  \E g : /\ IsFlush(g, v, own)
                  /\ FlushPendingPlayerEvents(v, own) = g[DOMAIN v.pending]
<1>1. PICK h : FlushedUpTo(h, v, own, Cardinality(DOMAIN v.pending))
  BY FlushUpTo, Places
<1>2. \A s \in SUBSET (DOMAIN v.pending) : Cardinality(s) <= Cardinality(DOMAIN v.pending)
  BY Places, FS_Subset
<1>3. IsFlush(h, v, own)
  BY <1>1, <1>2 DEF FlushedUpTo, IsFlush
<1> DEFINE g == CHOOSE g : IsFlush(g, v, own)
<1>4. IsFlush(g, v, own)
  BY <1>3
<1>5. FlushPendingPlayerEvents(v, own) = g[DOMAIN v.pending]
  BY DEF FlushPendingPlayerEvents, FoldLeft, MapThenFoldSet, IsFlush, FlushStep
<1> QED
  BY <1>4, <1>5

LEMMA KeepsFlush ==
    ASSUME NEW v, Sound(v), NEW own \in BOOLEAN
    PROVE  Keeps(v, FlushPendingPlayerEvents(v, own))
<1>1. PICK g : /\ IsFlush(g, v, own)
               /\ FlushPendingPlayerEvents(v, own) = g[DOMAIN v.pending]
  BY FlushIs
<1>2. \A s \in SUBSET (DOMAIN v.pending) : g[s] = FlushStep(g, v, own, s)
  BY <1>1 DEF IsFlush
<1> DEFINE Wrong == {k \in Nat : \E s \in SUBSET (DOMAIN v.pending) :
                                    Cardinality(s) = k /\ ~Keeps(v, g[s])}
<1>3. Wrong = {}
  <2> SUFFICES ASSUME Wrong # {} PROVE FALSE
    OBVIOUS
  <2>1. PICK k \in Wrong : \A m \in Wrong : k <= m
    BY SmallestMember
  <2>2. PICK s \in SUBSET (DOMAIN v.pending) : Cardinality(s) = k /\ ~Keeps(v, g[s])
    BY <2>1
  <2>3. CASE s = {}
    <3>1. << >> \in Seq(PlayerEvent)
      BY EmptySeq
    <3>2. Keeps(v, [v EXCEPT !.pending = << >>])
      BY <3>1, KeepsPending
    <3>3. g[s] = [v EXCEPT !.pending = << >>]
      BY <1>2, <2>3 DEF FlushStep
    <3> QED
      BY <2>2, <3>2, <3>3
  <2>4. CASE s # {}
    <3> DEFINE i == Max(s)
               t == s \ {i}
    <3>1. /\ i \in DOMAIN v.pending /\ t \in SUBSET (DOMAIN v.pending)
          /\ Cardinality(t) = k - 1 /\ k - 1 \in Nat
          /\ v.pending[i] \in PlayerEvent
      <4>1. /\ i \in s /\ t \in SUBSET (DOMAIN v.pending)
            /\ Cardinality(t) = Cardinality(s) - 1 /\ Cardinality(t) \in Nat
        BY <2>4, Places
      <4> QED
        BY <2>2, <4>1, Places
    <3>2. g[s] = AfterPlayerEvent(g[t], v.pending[i], own)
      BY <1>2, <2>4 DEF FlushStep
    <3> HIDE DEF i, t
    <3>3. k - 1 \notin Wrong
      BY <2>1, <3>1
    <3>4. Keeps(v, g[t])
      BY <3>1, <3>3
    <3>5. Keeps(g[t], g[s])
      BY <3>1, <3>2, <3>4, KeepsPlayerEvent DEF Keeps
    <3> QED
      BY <2>2, <3>4, <3>5 DEF Keeps
  <2> QED
    BY <2>3, <2>4
<1>4. Cardinality(DOMAIN v.pending) \in Nat
  BY Places
<1> QED
  BY <1>1, <1>3, <1>4

-----------------------------------------------------------------------------
(* What the browser does with messages and snapshots.                       *)

\* The view is one, and not ahead of the round.
InTime(v) ==
    /\ Sound(v) /\ v.round <= round
    /\ v.round = round => Rank(v.phase) <= Rank(StatusToPhase(status))

LEMMA KeepsInTime ==
    ASSUME NEW v, NEW w, InTime(v), Keeps(v, w)
    PROVE  InTime(w)
  BY DEF InTime, Keeps

LEMMA SnapshotInTime ==
    ASSUME NEW v, Sound(v), NEW f, Told(f), SnapshotWellFormed(f), NEW own \in BOOLEAN
    PROVE  InTime(AfterSnapshot(v, f, own))
<1> DEFINE players == [u \in Users |-> PlayerShown(f, u)]
           mine == {u \in {Me} : f.players[u] # "none"}
           active == IF f.players[Me] = "ACTIVE" THEN Me ELSE Nobody
           p == StatusToPhase(f.status)
           w == [v EXCEPT !.round = f.round, !.phase = p, !.players = players, !.mine = mine,
                   !.queued = f.queued, !.active = active,
                   !.canBet = f.canBet, !.canCash = f.canCash, !.applied = TRUE]
<1>1. AfterSnapshot(v, f, own) = FlushPendingPlayerEvents(w, own)
  BY DEF AfterSnapshot
<1>2. /\ v \in View /\ f.round \in 0..MaxRound /\ f.queued \in BOOLEAN
      /\ f.canBet \in BOOLEAN /\ f.canCash \in BOOLEAN /\ Me \in Users /\ Nobody \notin Users
      /\ \A u \in Users : f.players[u] \in Shows
  BY UsersAssumption DEF Sound, Told, SnapshotWellFormed, Shows
<1>3. /\ players \in [Users -> Shows] /\ mine \in SUBSET Users /\ active \in Users \cup {Nobody}
      /\ active # Nobody => active \in mine /\ players[active] = "ACTIVE"
      /\ f.players[Me] = "ACTIVE" => active # Nobody
  BY <1>2 DEF PlayerShown
<1>4. /\ p \in Phase
      /\ f.canCash => p = "RUNNING" /\ active # Nobody
      /\ f.canBet => p \in {"PREPARING", "RUNNING"}
  BY <1>3, PhaseIs DEF Told
<1>5. f.round <= round /\ (f.round = round => Rank(p) <= Rank(StatusToPhase(status)))
  BY DEF Told, Reached
<1> HIDE DEF players, mine, active, p
<1>6. /\ w \in View /\ w.round = f.round /\ w.phase = p /\ w.players = players
      /\ w.mine = mine /\ w.active = active /\ w.canBet = f.canBet /\ w.canCash = f.canCash
  <2> DEFINE x == [v EXCEPT !.round = f.round, !.phase = p, !.players = players]
             y == [x EXCEPT !.mine = mine, !.queued = f.queued, !.active = active]
             z == [y EXCEPT !.canBet = f.canBet, !.canCash = f.canCash, !.applied = TRUE]
  <2>1. w = z
    OBVIOUS
  <2>2. x \in View /\ x.round = f.round /\ x.phase = p /\ x.players = players
    BY <1>2, <1>3, <1>4 DEF View
  <2> HIDE DEF x
  <2>3. /\ y \in View /\ y.round = f.round /\ y.phase = p /\ y.players = players
        /\ y.mine = mine /\ y.active = active
    BY <1>2, <1>3, <2>2 DEF View
  <2> HIDE DEF y
  <2>4. /\ z \in View /\ z.round = f.round /\ z.phase = p /\ z.players = players
        /\ z.mine = mine /\ z.active = active /\ z.canBet = f.canBet /\ z.canCash = f.canCash
    BY <1>2, <2>3 DEF View
  <2> QED
    BY <2>1, <2>4
<1> HIDE DEF w
<1>7. InTime(w)
  BY <1>3, <1>4, <1>5, <1>6 DEF InTime, Sound
<1>8. Keeps(w, FlushPendingPlayerEvents(w, own))
  BY <1>7, KeepsFlush DEF InTime
<1> QED
  BY <1>1, <1>7, <1>8, KeepsInTime

LEMMA MessageInTime ==
    ASSUME NEW v, InTime(v), NEW e \in Heard, NEW own \in BOOLEAN
    PROVE  InTime(AfterMessage(v, e, own))
<1>1. Sound(v)
  BY DEF InTime
<1>2. CASE e \in PlayerEvent
  <2>1. AfterMessage(v, e, own) = AfterPlayerEvent(v, e, own)
    BY <1>2 DEF AfterMessage, PlayerEvent
  <2>2. Keeps(v, AfterPlayerEvent(v, e, own))
    BY <1>1, <1>2, KeepsPlayerEvent
  <2> QED
    BY <2>1, <2>2, KeepsInTime
<1>3. CASE e \in Multiplier
  <2>1. AfterMessage(v, e, own) = AfterMultiplier(v, e.round)
    BY <1>3 DEF AfterMessage, Multiplier
  <2>2. Keeps(v, [v EXCEPT !.stale = TRUE])
    BY <1>1, SoundStale DEF Keeps
  <2>3. Keeps(v, AfterMultiplier(v, e.round))
    BY <1>1, <2>2 DEF AfterMultiplier, Keeps
  <2> QED
    BY <2>1, <2>3, KeepsInTime
<1>4. CASE e \in RoundMessage /\ Reached(e.round, e.what)
  <2>1. e.round \in Rounds /\ e.type \in {"round_state", "round_crashed", "round_finished"}
    BY <1>4 DEF RoundMessage
  <2> DEFINE w == AfterMessage(v, e, own)
  <2>2. Sound(w) /\ w.round = e.round /\ w.phase = StatusToPhase(e.what)
    <3>1. CASE e.type = "round_state"
      <4>1. w = AfterRoundState(v, e.round, e.what)
        BY <3>1 DEF AfterMessage
      <4> HIDE DEF w
      <4> QED
        BY <1>1, <2>1, <4>1, SoundRoundState
    <3>2. CASE e.type # "round_state"
      <4>1. w = AfterRoundEnd(v, e.round, e.what)
        BY <2>1, <3>2 DEF AfterMessage
      <4> HIDE DEF w
      <4> QED
        BY <1>1, <2>1, <4>1, SoundRoundEnd
    <3> QED
      BY <3>1, <3>2
  <2> HIDE DEF w
  <2>3. InTime(w)
    BY <1>4, <2>2 DEF InTime, Reached
  <2> QED
    BY <2>3 DEF w
<1> QED
  BY <1>2, <1>3, <1>4 DEF Heard

-----------------------------------------------------------------------------
(* The round only goes on.                                                  *)

GoesOn ==
    /\ round <= round'
    /\ round' = round => Rank(StatusToPhase(status)) <= Rank(StatusToPhase(status'))

LEMMA RankType ==
    ASSUME NEW s
    PROVE  Rank(StatusToPhase(s)) \in 1..4
  BY PhaseIs, RankIs DEF Phase

LEMMA ReachedStays ==
    ASSUME RoundInv, RoundInv', GoesOn
    PROVE  /\ \A r \in 0..MaxRound : \A s : Reached(r, s) => Reached(r, s)'
           /\ Heard \subseteq Heard'
           /\ \A f : Told(f) => Told(f)'
           /\ \A v : InTime(v) => InTime(v)'
<1>1. round \in Int /\ round' \in Int /\ MaxRound \in Nat
  BY RoundsAssumption DEF RoundInv
<1>2. ASSUME NEW r \in 0..MaxRound, NEW s, Reached(r, s)
      PROVE  Reached(r, s)'
  <2> DEFINE x == Rank(StatusToPhase(s))
             y == Rank(StatusToPhase(status))
             z == Rank(StatusToPhase(status'))
  <2>1. x \in Int /\ y \in Int /\ z \in Int
    BY RankType
  <2>2. /\ r <= round /\ (r = round => x <= y)
        /\ round <= round' /\ (round' = round => y <= z)
    BY <1>2 DEF Reached, GoesOn
  <2> HIDE DEF x, y, z
  <2>3. r <= round' /\ (r = round' => x <= z)
    BY <1>1, <2>1, <2>2
  <2> QED
    BY <2>3 DEF Reached, x, z
<1>3. Heard \subseteq Heard'
  <2>1. \A m \in RoundMessage : m.round \in 0..MaxRound
    BY <1>1 DEF RoundMessage, Rounds
  <2> QED
    BY <1>2, <2>1 DEF Heard
<1>4. ASSUME NEW f, Told(f)
      PROVE  Told(f)'
  BY <1>2, <1>4 DEF Told
<1>5. ASSUME NEW v, InTime(v)
      PROVE  InTime(v)'
  <2> DEFINE x == Rank(v.phase)
             y == Rank(StatusToPhase(status))
             z == Rank(StatusToPhase(status'))
  <2>1. v \in View
    BY <1>5 DEF InTime, Sound
  <2>2. v.round \in Int /\ v.phase \in Phase
    BY <2>1, <1>1 DEF View
  <2>3. x \in Int
    BY <2>2, RankIs DEF Phase
  <2>4. y \in Int /\ z \in Int
    BY RankType
  <2>5. /\ v.round <= round /\ (v.round = round => x <= y)
        /\ round <= round' /\ (round' = round => y <= z)
    BY <1>5 DEF InTime, GoesOn
  <2> HIDE DEF x, y, z
  <2>6. v.round <= round' /\ (v.round = round' => x <= z)
    BY <1>1, <2>2, <2>3, <2>4, <2>5
  <2> QED
    BY <1>5, <2>6 DEF InTime, x, z
<1> QED
  BY <1>2, <1>3, <1>4, <1>5

-----------------------------------------------------------------------------
(* What an action leaves alone keeps its part of the invariant.             *)

LEMMA RoundStays ==
    ASSUME RoundInv, UNCHANGED <<round, status, announcing>>, late' \subseteq PlayerEvent
    PROVE  RoundInv' /\ GoesOn
<1>1. RoundInv'
  BY DEF RoundInv
<1>2. round \in Int /\ Rank(StatusToPhase(status)) \in Int
  BY RankType, RoundsAssumption DEF RoundInv
<1>3. StatusToPhase(status') = StatusToPhase(status) /\ round' = round
  OBVIOUS
<1>4. GoesOn
  BY <1>2, <1>3 DEF GoesOn
<1> QED
  BY <1>1, <1>4

LEMMA RoomStays ==
    ASSUME RoundInv, RoundInv', GoesOn, RoomInv, UNCHANGED rooms,
           current' \in 0..MaxRound, resolved' \in 0..MaxRound
    PROVE  RoomInv'
<1>1. \A r \in Rounds : r \in 0..MaxRound
  BY RoundsAssumption DEF Rounds
<1>2. \A r \in Rounds : /\ rooms[r].payload # "none" => Reached(r, rooms[r].payload)'
                        /\ rooms[r].state # "none" => Reached(r, rooms[r].state)'
  <2> TAKE r \in Rounds
  <2> DEFINE p == rooms[r].payload
             s == rooms[r].state
  <2>1. /\ p # "none" => Reached(r, p)
        /\ s # "none" => Reached(r, s)
    BY DEF RoomInv
  <2>2. rooms'[r].payload = p /\ rooms'[r].state = s
    OBVIOUS
  <2> QED
    BY <1>1, <2>1, <2>2, ReachedStays DEF Reached
<1> QED
  BY <1>2 DEF RoomInv

LEMMA ListenStays ==
    ASSUME ListenInv, UNCHANGED <<gw, current, conn, member, closing, held>>
    PROVE  ListenInv'
  BY DEF ListenInv, ListenersFollowRound

LEMMA HeardStays ==
    ASSUME RoundInv, RoundInv', GoesOn, NEW w \in Seq(Heard)
    PROVE  w \in Seq(Heard')
<1>1. Heard \subseteq Heard'
  BY ReachedStays
<1>2. Seq(Heard) \subseteq Seq(Heard')
  BY <1>1, SeqMonotonic
<1> QED
  BY <1>2

LEMMA FetchStays ==
    ASSUME RoundInv, RoundInv', GoesOn, BrowserInv, UNCHANGED fetch
    PROVE  /\ fetch' = [slot \in Slots |-> fetch'[slot]]
           /\ \A slot \in Slots : fetch'[slot] = Idle \/ fetch'[slot] = Asked \/ Told(fetch[slot])'
  BY ReachedStays DEF BrowserInv, Told, Reached

LEMMA BrowserStays ==
    ASSUME RoundInv, RoundInv', GoesOn, BrowserInv, UNCHANGED <<wire, view, fetch>>
    PROVE  BrowserInv'
<1>1. wire' \in Seq(Heard')
  <2>1. wire \in Seq(Heard)
    BY DEF BrowserInv
  <2> QED
    BY <2>1, HeardStays
<1>2. InTime(view)'
  <2>1. InTime(view)
    BY DEF BrowserInv, InTime
  <2> QED
    BY <2>1, ReachedStays DEF InTime, Sound
<1> QED
  BY <1>1, <1>2, FetchStays DEF BrowserInv, InTime

-----------------------------------------------------------------------------
(* An event that is published is true of its round, and so is what the room *)
(* remembers of it and what its listeners are sent.                         *)

RoundEvent == [type : {"round"}, round : Rounds, what : BackendStatus]
TrueEvent(e) ==
    \/ e \in PlayerEvent
    \/ e \in Multiplier
    \/ e \in RoundEvent /\ Reached(e.round, e.what)

LEMMA RemembersTruth ==
    ASSUME NEW e, TrueEvent(e),
           NEW rm \in [payload : Remembered, state : Remembered, ticked : BOOLEAN],
           rm.payload # "none" => Reached(e.round, rm.payload),
           rm.state # "none" => Reached(e.round, rm.state)
    PROVE  /\ Remember(rm, e) \in [payload : Remembered, state : Remembered, ticked : BOOLEAN]
           /\ Remember(rm, e).payload # "none" => Reached(e.round, Remember(rm, e).payload)
           /\ Remember(rm, e).state # "none" => Reached(e.round, Remember(rm, e).state)
<1>1. CASE e \in PlayerEvent
  <2>1. Remember(rm, e) = rm
    BY <1>1 DEF Remember, SetsCurrent, PlayerEvent
  <2> QED
    BY <2>1
<1>2. CASE e \in Multiplier
  <2>1. Remember(rm, e) = [rm EXCEPT !.ticked = TRUE]
    BY <1>2 DEF Remember, SetsCurrent, Multiplier
  <2> QED
    BY <2>1
<1>3. CASE e \in RoundEvent /\ Reached(e.round, e.what)
  <2>1. e.what \in Remembered
    BY <1>3 DEF RoundEvent, Remembered
  <2>2. CASE SetsCurrent(e)
    <3>1. Remember(rm, e) = [rm EXCEPT !.payload = e.what, !.state = e.what]
      BY <1>3, <2>2 DEF Remember, SetsCurrent, RoundEvent
    <3> QED
      BY <1>3, <2>1, <3>1
  <2>3. CASE ~SetsCurrent(e)
    <3>1. Remember(rm, e) = [rm EXCEPT !.state = e.what]
      BY <1>3, <2>3 DEF Remember, RoundEvent
    <3> QED
      BY <1>3, <2>1, <3>1
  <2> QED
    BY <2>2, <2>3
<1> QED
  BY <1>1, <1>2, <1>3 DEF TrueEvent

LEMMA MapsTruth ==
    ASSUME NEW e, TrueEvent(e)
    PROVE  MapEvent(e) \in Heard
<1>1. CASE e \in PlayerEvent
  <2>1. /\ e.type \in {"PLAYER_BET", "PLAYER_CASHOUT"}
        /\ e.round \in Rounds /\ e.what \in Users
    BY <1>1 DEF PlayerEvent
  <2>2. MapEvent(e) = Message(e.type, e.round, e.what)
    BY <2>1 DEF MapEvent, PlayerMessage
  <2> HIDE DEF MapEvent
  <2>3. MapEvent(e) \in PlayerEvent
    BY <2>1, <2>2 DEF Message, PlayerEvent
  <2> QED
    BY <2>3 DEF Heard
<1>2. CASE e \in Multiplier
  BY <1>2 DEF MapEvent, Multiplier, Heard
<1>3. CASE e \in RoundEvent /\ Reached(e.round, e.what)
  <2>1. /\ e.round \in Rounds /\ e.what \in BackendStatus
        /\ e.type \notin {"PLAYER_BET", "PLAYER_CASHOUT", "multiplier"}
    BY <1>3 DEF RoundEvent
  <2>2. PICK t \in {"round_state", "round_crashed", "round_finished"} :
           MapEvent(e) = Message(t, e.round, e.what)
    <3>1. CASE e.what = "CRASHED"
      BY <2>1, <3>1 DEF MapEvent
    <3>2. CASE e.what = "FINISHED"
      BY <2>1, <3>2 DEF MapEvent
    <3>3. CASE e.what \notin {"CRASHED", "FINISHED"}
      <4>1. MapEvent(e) = Message("round_state", e.round, e.what)
        BY <2>1, <3>3 DEF MapEvent
      <4> QED
        BY <4>1
    <3> QED
      BY <3>1, <3>2, <3>3
  <2> HIDE DEF MapEvent
  <2> QED
    BY <1>3, <2>1, <2>2 DEF Message, RoundMessage, Heard
<1> QED
  BY <1>1, <1>2, <1>3 DEF TrueEvent

LEMMA Publishes ==
    ASSUME FeedInv, RoundInv', UNCHANGED <<round, status, view, fetch>>,
           NEW e, TrueEvent(e), Publish(e)
    PROVE  RoomInv' /\ ListenInv' /\ BrowserInv'
<1>0. RoundInv /\ RoomInv /\ ListenInv /\ BrowserInv /\ GoesOn
  <2>1. round \in Int /\ Rank(StatusToPhase(status)) \in Int
    BY RankType, RoundsAssumption DEF RoundInv, FeedInv
  <2>2. StatusToPhase(status') = StatusToPhase(status) /\ round' = round
    OBVIOUS
  <2> QED
    BY <2>1, <2>2 DEF FeedInv, GoesOn
<1>1. CASE ~subscribed
  <2>1. UNCHANGED <<gatewayVars, wire>>
    BY <1>1 DEF Publish
  <2>2. current' \in 0..MaxRound /\ resolved' \in 0..MaxRound
    BY <1>0, <2>1 DEF RoomInv, gatewayVars
  <2> QED
    BY <1>0, <2>1, <2>2, RoomStays, ListenStays, BrowserStays DEF gatewayVars, ghosts
<1>2. CASE subscribed
  <2>1. HandleEvent(e) /\ wire' = wire \o Sends(e)
    BY <1>2 DEF Publish
  <2>2. e.round \in Rounds /\ \A r \in Rounds : r \in 0..MaxRound /\ r # 0
    <3>1. e.round \in Rounds
      BY DEF TrueEvent, PlayerEvent, Multiplier, RoundEvent
    <3> QED
      BY <3>1, RoundsAssumption DEF Rounds
  <2>3. RoomInv'
    <3>1. current' \in 0..MaxRound /\ resolved' \in 0..MaxRound
      BY <1>0, <2>1, <2>2 DEF RoomInv, HandleEvent
    <3> DEFINE rm == rooms[e.round]
               new == Remember(rm, e)
    <3>2. /\ rm \in [payload : Remembered, state : Remembered, ticked : BOOLEAN]
          /\ rm.payload # "none" => Reached(e.round, rm.payload)
          /\ rm.state # "none" => Reached(e.round, rm.state)
      BY <1>0, <2>2 DEF RoomInv
    <3> HIDE DEF rm
    <3>3. /\ new \in [payload : Remembered, state : Remembered, ticked : BOOLEAN]
          /\ new.payload # "none" => Reached(e.round, new.payload)
          /\ new.state # "none" => Reached(e.round, new.state)
      BY <3>2, RemembersTruth
    <3>4. rooms' = [rooms EXCEPT ![e.round] = new]
      BY <2>1 DEF HandleEvent, rm
    <3> HIDE DEF new
    <3>5. \A r \in Rounds : /\ rooms'[r].payload # "none" => Reached(r, rooms'[r].payload)
                            /\ rooms'[r].state # "none" => Reached(r, rooms'[r].state)
      <4> TAKE r \in Rounds
      <4>1. CASE r = e.round
        <5>1. rooms'[r] = new
          BY <1>0, <2>2, <3>4, <4>1 DEF RoomInv
        <5> QED
          BY <3>3, <4>1, <5>1
      <4>2. CASE r # e.round
        <5>1. rooms'[r] = rooms[r]
          BY <1>0, <2>2, <3>4, <4>2 DEF RoomInv
        <5> QED
          BY <1>0, <5>1 DEF RoomInv
      <4> QED
        BY <4>1, <4>2
    <3>6. rooms' \in [Rounds -> [payload : Remembered, state : Remembered, ticked : BOOLEAN]]
      BY <1>0, <2>2, <3>3, <3>4 DEF RoomInv
    <3> QED
      BY <3>1, <3>5, <3>6 DEF RoomInv, Reached
  <2>4. ListenInv'
    BY <1>0, <2>1 DEF ListenInv, ListenersFollowRound, HandleEvent, MoveAllToCurrent
  <2>5. BrowserInv'
    <3>1. wire \in Seq(Heard) /\ MapEvent(e) \in Heard
      BY <1>0, MapsTruth DEF BrowserInv
    <3> HIDE DEF MapEvent
    <3>2. Sends(e) \in Seq(Heard)
      BY <3>1, EmptySeq DEF Sends
    <3>3. wire' \in Seq(Heard)
      BY <2>1, <3>1, <3>2, ConcatProperties
    <3>4. wire' \in Seq(Heard')
      BY <1>0, <3>3, HeardStays
    <3>5. InTime(view)'
      <4>1. InTime(view)
        BY <1>0 DEF BrowserInv, InTime
      <4> QED
        BY <1>0, <4>1, ReachedStays DEF InTime, Sound
    <3> QED
      BY <1>0, <3>4, <3>5, FetchStays DEF BrowserInv, InTime
  <2> QED
    BY <2>3, <2>4, <2>5
<1> QED
  BY <1>1, <1>2

-----------------------------------------------------------------------------
(* The rounds, the bets and what is published of them.                      *)

LEMMA Quiet ==
    ASSUME FeedInv, RoundInv', GoesOn, UNCHANGED <<gatewayVars, wire, view, fetch>>
    PROVE  FeedInv'
<1>1. RoundInv /\ RoomInv /\ ListenInv /\ BrowserInv
  BY DEF FeedInv
<1>2. UNCHANGED <<gw, resolved, current, rooms, conn, member, closing, held, wire, view, fetch>>
  BY DEF gatewayVars, ghosts
<1>3. current' \in 0..MaxRound /\ resolved' \in 0..MaxRound
  BY <1>1, <1>2 DEF RoomInv
<1> QED
  BY <1>1, <1>2, <1>3, RoomStays, ListenStays, BrowserStays DEF FeedInv

LEMMA CommitKeeps ==
    ASSUME FeedInv, NEW r \in Rounds, NEW s \in BackendStatus, Commit(r, s), GoesOn
    PROVE  FeedInv'
<1>1. /\ round' = r /\ status' = s /\ announcing' = Message("round", r, s) /\ late' = late
      /\ UNCHANGED <<gatewayVars, wire, view, fetch>>
  BY DEF Commit, browserVars
<1>2. r \in 0..MaxRound /\ r > 0 /\ s # "NONE"
  BY RoundsAssumption DEF Rounds, BackendStatus
<1>3. RoundInv'
  BY <1>1, <1>2 DEF FeedInv, RoundInv
<1> QED
  BY <1>1, <1>3, Quiet

LEMMA RoundSteps ==
    ASSUME FeedInv, NewRound \/ StartRound \/ CrashRound \/ FinishRound
    PROVE  FeedInv'
<1>1. round \in 0..MaxRound /\ (round = 0 <=> status = "NONE") /\ MaxRound \in Nat
  BY RoundsAssumption DEF FeedInv, RoundInv
<1>2. CASE NewRound
  <2>1. round < MaxRound /\ Commit(round + 1, "WAITING") /\ round' = round + 1
    BY <1>2 DEF NewRound, Commit
  <2>2. GoesOn
    BY <1>1, <2>1 DEF GoesOn
  <2>3. round + 1 \in Rounds
    BY <1>1, <2>1 DEF Rounds
  <2> QED
    BY <2>1, <2>2, <2>3, CommitKeeps DEF BackendStatus
<1>3. ASSUME NEW from \in {"WAITING", "RUNNING", "CRASHED"}, NEW to \in BackendStatus,
             Advance(from, to), Rank(StatusToPhase(from)) <= Rank(StatusToPhase(to))
      PROVE  FeedInv'
  <2>1. status = from /\ Commit(round, to) /\ round' = round /\ status' = to
    BY <1>3 DEF Advance, Commit
  <2>2. GoesOn
    BY <1>1, <1>3, <2>1 DEF GoesOn
  <2>3. round \in Rounds
    BY <1>1, <2>1 DEF Rounds
  <2> QED
    BY <2>1, <2>2, <2>3, CommitKeeps
<1>4. /\ StatusToPhase("WAITING") = "PREPARING" /\ StatusToPhase("RUNNING") = "RUNNING"
      /\ StatusToPhase("CRASHED") = "CRASHED" /\ StatusToPhase("FINISHED") = "RESETTING"
  BY PhaseIs
<1> QED
  BY <1>2, <1>3, <1>4, RankIs DEF StartRound, CrashRound, FinishRound, BackendStatus

LEMMA AnnounceSteps ==
    ASSUME FeedInv, AnnounceRound \/ AnnounceFails \/ Tick \/ \E e \in late : PublishPlayer(e)
    PROVE  FeedInv'
<1>0. RoundInv
  BY DEF FeedInv
<1>1. /\ round \in 0..MaxRound /\ status \in BackendStatus \cup {"NONE"}
      /\ (round = 0 <=> status = "NONE")
      /\ MaxRound \in Nat /\ late \subseteq PlayerEvent
  BY <1>0, RoundsAssumption DEF RoundInv
<1>2. CASE AnnounceRound
  <2>1. /\ announcing # None /\ Publish(announcing) /\ announcing' = None
        /\ UNCHANGED <<round, status, late, view, fetch>>
    BY <1>2 DEF AnnounceRound, browserVars
  <2>2. announcing = Message("round", round, status) /\ round \in Rounds
        /\ status \in BackendStatus
    BY <1>0, <1>1, <2>1 DEF RoundInv, Rounds
  <2>3. Reached(round, status)
    BY <1>1, RankType DEF Reached
  <2>4. TrueEvent(announcing)
    BY <2>2, <2>3 DEF TrueEvent, RoundEvent, Message
  <2>5. RoundInv'
    BY <1>0, <2>1 DEF RoundInv, None, Message
  <2> QED
    BY <2>1, <2>4, <2>5, Publishes DEF FeedInv
<1>3. CASE AnnounceFails
  <2>1. /\ announcing' = None /\ UNCHANGED <<round, status, late>>
        /\ UNCHANGED <<gatewayVars, wire, view, fetch>>
    BY <1>3 DEF AnnounceFails, browserVars
  <2>2. RoundInv'
    BY <1>0, <2>1 DEF RoundInv, None, Message
  <2>3. StatusToPhase(status') = StatusToPhase(status) /\ round' = round
    BY <2>1
  <2>4. GoesOn
    BY <1>1, <2>3, RankType DEF GoesOn
  <2> QED
    BY <2>1, <2>2, <2>4, Quiet
<1>4. CASE Tick
  <2>1. /\ status = "RUNNING" /\ Publish(Message("multiplier", round, ""))
        /\ UNCHANGED <<round, status, announcing, late, view, fetch>>
    BY <1>4 DEF Tick, roundVars, browserVars
  <2>2. round \in Rounds
    <3>1. round # 0
      BY <1>1, <2>1
    <3> QED
      BY <1>1, <3>1 DEF Rounds
  <2>3. TrueEvent(Message("multiplier", round, ""))
    BY <2>2 DEF TrueEvent, Multiplier, Message
  <2>4. RoundInv'
    BY <1>0, <2>1 DEF RoundInv
  <2> QED
    BY <2>1, <2>3, <2>4, Publishes DEF FeedInv
<1>5. ASSUME NEW e \in late, PublishPlayer(e)
      PROVE  FeedInv'
  <2>1. /\ Publish(e) /\ late' = late \ {e}
        /\ UNCHANGED <<round, status, announcing, view, fetch>>
    BY <1>5 DEF PublishPlayer, browserVars
  <2>2. TrueEvent(e)
    BY <1>1 DEF TrueEvent
  <2>3. RoundInv'
    BY <1>0, <2>1 DEF RoundInv
  <2> QED
    BY <2>1, <2>2, <2>3, Publishes DEF FeedInv
<1> QED
  BY <1>2, <1>3, <1>4, <1>5

LEMMA OnlyBets ==
    ASSUME FeedInv, UNCHANGED <<round, status, announcing, gatewayVars, wire, view, fetch>>,
           late' \subseteq PlayerEvent
    PROVE  FeedInv'
  BY RoundStays, Quiet DEF FeedInv

LEMMA PlayerEvents ==
    ASSUME FeedInv, NEW u \in Users,
           \/ Place(u) \/ Queue(u) \/ Refused
           \/ \E r : Leave(r, u)
    PROVE  late' \subseteq PlayerEvent
<1>1. /\ round \in 0..MaxRound /\ (round = 0 <=> status = "NONE") /\ MaxRound \in Nat
      /\ late \subseteq PlayerEvent
  BY RoundsAssumption DEF FeedInv, RoundInv
<1>2. CASE Place(u)
  BY <1>1, <1>2 DEF Place, Commits, Rounds, PlayerEvent, Message
<1>3. ASSUME NEW r, Leave(r, u)
      PROVE  late' \subseteq PlayerEvent
  BY <1>1, <1>3 DEF Leave, Commits, Rounds, PlayerEvent, Message
<1> QED
  BY <1>1, <1>2, <1>3 DEF Queue, Refused

LEMMA BetSteps ==
    ASSUME FeedInv,
           \/ \E u \in Users : PlaceBet(u) \/ QueueBet(u) \/ Cashout(u)
           \/ Refuse
           \/ \E u \in Users : CommandBet(u) \/ CommandCashout(u) \/ CommandsEnd(u)
    PROVE  FeedInv'
<1>1. ASSUME NEW u \in Users, PlaceBet(u) \/ QueueBet(u) \/ Cashout(u)
      PROVE  FeedInv'
  <2>1. UNCHANGED <<round, status, announcing, gatewayVars, wire, view, fetch>>
    BY <1>1 DEF PlaceBet, QueueBet, Cashout, Handled
  <2>2. Place(u) \/ Queue(u) \/ Leave(round, u)
    BY <1>1 DEF PlaceBet, QueueBet, Cashout
  <2>3. late' \subseteq PlayerEvent
    BY <2>2, PlayerEvents
  <2> QED
    BY <2>1, <2>3, OnlyBets
<1>2. CASE Refuse
  <2>1. UNCHANGED <<round, status, announcing, gatewayVars, wire, view, fetch>>
    BY <1>2 DEF Refuse, Handled
  <2>2. late' \subseteq PlayerEvent
    BY <1>2, UsersAssumption, PlayerEvents DEF Refuse
  <2> QED
    BY <2>1, <2>2, OnlyBets
<1>3. ASSUME NEW u \in Users, CommandBet(u) \/ CommandCashout(u)
      PROVE  FeedInv'
  <2>1. UNCHANGED <<round, status, announcing, gatewayVars, wire, view, fetch>>
    BY <1>3 DEF CommandBet, CommandCashout, Command, browserVars
  <2>2. Place(u) \/ Queue(u) \/ Leave(current, u) \/ Refused
    BY <1>3 DEF CommandBet, CommandCashout
  <2>3. late' \subseteq PlayerEvent
    BY <2>2, PlayerEvents
  <2> QED
    BY <2>1, <2>3, OnlyBets
<1>4. ASSUME NEW u \in Users, CommandsEnd(u)
      PROVE  FeedInv'
  <2>1. UNCHANGED <<round, status, announcing, late, gatewayVars, wire, view, fetch>>
    BY <1>4 DEF CommandsEnd, roundVars, browserVars
  <2> QED
    BY <2>1, OnlyBets DEF FeedInv, RoundInv
<1> QED
  BY <1>1, <1>2, <1>3, <1>4

-----------------------------------------------------------------------------
(* The gateway, the socket and the browser.                                 *)

\* The requests for snapshots, and what they have brought.
FetchOk(f) ==
    /\ f = [slot \in Slots |-> f[slot]]
    /\ \A slot \in Slots : f[slot] = Idle \/ f[slot] = Asked \/ Told(f[slot])

LEMMA FetchSet ==
    ASSUME NEW f, FetchOk(f), NEW slot \in Slots, NEW x, x = Idle \/ x = Asked \/ Told(x)
    PROVE  FetchOk([f EXCEPT ![slot] = x])
<1> DEFINE g == [f EXCEPT ![slot] = x]
<1>1. /\ g = [t \in Slots |-> g[t]]
      /\ \A t \in Slots : g[t] = x \/ g[t] = f[t]
  BY DEF FetchOk
<1> HIDE DEF g
<1> QED
  BY <1>1 DEF FetchOk, g

LEMMA ResyncOk ==
    ASSUME NEW f, FetchOk(f)
    PROVE  FetchOk(Resync(f))
<1>1. Resync(f) = IF f.resync = Idle THEN [f EXCEPT !["resync"] = Asked] ELSE f
  BY DEF Resync
<1>2. FetchOk([f EXCEPT !["resync"] = Asked])
  BY FetchSet DEF Slots
<1> QED
  BY <1>1, <1>2

\* A step of which the rounds know nothing.
LEMMA Beside ==
    ASSUME FeedInv, UNCHANGED <<round, status, announcing, late>>,
           rooms' = rooms \/ rooms' = [r \in Rounds |-> NewRoom],
           current' \in 0..MaxRound, resolved' \in 0..MaxRound, ListenInv',
           wire' \in Seq(Heard), InTime(view'), FetchOk(fetch')
    PROVE  FeedInv'
<1>0. RoundInv /\ RoomInv /\ ListenInv /\ BrowserInv
  BY DEF FeedInv
<1>1. RoundInv' /\ GoesOn
  BY <1>0, RoundStays DEF RoundInv
<1>2. RoomInv'
  <2>1. CASE rooms' = rooms
    BY <1>0, <1>1, <2>1, RoomStays
  <2>2. CASE rooms' = [r \in Rounds |-> NewRoom]
    BY <2>2 DEF RoomInv, NewRoom, Remembered
  <2> QED
    BY <2>1, <2>2
<1>3. wire' \in Seq(Heard')
  BY <1>0, <1>1, HeardStays
<1>4. InTime(view)'
  BY DEF InTime, Sound
<1>5. \A f : Told(f) => Told(f)'
  BY <1>0, <1>1, ReachedStays
<1>6. FetchOk(fetch)'
  BY <1>5 DEF FetchOk, Told, Reached
<1> QED
  BY <1>1, <1>2, <1>3, <1>4, <1>6 DEF FeedInv, BrowserInv, InTime, FetchOk

\* What holds before every step of the gateway or the browser.
LEMMA Before ==
    ASSUME FeedInv
    PROVE  /\ round \in 0..MaxRound /\ MaxRound \in Nat
           /\ current \in 0..MaxRound /\ resolved \in 0..MaxRound
           /\ wire \in Seq(Heard) /\ << >> \in Seq(Heard) /\ InTime(view) /\ FetchOk(fetch)
           /\ announcing = None \/ announcing = Message("round", round, status)
  BY RoundsAssumption, EmptySeq
     DEF FeedInv, RoundInv, RoomInv, BrowserInv, InTime, FetchOk

LEMMA FoundIs ==
    ASSUME FeedInv, NEW r \in Found
    PROVE  r \in 0..MaxRound /\ Reached(r, StatusOf(r)) /\ r <= round
<1>1. round \in Int /\ round >= 0 /\ round <= MaxRound /\ MaxRound \in Nat
  BY Before
<1>2. CASE r = round
  BY <1>1, <1>2, RankType DEF StatusOf, Reached
<1>3. CASE round > 1 /\ r = round - 1
  BY <1>1, <1>3 DEF Reached
<1> QED
  BY <1>2, <1>3 DEF Found

LEMMA GreetingIsTrue ==
    ASSUME FeedInv
    PROVE  Greeting \in Seq(Heard)
<1>1. CASE current = 0
  BY <1>1, Before DEF Greeting
<1>2. CASE current # 0
  <2> DEFINE room == rooms[current]
             state == IF room.payload # "none" THEN room.payload ELSE room.state
             first == IF state # "none" THEN <<Message("round_state", current, state)>> ELSE << >>
             second == IF room.ticked THEN <<Message("multiplier", current, "")>> ELSE << >>
  <2>1. current \in Rounds
    BY <1>2, Before DEF Rounds
  <2>2. /\ state \in Remembered
        /\ state # "none" => Reached(current, state)
    BY <2>1 DEF FeedInv, RoomInv
  <2> HIDE DEF room, state
  <2>3. state # "none" => Message("round_state", current, state) \in Heard
    BY <2>1, <2>2 DEF Remembered, Message, RoundMessage, Heard
  <2>4. Message("multiplier", current, "") \in Heard
    BY <2>1 DEF Message, Multiplier, Heard
  <2>5. first \in Seq(Heard) /\ second \in Seq(Heard)
    <3>1. ASSUME NEW m \in Heard PROVE <<m>> \in Seq(Heard)
      OBVIOUS
    <3> QED
      BY <2>3, <2>4, <3>1, EmptySeq
  <2>6. Greeting = first \o second
    BY <1>2 DEF Greeting, state, room
  <2> HIDE DEF first, second
  <2> QED
    BY <2>5, <2>6, ConcatProperties
<1> QED
  BY <1>1, <1>2

LEMMA GatewaySteps ==
    ASSUME FeedInv, Boot \/ GatewayStep \/ JoinRoom \/ Crash
    PROVE  FeedInv'
<1>0. ListenInv
  BY DEF FeedInv
<1>1. CASE Boot
  <2>1. PICK r \in Found : BootReads(r)
    BY <1>1 DEF Boot
  <2>2. UNCHANGED <<round, status, announcing, late, wire, view, fetch>>
    BY <1>1 DEF Boot, OnlyGateway, roundVars, browserVars
  <2>3. /\ gw = "down" /\ gw' = "booting" /\ resolved' = r
        /\ UNCHANGED <<current, rooms, conn, member, closing, held>>
    BY <2>1 DEF BootReads, ghosts
  <2>4. ListenInv'
    BY <1>0, <2>3 DEF ListenInv, ListenersFollowRound
  <2>5. r \in 0..MaxRound
    BY FoundIs
  <2> QED
    BY <2>2, <2>3, <2>4, <2>5, Before, Beside
<1>2. CASE GatewayStep
  <2>1. UNCHANGED <<round, status, announcing, late, wire, view, fetch>>
    BY <1>2 DEF GatewayStep, OnlyGateway, roundVars, browserVars
  <2>2. CASE Subscribe
    <3>1. UNCHANGED <<gw, resolved, current, rooms, conn, member, closing, held>>
      BY <2>2 DEF Subscribe, ghosts
    <3>2. ListenInv'
      BY <1>0, <3>1, ListenStays
    <3> QED
      BY <2>1, <3>1, <3>2, Before, Beside
  <2>3. CASE BootReady
    <3>1. /\ gw = "booting" /\ gw' = "up" /\ resolved' = 0
          /\ current' = (IF resolved # 0 THEN resolved ELSE current)
          /\ UNCHANGED <<rooms, conn, member, closing, held>>
      BY <2>3 DEF BootReady, ghosts
    <3>2. ListenInv'
      BY <1>0, <3>1 DEF ListenInv, ListenersFollowRound
    <3>3. current' \in 0..MaxRound /\ resolved' \in 0..MaxRound
      BY <3>1, Before
    <3> QED
      BY <2>1, <3>1, <3>2, <3>3, Before, Beside
  <2>4. CASE LateJoin
    <3>1. /\ closing > 0 /\ closing' = closing - 1
          /\ held' = (IF current # 0 THEN held \cup {current} ELSE held)
          /\ UNCHANGED <<gw, resolved, current, rooms, conn, member>>
      BY <2>4 DEF LateJoin
    <3>2. gw = "up" /\ closing' \in Nat
      BY <1>0, <3>1 DEF ListenInv
    <3>3. held' \subseteq {current}
      BY <1>0, <3>1 DEF ListenInv, ListenersFollowRound
    <3>4. ListenInv'
      BY <1>0, <3>1, <3>2, <3>3 DEF ListenInv, ListenersFollowRound
    <3> QED
      BY <2>1, <3>1, <3>4, Before, Beside
  <2> QED
    BY <1>2, <2>2, <2>3, <2>4 DEF GatewayStep
<1>3. CASE JoinRoom
  <2>1. /\ UNCHANGED <<round, status, announcing, late, view, fetch>>
        /\ wire' = wire \o Greeting
    BY <1>3 DEF JoinRoom, roundVars, browserVars
  <2>2. /\ conn = "auth" /\ conn' = "in" /\ member' = current
        /\ UNCHANGED <<gw, resolved, current, rooms, closing, held>>
    BY <1>3 DEF JoinRoom, Join, ghosts
  <2>3. ListenInv'
    BY <1>0, <2>2 DEF ListenInv, ListenersFollowRound
  <2>4. wire \in Seq(Heard) /\ Greeting \in Seq(Heard)
    BY Before, GreetingIsTrue
  <2>5. wire' \in Seq(Heard)
    BY <2>1, <2>4, ConcatProperties
  <2> QED
    BY <2>1, <2>2, <2>3, <2>5, Before, Beside
<1>4. CASE Crash
  <2>1. /\ UNCHANGED <<round, status, announcing, late, view, fetch>>
        /\ wire' = << >>
    BY <1>4 DEF Crash, roundVars
  <2>2. /\ gw' = "down" /\ resolved' = 0 /\ current' = 0 /\ conn' = "none" /\ member' = 0
        /\ rooms' = [r \in Rounds |-> NewRoom] /\ closing' = 0 /\ held' = {}
    BY <1>4 DEF Crash, GatewayCrash
  <2>3. ListenInv'
    BY <2>2 DEF ListenInv, ListenersFollowRound
  <2>4. current' \in 0..MaxRound /\ resolved' \in 0..MaxRound
    BY <2>2, Before
  <2> QED
    BY <2>1, <2>2, <2>3, <2>4, Before, Beside
<1> QED
  BY <1>1, <1>2, <1>3, <1>4

LEMMA SocketSteps ==
    ASSUME FeedInv, SocketOpens \/ ConnectFails \/ SocketBreaks
    PROVE  FeedInv'
<1>0. ListenInv
  BY DEF FeedInv
<1>1. CASE SocketOpens
  <2>1. /\ UNCHANGED <<round, status, announcing, late, wire, view>>
        /\ fetch' = [fetch EXCEPT !["direct"] = Asked]
    BY <1>1 DEF SocketOpens, roundVars
  <2>2. /\ gw = "up" /\ conn = "none" /\ conn' = "auth"
        /\ UNCHANGED <<gw, resolved, current, rooms, member, closing, held>>
    BY <1>1 DEF SocketOpens, Accept, ghosts
  <2>3. ListenInv'
    BY <1>0, <2>2 DEF ListenInv, ListenersFollowRound
  <2>4. FetchOk([fetch EXCEPT !["direct"] = Asked])
    BY Before, FetchSet DEF Slots
  <2>5. FetchOk(fetch')
    BY <2>1, <2>4
  <2> QED
    BY <2>1, <2>2, <2>3, <2>5, Before, Beside
<1>2. CASE ConnectFails
  <2>1. /\ UNCHANGED <<round, status, announcing, late, wire, view, fetch>>
        /\ UNCHANGED <<gw, resolved, current, rooms, conn, member, closing, held>>
    BY <1>2 DEF ConnectFails, roundVars, gatewayVars, ghosts
  <2>2. ListenInv'
    BY <1>0, <2>1, ListenStays
  <2> QED
    BY <2>1, <2>2, Before, Beside
<1>3. CASE SocketBreaks
  <2>1. /\ UNCHANGED <<round, status, announcing, late, view, fetch>>
        /\ wire' = << >>
    BY <1>3 DEF SocketBreaks, roundVars
  <2>2. /\ conn' = "none" /\ member' = 0
        /\ closing' = (IF conn = "auth" THEN closing + 1 ELSE closing)
        /\ UNCHANGED <<gw, resolved, current, rooms, held>>
    BY <1>3 DEF SocketBreaks, Disconnect
  <2>3. ListenInv'
    BY <1>0, <2>2 DEF ListenInv, ListenersFollowRound
  <2> QED
    BY <2>1, <2>2, <2>3, Before, Beside
<1> QED
  BY <1>1, <1>2, <1>3

\* A step of the browser alone.
LEMMA BrowserAlone ==
    ASSUME FeedInv, UNCHANGED <<roundVars, gatewayVars>>,
           wire' \in Seq(Heard), InTime(view'), FetchOk(fetch')
    PROVE  FeedInv'
<1>1. UNCHANGED <<round, status, announcing, late, gw, resolved, current, rooms, conn, member,
                 closing, held>>
  BY DEF roundVars, gatewayVars, ghosts
<1>2. ListenInv'
  BY <1>1, ListenStays DEF FeedInv
<1> QED
  BY <1>1, <1>2, Before, Beside

LEMMA ShowKeeps ==
    ASSUME NEW v, InTime(v), NEW f, FetchOk(f), Show(v, f)
    PROVE  InTime(view') /\ FetchOk(fetch')
<1>1. Keeps(v, [v EXCEPT !.stale = FALSE])
  BY SoundStale DEF InTime, Keeps
<1>2. InTime(view')
  BY <1>1, KeepsInTime DEF Show
<1>3. FetchOk(fetch')
  BY ResyncOk DEF Show
<1> QED
  BY <1>2, <1>3

LEMMA ReceiveKeeps ==
    ASSUME FeedInv, Receive
    PROVE  FeedInv'
<1>1. /\ wire # << >> /\ wire' = Tail(wire) /\ UNCHANGED <<roundVars, gatewayVars>>
      /\ wire \in Seq(Heard) /\ InTime(view) /\ FetchOk(fetch)
  BY Before DEF Receive
<1>2. Head(wire) \in Heard /\ Tail(wire) \in Seq(Heard)
  BY <1>1, HeadTailProperties
<1>3. InTime(view') /\ FetchOk(fetch')
  <2>1. CASE WellFormed(Head(wire))
    <3>1. PICK own \in BOOLEAN : Show(AfterMessage(view, Head(wire), own), fetch)
      BY <2>1 DEF Receive, Guesses
    <3>2. InTime(AfterMessage(view, Head(wire), own))
      BY <1>1, <1>2, MessageInTime
    <3> QED
      BY <1>1, <3>1, <3>2, ShowKeeps
  <2>2. CASE ~WellFormed(Head(wire))
    BY <1>1, <2>2 DEF Receive
  <2> QED
    BY <2>1, <2>2
<1> QED
  BY <1>1, <1>2, <1>3, BrowserAlone

LEMMA CommandSteps ==
    ASSUME FeedInv, CommandAnswered \/ CommandLost
    PROVE  FeedInv'
<1>1. /\ UNCHANGED <<roundVars, gatewayVars, wire, view>>
      /\ fetch' = Resync(fetch) \/ fetch' = fetch
  BY DEF CommandAnswered, CommandLost
<1>2. FetchOk(fetch')
  BY <1>1, Before, ResyncOk
<1> QED
  BY <1>1, <1>2, Before, BrowserAlone

LEMMA SnapshotTold ==
    ASSUME FeedInv, NEW r \in Found
    PROVE  Told(Snapshot(r, StatusOf(r), bets[r], Me \in queued))
<1> DEFINE s == StatusOf(r)
           players == [u \in Users |-> Shown(s, bets[r][u])]
           f == Snapshot(r, s, bets[r], Me \in queued)
<1>1. /\ f.at = "ready" /\ f.round = r /\ f.status = s /\ f.players = players
      /\ f.canBet => s \in {"WAITING", "RUNNING"}
      /\ f.canCash => s = "RUNNING" /\ players[Me] = "ACTIVE"
  BY DEF Snapshot
<1>2. r \in 0..MaxRound /\ Reached(r, s)
  BY FoundIs
<1>3. s \in BackendStatus \cup {"NONE"}
  BY DEF StatusOf, FeedInv, RoundInv, BackendStatus
<1> HIDE DEF f, s, players
<1>4. Told(f)
  BY <1>1, <1>2, <1>3 DEF Told
<1> QED
  BY <1>4 DEF f, s

LEMMA SnapshotSteps ==
    ASSUME FeedInv, NEW slot \in Slots,
           SnapshotRead(slot) \/ SnapshotArrives(slot) \/ NoSnapshot(slot)
    PROVE  FeedInv'
<1>0. wire \in Seq(Heard) /\ InTime(view) /\ FetchOk(fetch)
  BY Before
<1>1. CASE SnapshotRead(slot)
  <2>1. PICK r \in Found : fetch' = [fetch EXCEPT ![slot] =
                              Snapshot(r, StatusOf(r), bets[r], Me \in queued)]
    BY <1>1 DEF SnapshotRead
  <2> DEFINE f == Snapshot(r, StatusOf(r), bets[r], Me \in queued)
  <2>2. Told(f)
    BY SnapshotTold
  <2>3. fetch' = [fetch EXCEPT ![slot] = f]
    BY <2>1
  <2> HIDE DEF f
  <2>4. FetchOk(fetch')
    BY <1>0, <2>2, <2>3, FetchSet
  <2>5. UNCHANGED <<roundVars, gatewayVars, wire, view>>
    BY <1>1 DEF SnapshotRead
  <2> QED
    BY <1>0, <2>4, <2>5, BrowserAlone
<1>2. CASE SnapshotArrives(slot)
  <2>1. /\ fetch[slot].at = "ready" /\ SnapshotWellFormed(fetch[slot])
        /\ UNCHANGED <<roundVars, gatewayVars, wire>>
    BY <1>2 DEF SnapshotArrives
  <2>2. PICK own \in BOOLEAN :
           LET v == AfterSnapshot(view, fetch[slot], own) IN
           Show([v EXCEPT !.stale = @ /\ slot = "direct"], [fetch EXCEPT ![slot] = Idle])
    BY <1>2 DEF SnapshotArrives, Guesses
  <2> DEFINE v == AfterSnapshot(view, fetch[slot], own)
             w == [v EXCEPT !.stale = v.stale /\ slot = "direct"]
             f == [fetch EXCEPT ![slot] = Idle]
  <2>3. Show(w, f)
    BY <2>2
  <2>4. Told(fetch[slot])
    BY <1>0, <2>1 DEF FetchOk, Idle, Asked
  <2>5. InTime(v)
    BY <1>0, <2>1, <2>4, SnapshotInTime DEF InTime
  <2> HIDE DEF v
  <2>6. (v.stale /\ slot = "direct") \in BOOLEAN
    OBVIOUS
  <2>7. InTime(w)
    BY <2>5, <2>6, SoundStale, KeepsInTime DEF InTime, Keeps
  <2>8. FetchOk(f)
    BY <1>0, FetchSet
  <2> HIDE DEF w, f
  <2> QED
    BY <1>0, <2>1, <2>3, <2>7, <2>8, ShowKeeps, BrowserAlone
<1>3. CASE NoSnapshot(slot)
  <2>1. /\ fetch' = [fetch EXCEPT ![slot] = Idle]
        /\ UNCHANGED <<roundVars, gatewayVars, wire, view>>
    BY <1>3 DEF NoSnapshot
  <2>2. FetchOk(fetch')
    BY <1>0, <2>1, FetchSet
  <2> QED
    BY <1>0, <2>1, <2>2, BrowserAlone
<1> QED
  BY <1>1, <1>2, <1>3

-----------------------------------------------------------------------------
(* The theorems.                                                            *)

LEMMA InitKeeps ==
    ASSUME Init
    PROVE  FeedInv
<1>1. /\ round = 0 /\ status = "NONE" /\ announcing = None /\ late = {} /\ wire = << >>
      /\ view = InitialView /\ fetch = [direct |-> Asked, resync |-> Idle]
  BY DEF Init
<1>2. RoundInv
  BY <1>1, RoundsAssumption DEF RoundInv
<1>3. /\ gw = "up" /\ current = 0 /\ resolved = 0 /\ conn = "none" /\ member = 0
      /\ closing = 0 /\ held = {}
      /\ rooms = [r \in Rounds |-> NewRoom]
  BY DEF Init, GatewayInit
<1>4. RoomInv
  BY <1>3, RoundsAssumption DEF RoomInv, NewRoom, Remembered
<1>5. ListenInv
  BY <1>3 DEF ListenInv, ListenersFollowRound
<1>6. InTime(view)
  <2>1. view \in View
    BY <1>1, UsersAssumption, RoundsAssumption, EmptySeq
       DEF InitialView, View, Phase, NoPlayers, Shows
  <2>2. view.round = 0 /\ view.phase = "PREPARING" /\ view.active = Nobody /\ ~view.canCash
    BY <1>1 DEF InitialView
  <2>3. StatusToPhase(status) = "PREPARING"
    BY <1>1, PhaseIs
  <2> QED
    BY <1>1, <2>1, <2>2, <2>3, RankIs DEF InTime, Sound
<1>7. /\ fetch = [slot \in Slots |-> fetch[slot]]
      /\ \A slot \in Slots : fetch[slot] = Idle \/ fetch[slot] = Asked
  BY <1>1 DEF Slots
<1>8. wire \in Seq(Heard)
  BY <1>1, EmptySeq
<1> QED
  BY <1>2, <1>4, <1>5, <1>6, <1>7, <1>8 DEF FeedInv, BrowserInv, InTime

LEMMA NextKeeps ==
    ASSUME FeedInv, [Next]_vars
    PROVE  FeedInv'
<1>1. CASE Browse
  BY <1>1, SocketSteps, ReceiveKeeps, CommandSteps, SnapshotSteps DEF Browse
<1>2. CASE UNCHANGED vars
  BY <1>2, OnlyBets DEF vars, roundVars, browserVars, FeedInv, RoundInv
<1>3. CASE Next /\ ~Browse
  BY <1>3, RoundSteps, AnnounceSteps, BetSteps, GatewaySteps, SocketSteps, CommandSteps,
     SnapshotSteps DEF Next
<1> QED
  BY <1>1, <1>2, <1>3

\* What holds between the database, the gateway and the browser in every state.
THEOREM FeedInvariant == Spec => []FeedInv
<1>1. Init => FeedInv
  BY InitKeeps
<1>2. FeedInv /\ [Next]_vars => FeedInv'
  BY NextKeeps
<1> QED
  BY <1>1, <1>2, PTL DEF Spec

\* The browser never shows a round or a phase that the database has not reached,
\* whichever messages and snapshots are lost, late or overtaken: what is on its
\* way is true of its round, and a round only goes on.
THEOREM ViewIsNeverAhead == Spec => []ViewNeverAhead
<1>1. FeedInv => ViewNeverAhead
  BY DEF FeedInv, BrowserInv, ViewNeverAhead
<1> QED
  BY <1>1, FeedInvariant, PTL

\* The buttons that are enabled are those of the round and the bet that are shown,
\* after any mixture of messages, snapshots and events caught up with later.
THEOREM ButtonsMatch == Spec => []ButtonsMatchView
<1>1. FeedInv => ButtonsMatchView
  BY DEF FeedInv, BrowserInv, Sound, ButtonsMatchView
<1> QED
  BY <1>1, FeedInvariant, PTL

\* A connection that is in a room is in the current one: joining, moving with the
\* round, a gateway that boots late and a socket that closes leave none behind.
THEOREM ListenersFollow == Spec => []ListenersFollowRound
<1>1. FeedInv => ListenersFollowRound
  BY DEF FeedInv, ListenInv
<1> QED
  BY <1>1, FeedInvariant, PTL
=============================================================================
