---------------------------- MODULE MiniApp_proofs ----------------------------
(***************************************************************************)
(* The Mini App's invariants, for every number of orders, faults, rounds,  *)
(* images, assets and attempts.  The invariant has a part per screen, which*)
(* the steps of the other screens leave alone, and Links, which relates    *)
(* the commands under way to the screen they came from.                    *)
(***************************************************************************)
EXTENDS MiniApp, FiniteSetTheorems, TLAPS

-----------------------------------------------------------------------------
(* The inductive invariant.                                                 *)

\* The commands under way, by the screen they came from.
GameCmds == [order : Nat, kind : {"bet", "cashout"},
             step : {"post", "retry", "refresh"}, left : {None, "trying", "ending"}]
StakingCmds == [order : Nat, kind : {"claim", "act"}, step : {"post", "read", "answer"},
                left : BOOLEAN, asset : Assets, rest : Seq(Assets), got : Nat \cup {None}]
DepositCmds == [order : Nat, kind : {"stars", "ton"},
                step : {"create", "wallet", "submit", "cancel", "answer"},
                id : Nat, seen : {Pending} \cup Final]
WithdrawCmds == [order : Nat, kind : {"withdraw"}, step : {"post", "wallets", "ledger"}]
Commands == GameCmds \cup StakingCmds \cup DepositCmds \cup WithdrawCmds

\* The orders a command still has to see to: a claim of all assets has one per asset.
Span(c) == c.order..(c.order + (IF StakingCommand(c) THEN Len(c.rest) ELSE 0))
\* Its first order has not been carried out yet.
Early(c) == c.step \in {"post", "retry", "create"}

OrdersInv ==
    /\ effects \in Seq(0..1) /\ Len(effects) <= MaxOrders /\ faults \in 0..MaxFaults
    /\ cmds \subseteq Commands
    /\ \A c \in cmds : Span(c) \subseteq DOMAIN effects
    /\ \A c \in cmds : \A n \in Span(c) : n > c.order \/ Early(c) => effects[n] = 0
    /\ \A c, d \in cmds : c # d => Span(c) \cap Span(d) = {}

\* A dialog stays for the commands it has sent; a staking screen that is left
\* has marked its commands; there is one withdrawal at a time.
Links ==
    /\ \A c \in cmds : Deposit(c) => open
    /\ \A c \in cmds : c.kind = "withdraw" => withdrawing
    /\ \A c, d \in cmds : c.kind = "withdraw" /\ d.kind = "withdraw" => c = d
    /\ \A c \in cmds : StakingCommand(c) /\ ~c.left => tab = "staking"

LaunchInv ==
    /\ LaunchTypeOK
    /\ tries = [telegram |-> tries.telegram, data |-> tries.data, auth |-> tries.auth]
    /\ (auth \in {"ready", "error"}) <=> (awaits = "nothing")
    /\ awaits = "nothing" => tries = NoTries
    /\ awaits \in {"timer", "telegram"} =>
          /\ tries.telegram < MaxAttempts /\ tries.data < MaxInitDataAttempts
          /\ tries.auth < MaxAuthAttempts

PhaseSet == {"PREPARING", "RUNNING", "CRASHED", "RESETTING"}
\* A round in phase p may come to be in phase q.
Leads(p, q) ==
    /\ q = "PREPARING" => p = "PREPARING"
    /\ q = "RUNNING" => p \in {"PREPARING", "RUNNING"}
    /\ q = "CRASHED" => p # "RESETTING"

\* The adapter's snapshot lags the server.
LiveLags ==
    \/ live = Blank
    \/ /\ live \in [round : 1..srv.round, phase : PhaseSet, mine : BOOLEAN]
       /\ live.round = srv.round => Leads(live.phase, srv.phase)

Scenes == [ready : BOOLEAN, pending : {None, live}, round : Nat, phase : PhaseSet,
           rocket : BOOLEAN, crashDone : Nat]

\* A scene has exploded for its round only when the round has crashed.
SceneInv ==
    scene # None =>
        /\ scene \in Scenes
        /\ ~scene.ready => scene = [NewScene EXCEPT !.pending = live]
        /\ scene.ready => scene.pending = None
        /\ scene.ready /\ scene.round >= 1 /\ scene.phase \in {"PREPARING", "RUNNING"}
              => scene.crashDone # scene.round

PanelInv ==
    /\ srv \in [round : 1..MaxRounds, phase : PhaseSet]
    /\ bets \subseteq 1..(MaxRounds + 1) /\ out \subseteq bets
    /\ panel \in {"out", "starting", "wallets", "import", "on", "failed"}
    /\ conn \in BOOLEAN /\ sheet \in BOOLEAN
    /\ panel = "out" => scene = None
    /\ LiveLags /\ SceneInv /\ SceneTellsRound

ScreenInv ==
    /\ shown \in [Assets -> Nat \cup {None}] /\ srvAssets \in [Assets -> Nat]
    /\ reads \subseteq [first : BOOLEAN, seen : [Assets -> Nat]]
    /\ claiming \in Assets \cup {None} /\ action \in Assets \cup {None}

Statuses == {Pending} \cup Final

\* A poll that is not cancelled, and a command that has created its intent, ask
\* for an intent of this opening, and what they have seen of its end is so.
DialogInv ==
    /\ intents \in Seq(Statuses)
    /\ open \in BOOLEAN /\ fired \in BOOLEAN /\ renders \in Nat
    /\ first \in 1..(Len(intents) + 1)
    /\ {next, drawn} \subseteq [id : 0..Len(intents), status : Statuses]
    /\ polls \subseteq [id : Nat, seen : Statuses, live : BOOLEAN]
    /\ \A p \in polls : p.live =>
          /\ open /\ p.id \in OfThisOpening
          /\ p.seen # Pending => intents[p.id] = p.seen
    /\ DialogKeepsToItsOpening

CmdIntents ==
    \A c \in cmds : Deposit(c) /\ c.step # "create" =>
        /\ c.id \in OfThisOpening
        /\ c.step = "answer" /\ c.seen # Pending => intents[c.id] = c.seen

AppInv ==
    /\ tab \in Tabs \cup {None, "between"} /\ visits \in Nat
    /\ withdrawing \in BOOLEAN
    /\ panel # "out" => tab = "mine"
    /\ shown # NoAssets => tab = "staking"
    /\ open => ~withdrawing /\ ~sheet /\ action = None
    /\ withdrawing => ~sheet /\ action = None
    /\ sheet => action = None

IInv ==
    /\ LaunchInv /\ OrdersInv /\ Links /\ PanelInv /\ ScreenInv /\ DialogInv
    /\ CmdIntents /\ AppInv

\* The bound of Next, kept since the beginning.
MovesBound == visits + Len(effects) <= MaxMoves

-----------------------------------------------------------------------------
(* Orders and commands.                                                     *)

LEMMA SpanHasOrder ==
    ASSUME NEW c \in Commands
    PROVE  /\ c.order \in Nat /\ c.order \in Span(c)
           /\ \A n \in Span(c) : n \in Nat /\ n >= c.order
<1>1. c.order \in Nat
  BY DEF Commands, GameCmds, StakingCmds, DepositCmds, WithdrawCmds
<1>2. StakingCommand(c) => Len(c.rest) \in Nat
  <2>1. SUFFICES ASSUME StakingCommand(c) PROVE Len(c.rest) \in Nat
    OBVIOUS
  <2>2. c \in StakingCmds
    BY <2>1 DEF StakingCommand, Commands, GameCmds, DepositCmds, WithdrawCmds
  <2>3. c.rest \in Seq(Assets)
    BY <2>2 DEF StakingCmds
  <2> QED BY <2>3
<1>3. (IF StakingCommand(c) THEN Len(c.rest) ELSE 0) \in Nat
  BY <1>2
<1> QED BY <1>1, <1>3 DEF Span

\* A command is what its kind says.
LEMMA Kinds ==
    ASSUME NEW c \in Commands
    PROVE  /\ c.kind \in {"bet", "cashout"} => c \in GameCmds
           /\ StakingCommand(c) => c \in StakingCmds
           /\ Deposit(c) => c \in DepositCmds
           /\ c.kind = "withdraw" => c \in WithdrawCmds
  BY DEF StakingCommand, Deposit, Commands, GameCmds, StakingCmds, DepositCmds,
         WithdrawCmds

\* A command goes on or ends, and nothing is carried out.
LEMMA OrdersGoOn ==
    ASSUME OrdersInv, NEW c \in cmds, NEW D, D \subseteq Commands,
           cmds' = (cmds \ {c}) \cup D,
           \A d, e \in D : d = e,
           \A d \in D : /\ Span(d) \subseteq Span(c) /\ d.order >= c.order
                        /\ Early(d) => Early(c) \/ d.order > c.order,
           effects' = effects, faults' \in 0..MaxFaults
    PROVE  OrdersInv'
<1>1. c \in Commands /\ c.order \in Nat
  BY SpanHasOrder DEF OrdersInv
<1>2. \A x \in cmds' : (x \in cmds /\ x # c) \/ x \in D
  OBVIOUS
<1>3. \A x \in cmds' : Span(x) \subseteq DOMAIN effects
  BY <1>2 DEF OrdersInv
<1>4. \A x \in cmds' : \A n \in Span(x) : n > x.order \/ Early(x) => effects[n] = 0
  <2>1. SUFFICES ASSUME NEW x \in D, NEW n \in Span(x), n > x.order \/ Early(x)
                 PROVE  effects[n] = 0
    BY <1>2 DEF OrdersInv
  <2>2. x.order \in Nat /\ n \in Nat /\ n >= x.order /\ x.order >= c.order
    BY SpanHasOrder
  <2>3. n \in Span(c)
    OBVIOUS
  <2>4. n > c.order \/ Early(c)
    BY <2>1, <2>2, <1>1
  <2> QED BY <2>3, <2>4 DEF OrdersInv
<1>5. \A x, y \in cmds' : x # y => Span(x) \cap Span(y) = {}
  <2>1. \A x, y \in cmds : x # y => Span(x) \cap Span(y) = {}
    BY DEF OrdersInv
  <2>2. \A x \in cmds \ {c}, y \in D : Span(x) \cap Span(y) = {}
    BY <2>1
  <2> QED BY <1>2, <2>1, <2>2
<1> QED BY <1>3, <1>4, <1>5 DEF OrdersInv

\* The server carries out a command's first order.
LEMMA OrdersCarry ==
    ASSUME OrdersInv, NEW c \in cmds, Early(c), NEW D, D \subseteq Commands,
           cmds' = (cmds \ {c}) \cup D,
           \A d, e \in D : d = e,
           \A d \in D : /\ Span(d) \subseteq Span(c) /\ d.order >= c.order
                        /\ Early(d) => d.order > c.order,
           Carried(c.order), faults' \in 0..MaxFaults
    PROVE  OrdersInv'
<1>1. c \in Commands /\ c.order \in Nat /\ c.order \in Span(c)
  BY SpanHasOrder DEF OrdersInv
<1>2. \A x \in cmds' : (x \in cmds /\ x # c) \/ x \in D
  OBVIOUS
<1>3. effects \in Seq(0..1) /\ c.order \in DOMAIN effects /\ effects[c.order] = 0
  BY <1>1 DEF OrdersInv
<1>4. effects' = [effects EXCEPT ![c.order] = 1]
  BY <1>3 DEF Carried
<1>5. effects' \in Seq(0..1) /\ Len(effects') = Len(effects)
  BY <1>3, <1>4
<1>6. DOMAIN effects' = DOMAIN effects
  BY <1>4
<1>7. \A n \in DOMAIN effects : n # c.order => effects'[n] = effects[n]
  BY <1>4
<1>8. \A x \in cmds' : Span(x) \subseteq DOMAIN effects'
  BY <1>2, <1>6 DEF OrdersInv
<1>9. \A x \in cmds' : \A n \in Span(x) : n > x.order \/ Early(x) => effects'[n] = 0
  <2>1. ASSUME NEW x \in cmds, x # c, NEW n \in Span(x), n > x.order \/ Early(x)
        PROVE  effects'[n] = 0
    <3>1. Span(x) \cap Span(c) = {}
      BY <2>1 DEF OrdersInv
    <3>2. n # c.order
      BY <3>1, <1>1
    <3>3. effects[n] = 0 /\ n \in DOMAIN effects
      BY <2>1 DEF OrdersInv
    <3> QED BY <3>2, <3>3, <1>7
  <2>2. ASSUME NEW x \in D, NEW n \in Span(x), n > x.order \/ Early(x)
        PROVE  effects'[n] = 0
    <3>1. x.order \in Nat /\ n \in Nat /\ n >= x.order /\ x.order >= c.order
      BY SpanHasOrder
    <3>2. n \in Span(c)
      OBVIOUS
    <3>3. n > c.order
      BY <2>2, <3>1, <1>1
    <3>4. effects[n] = 0 /\ n \in DOMAIN effects
      BY <3>2, <3>3 DEF OrdersInv
    <3>5. n # c.order
      BY <3>1, <3>3, <1>1
    <3> QED BY <3>4, <3>5, <1>7
  <2> QED BY <2>1, <2>2, <1>2
<1>10. \A x, y \in cmds' : x # y => Span(x) \cap Span(y) = {}
  <2>1. \A x, y \in cmds : x # y => Span(x) \cap Span(y) = {}
    BY DEF OrdersInv
  <2>2. \A x \in cmds \ {c}, y \in D : Span(x) \cap Span(y) = {}
    BY <2>1
  <2> QED BY <1>2, <2>1, <2>2
<1> QED BY <1>5, <1>8, <1>9, <1>10 DEF OrdersInv

\* New orders of one command.
LEMMA OrdersNew ==
    ASSUME OrdersInv, NEW d \in Commands, NEW k \in Nat \ {0},
           Span(d) = Next1..(Len(effects) + k), Len(effects) + k <= MaxOrders,
           effects' = effects \o [i \in 1..k |-> 0],
           cmds' = cmds \cup {d}, faults' = faults
    PROVE  OrdersInv'
<1> DEFINE z == [i \in 1..k |-> 0]
<1>1. effects \in Seq(0..1) /\ z \in Seq(0..1) /\ Len(z) = k /\ Len(effects) \in Nat
  BY DEF OrdersInv
<1>2. /\ effects' \in Seq(0..1) /\ Len(effects') = Len(effects) + k
      /\ \A n \in 1..Len(effects) : effects'[n] = effects[n]
      /\ \A n \in Next1..(Len(effects) + k) : effects'[n] = 0
  BY <1>1 DEF Next1
<1>3. DOMAIN effects = 1..Len(effects) /\ DOMAIN effects' = 1..(Len(effects) + k)
  BY <1>1, <1>2
<1>4. \A x \in cmds' : x \in cmds \/ x = d
  OBVIOUS
<1>5. \A x \in cmds : Span(x) \subseteq 1..Len(effects)
  BY <1>3 DEF OrdersInv
<1>6. \A x \in cmds' : Span(x) \subseteq DOMAIN effects'
  BY <1>1, <1>3, <1>4, <1>5 DEF Next1
<1>7. \A x \in cmds' : \A n \in Span(x) : n > x.order \/ Early(x) => effects'[n] = 0
  <2>1. ASSUME NEW x \in cmds, NEW n \in Span(x), n > x.order \/ Early(x)
        PROVE  effects'[n] = 0
    <3>1. effects[n] = 0 /\ n \in 1..Len(effects)
      BY <2>1, <1>5 DEF OrdersInv
    <3> QED BY <3>1, <1>2
  <2>2. \A n \in Span(d) : effects'[n] = 0
    BY <1>2
  <2> QED BY <2>1, <2>2, <1>4
<1>8. \A x, y \in cmds' : x # y => Span(x) \cap Span(y) = {}
  <2>1. \A x \in cmds : Span(x) \cap Span(d) = {}
    BY <1>5, <1>1 DEF Next1
  <2>2. \A x, y \in cmds : x # y => Span(x) \cap Span(y) = {}
    BY DEF OrdersInv
  <2> QED BY <2>1, <2>2, <1>4
<1> QED BY <1>2, <1>6, <1>7, <1>8 DEF OrdersInv

\* A press whose command has one order.
LEMMA OrdersOrder ==
    ASSUME OrdersInv, NEW d \in Commands, d.order = Next1,
           StakingCommand(d) => d.rest = <<>>, Order(d)
    PROVE  OrdersInv'
<1>1. effects \in Seq(0..1) /\ Len(effects) \in Nat
  BY DEF OrdersInv
<1> DEFINE more == IF StakingCommand(d) THEN Len(d.rest) ELSE 0
<1>2. more = 0
  OBVIOUS
<1>3. Span(d) = Next1..(Len(effects) + 1)
  <2>1. Span(d) = d.order..(d.order + more)
    BY DEF Span
  <2> HIDE DEF more
  <2> QED BY <1>1, <1>2, <2>1 DEF Next1
<1>4. effects' = effects \o [i \in 1..1 |-> 0]
  <2>1. effects' = Append(effects, 0)
    BY DEF Order
  <2>2. [i \in 1..1 |-> 0] \in Seq(0..1) /\ Len([i \in 1..1 |-> 0]) = 1
    OBVIOUS
  <2> QED BY <1>1, <2>1, <2>2
<1>5. Len(effects) + 1 <= MaxOrders
  BY <1>1, OrdersAssumption DEF Order
<1>6. cmds' = cmds \cup {d} /\ faults' = faults
  BY DEF Order
<1>7. 1 \in Nat \ {0}
  OBVIOUS
<1> QED BY <1>3, <1>4, <1>5, <1>6, <1>7, OrdersNew

\* The commands of a screen that is left are marked.
LEMMA OrdersMarked ==
    ASSUME OrdersInv, NEW f, cmds' = {f[c] : c \in cmds},
           \A c \in cmds : /\ f[c] \in Commands /\ Span(f[c]) = Span(c)
                           /\ f[c].order = c.order /\ (Early(f[c]) <=> Early(c)),
           effects' = effects, faults' = faults
    PROVE  OrdersInv'
<1>1. \A x \in cmds' : \E c \in cmds : x = f[c]
  OBVIOUS
<1>2. cmds' \subseteq Commands
  OBVIOUS
<1>3. \A x \in cmds' : Span(x) \subseteq DOMAIN effects
  BY <1>1 DEF OrdersInv
<1>4. \A x \in cmds' : \A n \in Span(x) : n > x.order \/ Early(x) => effects[n] = 0
  BY <1>1 DEF OrdersInv
<1>5. \A x, y \in cmds' : x # y => Span(x) \cap Span(y) = {}
  <2>1. \A c, d \in cmds : c # d => Span(c) \cap Span(d) = {}
    BY DEF OrdersInv
  <2> QED BY <1>1, <2>1
<1> QED BY <1>2, <1>3, <1>4, <1>5 DEF OrdersInv

LEMMA OrdersStay ==
    ASSUME OrdersInv, UNCHANGED <<effects, cmds>>, faults' \in 0..MaxFaults
    PROVE  OrdersInv'
  BY DEF OrdersInv

LEMMA FaultBound ==
    ASSUME OrdersInv
    PROVE  /\ faults \in 0..MaxFaults
           /\ Fault => faults' \in 0..MaxFaults
  BY OrdersAssumption DEF OrdersInv, Fault

-----------------------------------------------------------------------------
(* What a step on one screen leaves alone.                                  *)

LEMMA LaunchStays ==
    ASSUME LaunchInv, UNCHANGED launchVars
    PROVE  LaunchInv'
  BY DEF LaunchInv, LaunchTypeOK, launchVars, NoTries

LEMMA PanelStays ==
    ASSUME PanelInv, UNCHANGED <<roundVars, panelVars>>
    PROVE  PanelInv'
<1>1. UNCHANGED <<srv, bets, out, panel, live, conn, sheet, scene>>
  BY DEF roundVars, panelVars
<1>2. LiveLags'
  BY <1>1 DEF PanelInv, LiveLags
<1>3. SceneInv'
  BY <1>1 DEF PanelInv, SceneInv, Scenes
<1>4. SceneTellsRound'
  BY <1>1 DEF PanelInv, SceneTellsRound
<1> QED BY <1>1, <1>2, <1>3, <1>4 DEF PanelInv

LEMMA ScreenStays ==
    ASSUME ScreenInv, UNCHANGED stakingVars
    PROVE  ScreenInv'
  BY DEF ScreenInv, stakingVars

LEMMA DialogStays ==
    ASSUME DialogInv, UNCHANGED dialogVars
    PROVE  DialogInv'
<1>1. UNCHANGED <<intents, open, first, next, drawn, fired, polls, renders>>
  BY DEF dialogVars
<1>2. DialogKeepsToItsOpening'
  BY <1>1 DEF DialogInv, DialogKeepsToItsOpening, OfThisOpening
<1> QED BY <1>1, <1>2 DEF DialogInv, OfThisOpening

LEMMA AppStays ==
    ASSUME AppInv, UNCHANGED <<tab, withdrawing, panel, shown, open, sheet, action>>,
           visits' \in Nat
    PROVE  AppInv'
  BY DEF AppInv

\* No new commands, or new ones of the game, which no other screen asks about.
LEMMA LinksStay ==
    ASSUME Links, UNCHANGED <<open, withdrawing, tab>>,
           \A c \in cmds' : c \in cmds \/ c.kind \in {"bet", "cashout"}
    PROVE  Links'
  BY DEF Links, Deposit, StakingCommand

LEMMA CmdIntentsStay ==
    ASSUME CmdIntents, UNCHANGED <<first, intents>>,
           \A c \in cmds' : c \in cmds \/ ~Deposit(c)
    PROVE  CmdIntents'
  BY DEF CmdIntents, OfThisOpening

-----------------------------------------------------------------------------
(* The renderer.                                                            *)

Snapshots == [round : Nat, phase : PhaseSet, mine : BOOLEAN]
ScenesFor(l) == [ready : BOOLEAN, pending : {None, l}, round : Nat, phase : PhaseSet,
                 rocket : BOOLEAN, crashDone : Nat]

\* A scene that draws l.
Draws(s, l) ==
    /\ s \in ScenesFor(l) /\ s.ready /\ s.pending = None
    /\ s.round = l.round /\ s.phase = l.phase
    /\ s.phase = "CRASHED" => s.crashDone = s.round
    /\ s.rocket => s.phase \in {"RUNNING", "RESETTING"}
    /\ s.round >= 1 /\ s.phase \in {"PREPARING", "RUNNING"} => s.crashDone # s.round

Waits(s, l) == s = [NewScene EXCEPT !.pending = l]

\* SceneInv and SceneTellsRound say this of the scene and the adapter's snapshot.
Tells(s, l) ==
    s # None =>
        /\ s \in ScenesFor(l)
        /\ ~s.ready => s = [NewScene EXCEPT !.pending = l]
        /\ s.ready => s.pending = None
        /\ s.ready /\ s.round >= 1 /\ s.phase \in {"PREPARING", "RUNNING"}
              => s.crashDone # s.round
        /\ IF s.ready
           THEN /\ <<s.round, s.phase>> = <<l.round, l.phase>>
                /\ s.phase = "CRASHED" => s.crashDone = s.round
                /\ s.rocket => s.phase \in {"RUNNING", "RESETTING"}
           ELSE s.pending = l

LEMMA SceneTells ==
    /\ SceneInv /\ SceneTellsRound => Tells(scene, live)
    /\ Tells(scene, live)' => (SceneInv /\ SceneTellsRound)'
  BY DEF SceneInv, SceneTellsRound, Tells, Scenes, ScenesFor

LEMMA DrawsOrWaits ==
    ASSUME NEW s, NEW l
    PROVE  Tells(s, l) <=> (s # None => Draws(s, l) \/ Waits(s, l))
<1>1. ASSUME Waits(s, l) PROVE s \in ScenesFor(l) /\ s.ready = FALSE /\ s.pending = l
  BY <1>1 DEF Waits, NewScene, ScenesFor, PhaseSet
<1>2. ASSUME s \in ScenesFor(l) PROVE s.ready \in BOOLEAN
  BY <1>2 DEF ScenesFor
<1>3. ASSUME Draws(s, l) PROVE Tells(s, l)
  BY <1>3 DEF Draws, Tells
<1>4. ASSUME Waits(s, l) PROVE Tells(s, l)
  BY <1>1, <1>4 DEF Tells, Waits
<1>5. ASSUME Tells(s, l), s # None, s.ready PROVE Draws(s, l)
  BY <1>5 DEF Tells, Draws
<1>6. ASSUME Tells(s, l), s # None, ~s.ready PROVE Waits(s, l)
  BY <1>6 DEF Tells, Waits
<1>7. s = None => Tells(s, l)
  BY DEF Tells
<1> QED BY <1>3, <1>4, <1>5, <1>6, <1>7

\* What is drawn of news that is of another round, or of a later phase.
LEMMA ShowsNews ==
    ASSUME NEW s \in ScenesFor(None), s.ready, s.pending = None, NEW l \in Snapshots,
           \/ s.round # l.round /\ l.round >= 1
           \/ s.round = l.round /\ Leads(s.phase, l.phase),
           l.round >= 1 \/ l.phase = "PREPARING",
           s.phase = "CRASHED" => s.crashDone = s.round,
           s.rocket => s.phase \in {"RUNNING", "RESETTING"},
           s.round >= 1 /\ s.phase \in {"PREPARING", "RUNNING"} => s.crashDone # s.round
    PROVE  Draws(Shows(s, l), l)
<1> DEFINE t == [s EXCEPT !.round = l.round, !.phase = l.phase]
           done == IF s.round # l.round THEN 0 ELSE s.crashDone
           seen == IF s.round # l.round THEN [t EXCEPT !.crashDone = 0] ELSE t
<1>1. /\ s.round \in Nat /\ s.phase \in PhaseSet /\ s.rocket \in BOOLEAN
      /\ s.crashDone \in Nat /\ l.round \in Nat /\ l.phase \in PhaseSet
  BY DEF ScenesFor, Snapshots
<1>2. /\ t \in ScenesFor(l) /\ t.ready /\ t.pending = None /\ t.round = l.round
      /\ t.phase = l.phase /\ t.rocket = s.rocket /\ t.crashDone = s.crashDone
  BY <1>1 DEF ScenesFor
<1>3. /\ seen \in ScenesFor(l) /\ seen.ready /\ seen.pending = None
      /\ seen.round = l.round /\ seen.phase = l.phase /\ seen.rocket = s.rocket
      /\ seen.crashDone = done
  <2>1. CASE s.round # l.round
    BY <2>1, <1>2 DEF ScenesFor
  <2>2. CASE s.round = l.round
    BY <2>2, <1>2
  <2> QED BY <2>1, <2>2
<1>4. Shows(s, l) = CASE t.phase = "PREPARING" -> ResetRound(seen)
                     [] t.phase = "CRASHED" /\ seen.crashDone # t.round -> DoCrash(seen)
                     [] OTHER -> seen
  BY DEF Shows, ApplyPhaseTransition
<1>5. /\ done \in Nat
      /\ s.round # l.round => done = 0 /\ l.round >= 1
      /\ s.round = l.round => done = s.crashDone /\ Leads(s.phase, l.phase)
  BY <1>1
<1> HIDE DEF t, seen, done
<1>6. CASE l.phase = "PREPARING"
  <2>1. Shows(s, l) = [seen EXCEPT !.rocket = FALSE]
    BY <1>2, <1>4, <1>6 DEF ResetRound
  <2>2. l.round >= 1 => done # l.round
    BY <1>1, <1>5, <1>6 DEF Leads, PhaseSet
  <2> QED BY <2>1, <2>2, <1>3, <1>6 DEF Draws, ScenesFor
<1>7. CASE l.phase = "CRASHED" /\ done # l.round
  <2>1. Shows(s, l) = [seen EXCEPT !.rocket = FALSE, !.crashDone = seen.round]
    BY <1>2, <1>3, <1>4, <1>7 DEF DoCrash
  <2> QED BY <2>1, <1>3, <1>7, <1>1 DEF Draws, ScenesFor
<1>8. CASE l.phase # "PREPARING" /\ ~(l.phase = "CRASHED" /\ done # l.round)
  <2>1. Shows(s, l) = seen
    BY <1>2, <1>3, <1>4, <1>8
  <2>2. l.phase = "CRASHED" => ~s.rocket
    BY <1>1, <1>5, <1>8 DEF Leads, PhaseSet
  <2>3. l.round >= 1 /\ l.phase = "RUNNING" => done # l.round
    BY <1>1, <1>5 DEF Leads, PhaseSet
  <2>4. l.phase = "CRASHED" => done = l.round
    BY <1>8
  <2> QED BY <2>1, <2>2, <2>3, <2>4, <1>3, <1>8, <1>1 DEF Draws, PhaseSet
<1> QED BY <1>6, <1>7, <1>8

-----------------------------------------------------------------------------
(* The game's screen.                                                       *)

LEMMA PanelMinor ==
    ASSUME PanelInv, UNCHANGED <<srv, live, scene>>,
           bets' \subseteq 1..(MaxRounds + 1), out' \subseteq bets',
           panel' \in {"out", "starting", "wallets", "import", "on", "failed"},
           panel' = "out" => panel = "out",
           conn' \in BOOLEAN, sheet' \in BOOLEAN
    PROVE  PanelInv'
<1>1. LiveLags'
  BY DEF PanelInv, LiveLags
<1>2. SceneInv' /\ SceneTellsRound'
  BY DEF PanelInv, SceneInv, Scenes, SceneTellsRound
<1> QED BY <1>1, <1>2 DEF PanelInv

LEMMA PanelSceneStep ==
    ASSUME PanelInv, UNCHANGED <<srv, bets, out, sheet>>, conn' \in BOOLEAN,
           panel' \in {"out", "starting", "wallets", "import", "on", "failed"},
           panel' = "out" => scene' = None,
           LiveLags', Tells(scene', live')
    PROVE  PanelInv'
<1>1. SceneInv' /\ SceneTellsRound'
  BY SceneTells
<1> QED BY <1>1 DEF PanelInv

LEMMA LiveFacts ==
    ASSUME PanelInv
    PROVE  /\ live \in Snapshots
           /\ live.round >= 1 \/ (live.round = 0 /\ live.phase = "PREPARING")
           /\ Tells(scene, live)
<1>1. CASE live = Blank
  BY <1>1, SceneTells DEF PanelInv, Blank, Snapshots, PhaseSet
<1>2. CASE live \in [round : 1..srv.round, phase : PhaseSet, mine : BOOLEAN]
  <2>1. live.round \in 1..srv.round /\ live \in Snapshots
    BY <1>2 DEF PanelInv, Snapshots
  <2> QED BY <2>1, SceneTells DEF PanelInv
<1> QED BY <1>1, <1>2 DEF PanelInv, LiveLags

LEMMA NewsFacts ==
    ASSUME PanelInv
    PROVE  /\ SnapshotNow \in [round : 1..srv.round, phase : PhaseSet, mine : BOOLEAN]
           /\ SnapshotNow \in Snapshots
           /\ SnapshotNow.round = srv.round /\ SnapshotNow.phase = srv.phase
           /\ srv.round >= 1
           /\ live.round = srv.round => Leads(live.phase, srv.phase)
<1>1. srv.round \in 1..MaxRounds /\ srv.phase \in PhaseSet
  BY DEF PanelInv
<1>2. srv.round \in Nat /\ srv.round >= 1 /\ srv.round \in 1..srv.round
  BY <1>1, RoundsAssumption
<1>3. live.round = srv.round => Leads(live.phase, srv.phase)
  BY <1>2 DEF PanelInv, LiveLags, Blank
<1>4. /\ SnapshotNow \in [round : 1..srv.round, phase : PhaseSet, mine : BOOLEAN]
      /\ SnapshotNow \in Snapshots
      /\ SnapshotNow.round = srv.round /\ SnapshotNow.phase = srv.phase
  BY <1>1, <1>2 DEF SnapshotNow, Snapshots
<1> QED BY <1>2, <1>3, <1>4

LEMMA SceneCreatedKeeps == PanelInv /\ SceneCreated => PanelInv'
<1> SUFFICES ASSUME PanelInv, SceneCreated PROVE PanelInv'
  OBVIOUS
<1> DEFINE t == [scene EXCEPT !.ready = TRUE, !.pending = None]
<1>1. /\ scene # None /\ ~scene.ready /\ scene' = Shows(t, scene.pending)
      /\ UNCHANGED <<srv, bets, out, panel, live, conn, sheet>>
  BY DEF SceneCreated, roundVars
<1>2. Waits(scene, live)
  BY <1>1, LiveFacts, DrawsOrWaits DEF Draws
<1>3. scene.pending = live
  BY <1>2 DEF Waits, NewScene
<1>4. /\ t \in ScenesFor(None) /\ t.ready /\ t.pending = None /\ t.round = 0
      /\ t.phase = "PREPARING" /\ ~t.rocket
  BY <1>2 DEF Waits, NewScene, ScenesFor, PhaseSet
<1>5. Draws(Shows(t, live), live)
  <2>1. live \in Snapshots /\ (live.round >= 1 \/ (live.round = 0 /\ live.phase = "PREPARING"))
    BY LiveFacts
  <2>2. live.round \in Nat
    BY <2>1 DEF Snapshots
  <2>3. \/ t.round # live.round /\ live.round >= 1
        \/ t.round = live.round /\ Leads(t.phase, live.phase)
    BY <2>1, <2>2, <1>4 DEF Leads
  <2>4. /\ t.phase = "CRASHED" => t.crashDone = t.round
        /\ t.rocket => t.phase \in {"RUNNING", "RESETTING"}
        /\ t.round >= 1 /\ t.phase \in {"PREPARING", "RUNNING"} => t.crashDone # t.round
    BY <1>4
  <2>5. t.phase = "CRASHED" => t.crashDone = t.round
    BY <2>4
  <2>6. t.rocket => t.phase \in {"RUNNING", "RESETTING"}
    BY <2>4
  <2>7. t.round >= 1 /\ t.phase \in {"PREPARING", "RUNNING"} => t.crashDone # t.round
    BY <2>4
  <2>8. live.round >= 1 \/ live.phase = "PREPARING"
    BY <2>1
  <2>9. t \in ScenesFor(None) /\ t.ready /\ t.pending = None
    BY <1>4
  <2> HIDE DEF t
  <2> QED BY <2>1, <2>3, <2>5, <2>6, <2>7, <2>8, <2>9, ShowsNews
<1>6. Tells(scene', live')
  <2>1. Tells(Shows(t, live), live)
    BY <1>5, DrawsOrWaits
  <2> QED BY <1>1, <1>3, <2>1
<1>7. LiveLags'
  BY <1>1 DEF PanelInv, LiveLags
<1>8. panel' # "out"
  BY <1>1 DEF PanelInv
<1>9. /\ UNCHANGED <<srv, bets, out, sheet>> /\ conn' \in BOOLEAN
      /\ panel' \in {"out", "starting", "wallets", "import", "on", "failed"}
  BY <1>1 DEF PanelInv
<1> QED BY <1>6, <1>7, <1>8, <1>9, PanelSceneStep

LEMMA FrameKeeps == PanelInv /\ Frame => PanelInv'
<1> SUFFICES ASSUME PanelInv, Frame PROVE PanelInv'
  OBVIOUS
<1>1. /\ scene # None /\ scene.ready /\ scene' = [scene EXCEPT !.rocket = (scene.phase = "RUNNING")]
      /\ UNCHANGED <<srv, bets, out, panel, live, conn, sheet>>
  BY DEF Frame, roundVars, TickRocket
<1>2. Draws(scene, live)
  BY <1>1, LiveFacts, DrawsOrWaits DEF Waits, NewScene
<1>3. Draws(scene', live)
  BY <1>1, <1>2 DEF Draws, ScenesFor
<1>4. Tells(scene', live')
  BY <1>1, <1>3, DrawsOrWaits
<1>5. LiveLags'
  BY <1>1 DEF PanelInv, LiveLags
<1>6. panel' # "out"
  BY <1>1 DEF PanelInv
<1>7. /\ UNCHANGED <<srv, bets, out, sheet>> /\ conn' \in BOOLEAN
      /\ panel' \in {"out", "starting", "wallets", "import", "on", "failed"}
  BY <1>1 DEF PanelInv
<1> QED BY <1>4, <1>5, <1>6, <1>7, PanelSceneStep

LEMMA BootKeeps == PanelInv /\ (BootGoesOn \/ BootFails) => PanelInv'
<1>1. ASSUME PanelInv, BootGoesOn, panel # "import" PROVE PanelInv'
  <2>1. /\ UNCHANGED <<srv, bets, out, live, scene, conn, sheet>>
        /\ panel' \in {"wallets", "import"}
    BY <1>1 DEF BootGoesOn, roundVars
  <2> QED BY <1>1, <2>1, PanelMinor DEF PanelInv
<1>2. ASSUME PanelInv, BootGoesOn, panel = "import" PROVE PanelInv'
  <2>1. /\ panel' = "on" /\ scene' = ApplySnapshot(NewScene, live)
        /\ UNCHANGED <<srv, bets, out, live, conn, sheet>>
    BY <1>2 DEF BootGoesOn, roundVars
  <2>2. Waits(scene', live')
    BY <2>1 DEF ApplySnapshot, NewScene, Waits
  <2>3. Tells(scene', live')
    BY <2>2, DrawsOrWaits
  <2>4. LiveLags'
    BY <1>2, <2>1 DEF PanelInv, LiveLags
  <2> QED BY <1>2, <2>1, <2>3, <2>4, PanelSceneStep DEF PanelInv
<1>3. ASSUME PanelInv, BootFails PROVE PanelInv'
  <2>1. UNCHANGED <<srv, bets, out, live, scene, conn, sheet>> /\ panel' = "failed"
    BY <1>3 DEF BootFails, roundVars
  <2> QED BY <1>3, <2>1, PanelMinor DEF PanelInv
<1> QED BY <1>1, <1>2, <1>3

LEMMA AdapterEmitsKeeps == PanelInv /\ AdapterEmits => PanelInv'
<1> SUFFICES ASSUME PanelInv, AdapterEmits PROVE PanelInv'
  OBVIOUS
<1>1. /\ panel # "out" /\ live' = SnapshotNow
      /\ scene' = IF scene = None THEN None ELSE ApplySnapshot(scene, SnapshotNow)
      /\ UNCHANGED <<srv, bets, out, panel, conn, sheet>>
  BY DEF AdapterEmits, Mounted, roundVars
<1>2. LiveLags'
  <2>1. Leads(srv.phase, srv.phase)
    BY DEF Leads
  <2> QED BY <1>1, <2>1, NewsFacts DEF LiveLags
<1>3. CASE scene = None
  <2>1. Tells(scene', live')
    BY <1>1, <1>3 DEF Tells
  <2> QED BY <1>1, <1>2, <2>1, PanelSceneStep DEF PanelInv
<1>4. CASE scene # None /\ ~scene.ready
  <2>1. Waits(scene, live)
    BY <1>4, LiveFacts, DrawsOrWaits DEF Draws
  <2>2. Waits(scene', live')
    BY <1>1, <1>4, <2>1 DEF ApplySnapshot, Waits, NewScene
  <2>3. Tells(scene', live')
    BY <2>2, DrawsOrWaits
  <2> QED BY <1>1, <1>2, <2>3, PanelSceneStep DEF PanelInv
<1>5. CASE scene # None /\ scene.ready
  <2>1. Draws(scene, live)
    BY <1>5, LiveFacts, DrawsOrWaits DEF Waits, NewScene
  <2>2. /\ scene \in ScenesFor(None) /\ scene.pending = None /\ scene.round = live.round
        /\ scene.phase = live.phase /\ scene.round \in Nat
    BY <2>1 DEF Draws, ScenesFor
  <2>3. /\ SnapshotNow \in Snapshots /\ SnapshotNow.round = srv.round
        /\ SnapshotNow.phase = srv.phase /\ srv.round >= 1
        /\ live.round = srv.round => Leads(live.phase, srv.phase)
    BY NewsFacts
  <2>4. \/ scene.round # SnapshotNow.round /\ SnapshotNow.round >= 1
        \/ scene.round = SnapshotNow.round /\ Leads(scene.phase, SnapshotNow.phase)
    BY <2>2, <2>3
  <2>5. scene.phase = "CRASHED" => scene.crashDone = scene.round
    BY <2>1 DEF Draws
  <2>6. scene.rocket => scene.phase \in {"RUNNING", "RESETTING"}
    BY <2>1 DEF Draws
  <2>7. scene.round >= 1 /\ scene.phase \in {"PREPARING", "RUNNING"}
            => scene.crashDone # scene.round
    BY <2>1 DEF Draws
  <2>8. SnapshotNow.round >= 1 \/ SnapshotNow.phase = "PREPARING"
    BY <2>3
  <2>9. Draws(Shows(scene, SnapshotNow), SnapshotNow)
    BY <1>5, <2>2, <2>3, <2>4, <2>5, <2>6, <2>7, <2>8, ShowsNews
  <2>10. Draws(scene', live')
    BY <1>1, <1>5, <2>9 DEF ApplySnapshot
  <2>11. Tells(scene', live')
    BY <2>10, DrawsOrWaits
  <2> QED BY <1>1, <1>2, <2>11, PanelSceneStep DEF PanelInv
<1> QED BY <1>3, <1>4, <1>5

\* What the steps of the panel keep, and what the other screens see of them.
PanelKeeps ==
    /\ PanelInv' /\ OrdersInv'
    /\ \A c \in cmds' : c \in cmds \/ c.kind \in {"bet", "cashout"}
    /\ panel' # "out" => panel # "out"

LEMMA PanelQuiet ==
    ASSUME PanelInv, OrdersInv,
           SceneCreated \/ Frame \/ BootGoesOn \/ BootFails \/ AdapterEmits
    PROVE  PanelKeeps
<1>1. PanelInv'
  BY SceneCreatedKeeps, FrameKeeps, BootKeeps, AdapterEmitsKeeps
<1>2. UNCHANGED <<effects, cmds>> /\ (faults' = faults \/ Fault)
  BY DEF SceneCreated, Frame, BootGoesOn, BootFails, AdapterEmits, ordersVars
<1>3. OrdersInv'
  BY <1>2, FaultBound, OrdersStay
<1>4. panel # "out"
  BY DEF PanelInv, SceneCreated, Frame, BootGoesOn, BootFails, AdapterEmits, Mounted
<1> QED BY <1>1, <1>2, <1>3, <1>4 DEF PanelKeeps

LEMMA ConnectionKeeps ==
    ASSUME PanelInv, OrdersInv, Connected \/ Disconnected \/ CloseSheet
    PROVE  PanelKeeps
<1>1. /\ UNCHANGED <<srv, bets, out, live, scene, panel, effects, cmds>>
      /\ conn' \in BOOLEAN /\ sheet' \in BOOLEAN /\ (faults' = faults \/ Fault)
  BY DEF Connected, Disconnected, CloseSheet, roundVars, ordersVars, PanelInv
<1>2. PanelInv'
  BY <1>1, PanelMinor DEF PanelInv
<1>3. OrdersInv'
  BY <1>1, FaultBound, OrdersStay
<1> QED BY <1>1, <1>2, <1>3 DEF PanelKeeps

LEMMA NewGameCommand ==
    ASSUME OrdersInv, NEW kind \in {"bet", "cashout"}
    PROVE  /\ Command(kind, "post") \in Commands
           /\ Command(kind, "post").order = Next1
           /\ ~StakingCommand(Command(kind, "post"))
           /\ Command(kind, "post").kind = kind
<1>1. Next1 \in Nat
  BY DEF OrdersInv, Next1
<1> QED BY <1>1 DEF Command, Commands, GameCmds, StakingCommand

LEMMA PressKeeps ==
    ASSUME PanelInv, OrdersInv, OnMainAction \/ OnPlaceFromModal
    PROVE  PanelKeeps
<1>1. /\ UNCHANGED <<srv, bets, out, live, scene, panel, conn>> /\ sheet' \in BOOLEAN
  BY DEF OnMainAction, OnPlaceFromModal, roundVars, panelVars, PanelInv
<1>2. PanelInv'
  BY <1>1, PanelMinor DEF PanelInv
<1>3. \/ UNCHANGED ordersVars
      \/ \E kind \in {"bet", "cashout"} : Order(Command(kind, "post"))
  BY DEF OnMainAction, OnPlaceFromModal
<1>4. CASE UNCHANGED ordersVars
  <2>1. OrdersInv'
    BY <1>4, FaultBound, OrdersStay DEF ordersVars
  <2> QED BY <1>1, <1>2, <1>4, <2>1 DEF PanelKeeps, ordersVars
<1>5. ASSUME NEW kind \in {"bet", "cashout"}, Order(Command(kind, "post"))
      PROVE  PanelKeeps
  <2> DEFINE d == Command(kind, "post")
  <2>1. d \in Commands /\ d.order = Next1 /\ ~StakingCommand(d) /\ d.kind = kind
    BY NewGameCommand
  <2>2. Order(d)
    BY <1>5
  <2>3. cmds' = cmds \cup {d}
    BY <2>2 DEF Order
  <2> HIDE DEF d
  <2>4. OrdersInv'
    BY <2>1, <2>2, OrdersOrder
  <2> QED BY <1>1, <1>2, <2>1, <2>3, <2>4 DEF PanelKeeps
<1> QED BY <1>3, <1>4, <1>5

LEMMA RoundKeeps ==
    ASSUME PanelInv, OrdersInv, RoundGoesOn
    PROVE  PanelKeeps
<1> DEFINE i == CHOOSE n \in DOMAIN Phase : Phase[n] = srv.phase
<1>1. /\ UNCHANGED <<bets, out, panel, live, conn, sheet, scene>>
      /\ IF i < Len(Phase)
         THEN srv' = [srv EXCEPT !.phase = Phase[i + 1]]
         ELSE srv.round < MaxRounds /\ srv' = [round |-> srv.round + 1, phase |-> Phase[1]]
  BY DEF RoundGoesOn, panelVars
<1>2. srv \in [round : 1..MaxRounds, phase : PhaseSet] /\ MaxRounds \in Nat
  BY RoundsAssumption DEF PanelInv
<1>3. /\ DOMAIN Phase = 1..4 /\ Len(Phase) = 4 /\ Phase[1] = "PREPARING"
      /\ Phase[2] = "RUNNING" /\ Phase[3] = "CRASHED" /\ Phase[4] = "RESETTING"
  BY DEF Phase
<1>4. i \in 1..4 /\ Phase[i] = srv.phase
  <2>1. \E n \in DOMAIN Phase : Phase[n] = srv.phase
    BY <1>2, <1>3 DEF PhaseSet
  <2> QED BY <2>1, <1>3
<1> HIDE DEF i
<1>5. ASSUME i < 4
      PROVE  srv' \in [round : 1..MaxRounds, phase : PhaseSet] /\ LiveLags'
  <2>1. /\ srv' = [srv EXCEPT !.phase = Phase[i + 1]]
        /\ Phase[i + 1] \in PhaseSet /\ Leads(srv.phase, Phase[i + 1])
        /\ \A p \in PhaseSet : Leads(p, srv.phase) => Leads(p, Phase[i + 1])
    <3>1. i \in {1, 2, 3}
      BY <1>4, <1>5
    <3>2. srv' = [srv EXCEPT !.phase = Phase[i + 1]]
      BY <1>1, <1>3, <1>5
    <3>3. CASE i = 1
      BY <3>2, <3>3, <1>3, <1>4 DEF Leads, PhaseSet
    <3>4. CASE i = 2
      BY <3>2, <3>4, <1>3, <1>4 DEF Leads, PhaseSet
    <3>5. CASE i = 3
      BY <3>2, <3>5, <1>3, <1>4 DEF Leads, PhaseSet
    <3> QED BY <3>1, <3>3, <3>4, <3>5
  <2>2. /\ srv' \in [round : 1..MaxRounds, phase : PhaseSet]
        /\ srv'.round = srv.round /\ srv'.phase = Phase[i + 1]
    BY <1>2, <2>1
  <2>3. LiveLags'
    <3>1. CASE live = Blank
      BY <3>1, <1>1 DEF LiveLags
    <3>2. CASE /\ live \in [round : 1..srv.round, phase : PhaseSet, mine : BOOLEAN]
               /\ live.round = srv.round => Leads(live.phase, srv.phase)
      BY <3>2, <1>1, <2>1, <2>2 DEF LiveLags
    <3> QED BY <3>1, <3>2 DEF PanelInv, LiveLags
  <2> QED BY <2>2, <2>3
<1>6. ASSUME i = 4
      PROVE  srv' \in [round : 1..MaxRounds, phase : PhaseSet] /\ LiveLags'
  <2>1. srv.round < MaxRounds /\ srv' = [round |-> srv.round + 1, phase |-> "PREPARING"]
    BY <1>1, <1>3, <1>6
  <2>2. srv' \in [round : 1..MaxRounds, phase : PhaseSet] /\ srv'.round = srv.round + 1
    BY <1>2, <2>1 DEF PhaseSet
  <2>3. LiveLags'
    <3>1. CASE live = Blank
      BY <3>1, <1>1 DEF LiveLags
    <3>2. CASE live \in [round : 1..srv.round, phase : PhaseSet, mine : BOOLEAN]
      <4>1. live.round \in 1..srv.round /\ srv.round \in Nat
        BY <3>2, <1>2
      <4>2. live.round # srv.round + 1 /\ 1..srv.round \subseteq 1..(srv.round + 1)
        BY <4>1
      <4>3. live \in [round : 1..(srv.round + 1), phase : PhaseSet, mine : BOOLEAN]
        BY <3>2, <4>2
      <4> QED BY <4>2, <4>3, <1>1, <2>2 DEF LiveLags
    <3> QED BY <3>1, <3>2 DEF PanelInv, LiveLags
  <2> QED BY <2>2, <2>3
<1>7. srv' \in [round : 1..MaxRounds, phase : PhaseSet] /\ LiveLags'
  BY <1>4, <1>5, <1>6
<1>8. SceneInv' /\ SceneTellsRound'
  BY <1>1 DEF PanelInv, SceneInv, Scenes, SceneTellsRound
<1>9. PanelInv'
  BY <1>1, <1>7, <1>8 DEF PanelInv
<1>10. UNCHANGED <<effects, cmds, faults>> /\ panel' = panel
  BY DEF RoundGoesOn, ordersVars, panelVars
<1>11. OrdersInv'
  BY <1>10, FaultBound, OrdersStay
<1> QED BY <1>9, <1>10, <1>11 DEF PanelKeeps

\* A command of the game at its next step.
LEMMA GameStepped ==
    ASSUME NEW c \in GameCmds, NEW step \in {"post", "retry", "refresh"}
    PROVE  LET d == [c EXCEPT !.step = step]
           IN /\ d \in Commands /\ Span(d) = Span(c) /\ d.order = c.order
              /\ d.order >= c.order
              /\ d.kind \in {"bet", "cashout"} /\ d.step = step
<1> DEFINE d == [c EXCEPT !.step = step]
<1>1. /\ d \in GameCmds /\ d.order = c.order /\ d.kind = c.kind /\ d.step = step
      /\ c.order \in Nat /\ c.kind \in {"bet", "cashout"}
  BY DEF GameCmds
<1>2. ~StakingCommand(c) /\ ~StakingCommand(d)
  BY <1>1 DEF StakingCommand
<1>3. Span(d) = Span(c)
  BY <1>1, <1>2 DEF Span
<1>4. d.order >= c.order
  BY <1>1
<1> QED BY <1>1, <1>3, <1>4 DEF Commands

\* A command of the game that goes on, or ends, with or without an effect.
LEMMA GameGoes ==
    ASSUME OrdersInv, NEW c \in cmds, c \in GameCmds,
           NEW step \in {"post", "retry", "refresh"},
           Goes(c, [c EXCEPT !.step = step]),
           faults' \in 0..MaxFaults,
           \/ effects' = effects /\ (step = "refresh" \/ Early(c))
           \/ Carried(c.order) /\ Early(c) /\ step = "refresh"
    PROVE  /\ OrdersInv'
           /\ \A x \in cmds' : x \in cmds \/ x.kind \in {"bet", "cashout"}
<1> DEFINE d == [c EXCEPT !.step = step]
           D == {d}
<1>1. /\ d \in Commands /\ Span(d) = Span(c) /\ d.order >= c.order
      /\ d.kind \in {"bet", "cashout"} /\ d.step = step
  BY GameStepped
<1>2. cmds' = (cmds \ {c}) \cup D
  BY DEF Goes
<1> HIDE DEF d
<1>3. D \subseteq Commands /\ \A x, y \in D : x = y
  BY <1>1
<1>4. ASSUME effects' = effects, step = "refresh" \/ Early(c) PROVE OrdersInv'
  <2>1. \A x \in D : /\ Span(x) \subseteq Span(c) /\ x.order >= c.order
                     /\ Early(x) => Early(c) \/ x.order > c.order
    BY <1>1, <1>4 DEF Early
  <2> HIDE DEF D
  <2> QED BY <1>2, <1>3, <1>4, <2>1, OrdersGoOn
<1>5. ASSUME Carried(c.order), Early(c), step = "refresh" PROVE OrdersInv'
  <2>1. \A x \in D : /\ Span(x) \subseteq Span(c) /\ x.order >= c.order
                     /\ Early(x) => x.order > c.order
    BY <1>1, <1>5 DEF Early
  <2> HIDE DEF D
  <2> QED BY <1>2, <1>3, <1>5, <2>1, OrdersCarry
<1> QED BY <1>1, <1>2, <1>4, <1>5

\* Any command that ends, with or without an effect.
LEMMA CommandEnds ==
    ASSUME OrdersInv, NEW c \in cmds, Ends(c), faults' \in 0..MaxFaults,
           effects' = effects \/ (Carried(c.order) /\ Early(c))
    PROVE  OrdersInv'
<1> DEFINE D == {x \in cmds : FALSE}
<1>1. D \subseteq Commands /\ cmds' = (cmds \ {c}) \cup D
  BY DEF Ends
<1>2. \A d \in D : FALSE
  OBVIOUS
<1> HIDE DEF D
<1>3. \A d, e \in D : d = e
  BY <1>2
<1>4. \A d \in D : /\ Span(d) \subseteq Span(c) /\ d.order >= c.order
                   /\ Early(d) => Early(c) \/ d.order > c.order
  BY <1>2
<1>5. \A d \in D : /\ Span(d) \subseteq Span(c) /\ d.order >= c.order
                   /\ Early(d) => d.order > c.order
  BY <1>2
<1>6. CASE effects' = effects
  BY <1>1, <1>3, <1>4, <1>6, OrdersGoOn
<1>7. CASE Carried(c.order) /\ Early(c)
  BY <1>1, <1>3, <1>5, <1>7, OrdersCarry
<1> QED BY <1>6, <1>7

LEMMA BetKeeps ==
    ASSUME PanelInv, OrdersInv, NEW c \in cmds, BetAnswered(c)
    PROVE  PanelKeeps
<1>1. /\ c.kind = "bet" /\ c.step = "post" /\ UNCHANGED <<srv, out, panel, live, conn, sheet, scene>>
  BY DEF BetAnswered, panelVars
<1>2. c \in GameCmds /\ Early(c)
  BY <1>1, Kinds DEF OrdersInv, Early
<1>3. bets' = bets \/ (BetFits /\ bets' = bets \cup {Target})
  BY DEF BetAnswered
<1>4. bets' \subseteq 1..(MaxRounds + 1) /\ out' \subseteq bets'
  <2>1. /\ bets \subseteq 1..(MaxRounds + 1) /\ out \subseteq bets
        /\ srv.round \in 1..MaxRounds /\ MaxRounds \in Nat
    BY RoundsAssumption DEF PanelInv
  <2>2. BetFits => Target \in 1..(MaxRounds + 1)
    BY <2>1 DEF BetFits, Target
  <2> QED BY <1>1, <1>3, <2>1, <2>2
<1>5. PanelInv'
  BY <1>1, <1>4, PanelMinor DEF PanelInv
<1>6. faults' \in 0..MaxFaults
  BY FaultBound DEF BetAnswered
<1>7. \/ Goes(c, [c EXCEPT !.step = "refresh"]) /\ Carried(c.order)
      \/ effects' = effects /\ Goes(c, [c EXCEPT !.step = "retry"])
      \/ Ends(c) /\ (effects' = effects \/ Carried(c.order))
  BY DEF BetAnswered
<1>8. CASE Goes(c, [c EXCEPT !.step = "refresh"]) /\ Carried(c.order)
  BY <1>1, <1>2, <1>5, <1>6, <1>8, GameGoes DEF PanelKeeps
<1>9. CASE effects' = effects /\ Goes(c, [c EXCEPT !.step = "retry"])
  BY <1>1, <1>2, <1>5, <1>6, <1>9, GameGoes DEF PanelKeeps
<1>10. CASE Ends(c) /\ (effects' = effects \/ Carried(c.order))
  <2>1. OrdersInv'
    BY <1>2, <1>6, <1>10, CommandEnds
  <2> QED BY <1>1, <1>5, <1>10, <2>1 DEF PanelKeeps, Ends
<1> QED BY <1>7, <1>8, <1>9, <1>10

LEMMA RetryKeeps ==
    ASSUME PanelInv, OrdersInv, NEW c \in cmds, c.kind \in {"bet", "cashout"}, BetRetries(c)
    PROVE  PanelKeeps
<1>1. /\ c.step = "retry" /\ UNCHANGED <<srv, bets, out, panel, live, conn, sheet, scene>>
      /\ UNCHANGED <<effects, faults>>
  BY DEF BetRetries, roundVars, panelVars
<1>2. c \in GameCmds /\ Early(c)
  BY <1>1, Kinds DEF OrdersInv, Early
<1>3. PanelInv'
  BY <1>1, PanelMinor DEF PanelInv
<1>4. faults' \in 0..MaxFaults
  BY <1>1, FaultBound
<1>5. Goes(c, [c EXCEPT !.step = "post"]) \/ Ends(c)
  BY DEF BetRetries
<1>6. CASE Goes(c, [c EXCEPT !.step = "post"])
  BY <1>1, <1>2, <1>3, <1>4, <1>6, GameGoes DEF PanelKeeps
<1>7. CASE Ends(c)
  <2>1. OrdersInv'
    BY <1>1, <1>4, <1>7, CommandEnds
  <2> QED BY <1>1, <1>3, <1>7, <2>1 DEF PanelKeeps, Ends
<1> QED BY <1>5, <1>6, <1>7

LEMMA CashoutKeeps ==
    ASSUME PanelInv, OrdersInv, NEW c \in cmds, CashoutAnswered(c)
    PROVE  PanelKeeps
<1>1. /\ c.kind = "cashout" /\ c.step = "post"
      /\ UNCHANGED <<srv, bets, panel, live, conn, sheet, scene>>
  BY DEF CashoutAnswered, panelVars
<1>2. c \in GameCmds /\ Early(c)
  BY <1>1, Kinds DEF OrdersInv, Early
<1>3. out' = out \/ (CashedOut /\ out' = out \cup {srv.round})
  BY DEF CashoutAnswered
<1>4. PanelInv'
  BY <1>1, <1>3, PanelMinor DEF PanelInv, CashedOut
<1>5. faults' \in 0..MaxFaults
  BY FaultBound DEF CashoutAnswered
<1>6. \/ Goes(c, [c EXCEPT !.step = "refresh"]) /\ Carried(c.order)
      \/ Ends(c) /\ (effects' = effects \/ Carried(c.order))
  BY DEF CashoutAnswered
<1>7. CASE Goes(c, [c EXCEPT !.step = "refresh"]) /\ Carried(c.order)
  BY <1>1, <1>2, <1>4, <1>5, <1>7, GameGoes DEF PanelKeeps
<1>8. CASE Ends(c) /\ (effects' = effects \/ Carried(c.order))
  <2>1. OrdersInv'
    BY <1>2, <1>5, <1>8, CommandEnds
  <2> QED BY <1>1, <1>4, <1>8, <2>1 DEF PanelKeeps, Ends
<1> QED BY <1>6, <1>7, <1>8

LEMMA RefreshKeeps ==
    ASSUME PanelInv, OrdersInv, NEW c \in cmds, WalletsRefreshed(c)
    PROVE  PanelKeeps
<1>1. /\ Ends(c) /\ UNCHANGED <<effects, srv, bets, out, panel, live, conn, scene>>
      /\ sheet' \in BOOLEAN /\ (faults' = faults \/ Fault)
  BY DEF WalletsRefreshed, roundVars, PanelInv
<1>2. PanelInv'
  BY <1>1, PanelMinor DEF PanelInv
<1>3. OrdersInv'
  BY <1>1, FaultBound, CommandEnds
<1> QED BY <1>1, <1>2, <1>3 DEF PanelKeeps, Ends

\* The sheet is opened by a press only.
LEMMA PanelStepKeeps ==
    ASSUME PanelInv, OrdersInv, PanelStep
    PROVE  PanelKeeps /\ (sheet' => sheet)
<1>1. PanelKeeps
  <2>1. \A c \in cmds : BetAnswered(c) => PanelKeeps
    BY BetKeeps
  <2>2. \A c \in cmds : c.kind \in {"bet", "cashout"} /\ BetRetries(c) => PanelKeeps
    BY RetryKeeps
  <2>3. \A c \in cmds : CashoutAnswered(c) \/ WalletsRefreshed(c) => PanelKeeps
    BY CashoutKeeps, RefreshKeeps
  <2> QED BY <2>1, <2>2, <2>3, PanelQuiet, ConnectionKeeps, PressKeeps, RoundKeeps
          DEF PanelStep
<1>2. sheet' => sheet
  BY DEF PanelStep, SceneCreated, Frame, BootGoesOn, BootFails, AdapterEmits, Connected,
         Disconnected, CloseSheet, OnPlaceFromModal, RoundGoesOn, BetAnswered, BetRetries,
         CashoutAnswered, WalletsRefreshed, panelVars
<1> QED BY <1>1, <1>2

-----------------------------------------------------------------------------
(* The staking screen.                                                      *)

\* What its steps keep, and what the other screens see of them.
StakingKeeps ==
    /\ ScreenInv' /\ OrdersInv'
    /\ \A c \in cmds' : c \in cmds \/ (StakingCommand(c) /\ (c.left \/ tab = "staking"))
    /\ shown' # NoAssets => shown # NoAssets \/ tab = "staking"

LEMMA OverviewIsTyped ==
    ASSUME ScreenInv, NEW b \in BOOLEAN
    PROVE  OverviewRead(b) \in [first : BOOLEAN, seen : [Assets -> Nat]]
  BY DEF ScreenInv, OverviewRead, Overview

LEMMA ReadsKeep ==
    ASSUME ScreenInv, OrdersInv, tab = "staking",
           \/ SilentRead \/ CloseAction
           \/ \E r \in reads : OverviewArrives(r) \/ OverviewFails(r)
           \/ \E a \in Assets : OpenAction(a)
    PROVE  StakingKeeps
<1>1. UNCHANGED <<effects, cmds>> /\ (faults' = faults \/ Fault)
  BY DEF SilentRead, CloseAction, OverviewArrives, OverviewFails, OpenAction, ordersVars
<1>2. OrdersInv'
  BY <1>1, FaultBound, OrdersStay
<1>3. NoAssets \in [Assets -> Nat \cup {None}]
  BY DEF NoAssets
<1>4. ScreenInv'
  <2>1. CASE SilentRead
    BY <2>1, OverviewIsTyped DEF SilentRead, ScreenInv
  <2>2. CASE CloseAction
    BY <2>2 DEF CloseAction, ScreenInv
  <2>3. ASSUME NEW r \in reads, OverviewArrives(r) PROVE ScreenInv'
    <3>1. r.seen \in [Assets -> Nat \cup {None}]
      BY DEF ScreenInv
    <3> QED BY <2>3, <3>1 DEF OverviewArrives, ScreenInv
  <2>4. ASSUME NEW r \in reads, OverviewFails(r) PROVE ScreenInv'
    BY <2>4, <1>3 DEF OverviewFails, ScreenInv
  <2>5. ASSUME NEW a \in Assets, OpenAction(a) PROVE ScreenInv'
    BY <2>5 DEF OpenAction, ScreenInv
  <2> QED BY <2>1, <2>2, <2>3, <2>4, <2>5
<1> QED BY <1>1, <1>2, <1>4 DEF StakingKeeps

LEMMA NewStakingCommand ==
    ASSUME OrdersInv, NEW kind \in {"claim", "act"}, NEW asset \in Assets,
           NEW more \in Seq(Assets)
    PROVE  LET d == StakingOrder(kind, asset, more)
           IN /\ d \in Commands /\ d.order = Next1 /\ d.rest = more
              /\ StakingCommand(d) /\ d.left = FALSE
<1>1. Next1 \in Nat
  BY DEF OrdersInv, Next1
<1> QED BY <1>1 DEF StakingOrder, Commands, StakingCmds, StakingCommand

LEMMA OneOrderKeeps ==
    ASSUME ScreenInv, OrdersInv, tab = "staking",
           SubmitAction \/ \E a \in Assets : Claim(a)
    PROVE  StakingKeeps
<1>1. ASSUME NEW kind \in {"claim", "act"}, NEW asset \in Assets,
             Order(StakingOrder(kind, asset, <<>>)), ScreenInv', shown' = shown
      PROVE  StakingKeeps
  <2> DEFINE d == StakingOrder(kind, asset, <<>>)
  <2>1. <<>> \in Seq(Assets)
    OBVIOUS
  <2>2. /\ d \in Commands /\ d.order = Next1 /\ d.rest = <<>>
        /\ StakingCommand(d) /\ d.left = FALSE
    BY <2>1, NewStakingCommand
  <2>3. Order(d)
    BY <1>1
  <2>4. cmds' = cmds \cup {d}
    BY <2>3 DEF Order
  <2> HIDE DEF d
  <2>5. OrdersInv'
    BY <2>2, <2>3, OrdersOrder
  <2> QED BY <1>1, <2>2, <2>4, <2>5 DEF StakingKeeps
<1>2. ASSUME SubmitAction PROVE StakingKeeps
  <2>1. /\ action \in Assets /\ Order(StakingOrder("act", action, <<>>))
        /\ UNCHANGED stakingVars
    BY <1>2 DEF SubmitAction, ScreenInv
  <2>2. ScreenInv' /\ shown' = shown
    BY <2>1 DEF ScreenInv, stakingVars
  <2> QED BY <1>1, <2>1, <2>2
<1>3. ASSUME NEW a \in Assets, Claim(a) PROVE StakingKeeps
  <2>1. Order(StakingOrder("claim", a, <<>>)) /\ shown' = shown
    BY <1>3 DEF Claim
  <2>2. ScreenInv'
    BY <1>3 DEF Claim, ScreenInv
  <2> QED BY <1>1, <2>1, <2>2
<1> QED BY <1>2, <1>3

LEMMA ClaimAllKeeps ==
    ASSUME ScreenInv, OrdersInv, tab = "staking", NEW a \in Assets, NEW b \in Assets,
           ClaimAll(<<a, b>>)
    PROVE  StakingKeeps
<1> DEFINE d == StakingOrder("claim", a, <<b>>)
<1>1. <<b>> \in Seq(Assets) /\ Len(<<b>>) = 1
  OBVIOUS
<1>2. /\ d \in Commands /\ d.order = Next1 /\ d.rest = <<b>>
      /\ StakingCommand(d) /\ d.left = FALSE
  BY <1>1, NewStakingCommand
<1>3. /\ Len(<<a, b>>) = 2 /\ DOMAIN <<a, b>> = 1..2
      /\ Head(<<a, b>>) = a /\ Tail(<<a, b>>) = <<b>>
  OBVIOUS
<1>4. /\ Len(effects) + 2 <= MaxOrders
      /\ effects' = effects \o [i \in 1..2 |-> 0]
      /\ cmds' = cmds \cup {d} /\ claiming' = a
      /\ UNCHANGED <<faults, srvAssets, shown, reads, action>>
  BY <1>3 DEF ClaimAll
<1> HIDE DEF d
<1>5. Span(d) = Next1..(Len(effects) + 2)
  <2>1. Span(d) = d.order..(d.order + Len(d.rest))
    BY <1>2 DEF Span
  <2>2. Len(effects) \in Nat
    BY DEF OrdersInv
  <2> QED BY <1>1, <1>2, <2>1, <2>2 DEF Next1
<1>6. 2 \in Nat \ {0}
  OBVIOUS
<1>7. cmds' = cmds \cup {d} /\ faults' = faults
  BY <1>4
<1>8. OrdersInv'
  BY <1>2, <1>4, <1>5, <1>6, <1>7, OrdersNew
<1>9. ScreenInv'
  BY <1>4 DEF ScreenInv
<1> QED BY <1>2, <1>4, <1>8, <1>9 DEF StakingKeeps

\* A staking command at its next step.
At(c, step, got) == [c EXCEPT !.step = step, !.got = got]

LEMMA StakingStepped ==
    ASSUME NEW c \in StakingCmds, NEW step \in {"read", "answer"}, NEW got \in Nat \cup {None},
           NEW d, d = At(c, step, got)
    PROVE  /\ d \in Commands /\ Span(d) = Span(c) /\ d.order >= c.order
           /\ StakingCommand(d) /\ d.left = c.left /\ ~Early(d)
<1>1. /\ d \in StakingCmds /\ d.order = c.order /\ d.kind = c.kind /\ d.step = step
      /\ d.rest = c.rest /\ d.left = c.left
      /\ c.order \in Nat /\ c.kind \in {"claim", "act"}
  BY DEF StakingCmds, At
<1>2. StakingCommand(c) /\ StakingCommand(d)
  BY <1>1 DEF StakingCommand
<1>3. Span(d) = Span(c)
  BY <1>1, <1>2 DEF Span
<1>4. d.order >= c.order /\ ~Early(d)
  BY <1>1 DEF Early
<1> QED BY <1>1, <1>2, <1>3, <1>4 DEF Commands

LEMMA StakingGoes ==
    ASSUME OrdersInv, NEW c \in cmds, c \in StakingCmds,
           NEW step \in {"read", "answer"}, NEW got \in Nat \cup {None},
           Goes(c, At(c, step, got)), faults' = faults,
           effects' = effects \/ (Carried(c.order) /\ Early(c))
    PROVE  /\ OrdersInv'
           /\ \A x \in cmds' : x \in cmds \/ (StakingCommand(x) /\ x.left = c.left)
<1> DEFINE d == At(c, step, got)
           D == {d}
<1>0. d = At(c, step, got)
  OBVIOUS
<1>2. cmds' = (cmds \ {c}) \cup D
  BY DEF Goes
<1> HIDE DEF d
<1>1. /\ d \in Commands /\ Span(d) = Span(c) /\ d.order >= c.order
      /\ StakingCommand(d) /\ d.left = c.left /\ ~Early(d)
  BY <1>0, StakingStepped
<1>3. D \subseteq Commands /\ \A x, y \in D : x = y
  BY <1>1
<1>4. \A x \in D : /\ Span(x) \subseteq Span(c) /\ x.order >= c.order
                   /\ Early(x) => Early(c) \/ x.order > c.order
  BY <1>1
<1>5. \A x \in D : /\ Span(x) \subseteq Span(c) /\ x.order >= c.order
                   /\ Early(x) => x.order > c.order
  BY <1>1
<1>6. faults' \in 0..MaxFaults
  BY FaultBound
<1>7. \A x \in cmds' : x \in cmds \/ (StakingCommand(x) /\ x.left = c.left)
  BY <1>1, <1>2
<1> HIDE DEF D
<1>8. CASE effects' = effects
  BY <1>2, <1>3, <1>4, <1>6, <1>7, <1>8, OrdersGoOn
<1>9. CASE Carried(c.order) /\ Early(c)
  BY <1>2, <1>3, <1>5, <1>6, <1>7, <1>9, OrdersCarry
<1> QED BY <1>8, <1>9

LEMMA HandledKeeps ==
    ASSUME ScreenInv, OrdersInv, Links, NEW c \in cmds, StakingHandled(c)
    PROVE  StakingKeeps
<1>1. /\ StakingCommand(c) /\ c.step = "post" /\ faults' = faults
      /\ UNCHANGED <<shown, reads, claiming, action>>
      /\ \/ CarriedOut(c) /\ Goes(c, [c EXCEPT !.step = "read"])
         \/ UNCHANGED <<effects, srvAssets>> /\ Goes(c, [c EXCEPT !.step = "answer"])
  BY DEF StakingHandled, screenVars
<1>2. c \in StakingCmds /\ Early(c)
  BY <1>1, Kinds DEF OrdersInv, Early
<1>3. c.got \in Nat \cup {None} /\ c.asset \in Assets /\ c.left \in BOOLEAN
  BY <1>2 DEF StakingCmds
<1>4. /\ [c EXCEPT !.step = "read"] = At(c, "read", c.got)
      /\ [c EXCEPT !.step = "answer"] = At(c, "answer", c.got)
  BY <1>2 DEF At, StakingCmds
<1>5. c.left \/ tab = "staking"
  BY <1>1 DEF Links
<1>6. CASE CarriedOut(c) /\ Goes(c, [c EXCEPT !.step = "read"])
  <2>1. Carried(c.order) /\ srvAssets' = [srvAssets EXCEPT ![c.asset] = @ + 1]
    BY <1>6 DEF CarriedOut
  <2>2. Goes(c, At(c, "read", c.got))
    BY <1>4, <1>6
  <2>3. "read" \in {"read", "answer"}
    OBVIOUS
  <2>4. /\ OrdersInv'
        /\ \A x \in cmds' : x \in cmds \/ (StakingCommand(x) /\ x.left = c.left)
    BY <1>1, <1>2, <1>3, <2>1, <2>2, <2>3, StakingGoes
  <2>5. ScreenInv'
    BY <1>1, <1>3, <2>1 DEF ScreenInv
  <2> QED BY <1>1, <1>5, <2>4, <2>5 DEF StakingKeeps
<1>7. CASE UNCHANGED <<effects, srvAssets>> /\ Goes(c, [c EXCEPT !.step = "answer"])
  <2>1. Goes(c, At(c, "answer", c.got)) /\ effects' = effects
    BY <1>4, <1>7
  <2>2. "answer" \in {"read", "answer"}
    OBVIOUS
  <2>3. /\ OrdersInv'
        /\ \A x \in cmds' : x \in cmds \/ (StakingCommand(x) /\ x.left = c.left)
    BY <1>1, <1>2, <1>3, <2>1, <2>2, StakingGoes
  <2>4. ScreenInv'
    BY <1>1, <1>7 DEF ScreenInv
  <2> QED BY <1>1, <1>5, <2>3, <2>4 DEF StakingKeeps
<1> QED BY <1>1, <1>6, <1>7

LEMMA AssetReadKeeps ==
    ASSUME ScreenInv, OrdersInv, Links, NEW c \in cmds, AssetRead(c)
    PROVE  StakingKeeps
<1>1. /\ StakingCommand(c) /\ UNCHANGED <<effects, faults>>
      /\ UNCHANGED <<srvAssets, shown, reads, claiming, action>>
      /\ Goes(c, At(c, "answer", srvAssets[c.asset]))
  BY DEF AssetRead, stakingVars, At, Overview
<1>2. c \in StakingCmds
  BY <1>1, Kinds DEF OrdersInv
<1>3. srvAssets[c.asset] \in Nat \cup {None} /\ c.left \in BOOLEAN
  BY <1>2 DEF StakingCmds, ScreenInv
<1>4. c.left \/ tab = "staking"
  BY <1>1 DEF Links
<1>5. "answer" \in {"read", "answer"}
  OBVIOUS
<1>6. /\ OrdersInv'
      /\ \A x \in cmds' : x \in cmds \/ (StakingCommand(x) /\ x.left = c.left)
  BY <1>1, <1>2, <1>3, <1>5, StakingGoes
<1>7. ScreenInv'
  BY <1>1 DEF ScreenInv
<1> QED BY <1>1, <1>4, <1>6, <1>7 DEF StakingKeeps

LEMMA LostKeeps ==
    ASSUME ScreenInv, OrdersInv, Links, NEW c \in cmds, StakingLost(c)
    PROVE  StakingKeeps
<1>1. /\ Ends(c) /\ effects' = effects /\ Fault
      /\ claiming' \in {None, claiming} /\ UNCHANGED <<srvAssets, shown, reads, action>>
  BY DEF StakingLost, FlagCleared
<1>2. OrdersInv'
  BY <1>1, FaultBound, CommandEnds
<1>3. ScreenInv'
  BY <1>1 DEF ScreenInv
<1> QED BY <1>1, <1>2, <1>3 DEF StakingKeeps, Ends

\* The next of several claims.
NextClaim(c) == [c EXCEPT !.step = "post", !.order = @ + 1, !.got = None,
                          !.asset = Head(c.rest), !.rest = Tail(c.rest)]

LEMMA NextClaimIsOrdered ==
    ASSUME NEW c \in StakingCmds, c.rest # <<>>, NEW d, d = NextClaim(c)
    PROVE  /\ d \in Commands /\ Span(d) \subseteq Span(c) /\ d.order > c.order
           /\ StakingCommand(d) /\ d.left = c.left
<1>1. /\ c.rest \in Seq(Assets) /\ c.order \in Nat /\ c.kind \in {"claim", "act"}
      /\ c.left \in BOOLEAN
  BY DEF StakingCmds
<1>2. /\ Head(c.rest) \in Assets /\ Tail(c.rest) \in Seq(Assets)
      /\ Len(c.rest) \in Nat /\ Len(Tail(c.rest)) = Len(c.rest) - 1
  BY <1>1
<1>3. /\ d.order = c.order + 1 /\ d.rest = Tail(c.rest) /\ d.kind = c.kind
      /\ d.left = c.left /\ d \in StakingCmds
  <2> DEFINE h == Head(c.rest)
             t == Tail(c.rest)
             n == c.order + 1
             x == [c EXCEPT !.step = "post", !.order = n]
             e == [x EXCEPT !.got = None]
  <2>1. d = [e EXCEPT !.asset = h, !.rest = t]
    BY DEF NextClaim
  <2>5. n \in Nat
    BY <1>1
  <2>6. x \in StakingCmds /\ x.order = n /\ x.kind = c.kind /\ x.left = c.left
    <3> HIDE DEF n
    <3> QED BY <2>5 DEF StakingCmds
  <2> HIDE DEF x
  <2>2. /\ e \in StakingCmds /\ e.order = n /\ e.kind = c.kind /\ e.left = c.left
    <3> HIDE DEF n
    <3> QED BY <2>6 DEF StakingCmds
  <2>3. h \in Assets /\ t \in Seq(Assets)
    BY <1>2
  <2> HIDE DEF e, h, t
  <2>4. /\ d \in StakingCmds /\ d.order = e.order /\ d.rest = t /\ d.kind = e.kind
        /\ d.left = e.left
    BY <2>1, <2>2, <2>3 DEF StakingCmds
  <2> QED BY <2>2, <2>4 DEF t
<1>4. StakingCommand(c) /\ StakingCommand(d)
  BY <1>1, <1>3 DEF StakingCommand
<1>5. /\ Span(c) = c.order..(c.order + Len(c.rest))
      /\ Span(d) = d.order..(d.order + Len(d.rest))
  BY <1>4 DEF Span
<1>6. Span(d) = (c.order + 1)..(c.order + Len(c.rest))
  BY <1>1, <1>2, <1>3, <1>5
<1>7. Span(d) \subseteq Span(c) /\ d.order > c.order
  BY <1>1, <1>2, <1>3, <1>5, <1>6
<1> QED BY <1>3, <1>4, <1>7 DEF Commands

LEMMA AnsweredKeeps ==
    ASSUME ScreenInv, OrdersInv, Links, NEW c \in cmds, StakingAnswered(c)
    PROVE  StakingKeeps
<1>1. StakingCommand(c) /\ UNCHANGED <<effects, faults, srvAssets, reads>>
  BY DEF StakingAnswered
<1>2. c \in StakingCmds
  BY <1>1, Kinds DEF OrdersInv
<1>3. c.got \in Nat \cup {None} /\ c.asset \in Assets /\ c.rest \in Seq(Assets)
  BY <1>2 DEF StakingCmds
<1>4. c.left \/ tab = "staking"
  BY <1>1 DEF Links
<1>5. ScreenInv' /\ (shown' # NoAssets => shown # NoAssets \/ tab = "staking")
  <2>1. claiming' \in Assets \cup {None}
    <3>1. CASE c.rest = <<>>
      BY <3>1 DEF StakingAnswered, FlagCleared, ScreenInv
    <3>2. CASE c.rest # <<>>
      <4>1. Head(c.rest) \in Assets
        BY <1>3, <3>2
      <4> QED BY <3>2, <4>1 DEF StakingAnswered, ScreenInv
    <3> QED BY <3>1, <3>2
  <2>2. CASE c.got = None \/ c.left
    BY <1>1, <2>1, <2>2 DEF StakingAnswered, ScreenInv
  <2>3. CASE ~(c.got = None \/ c.left)
    BY <1>1, <1>3, <1>4, <2>1, <2>3 DEF StakingAnswered, ScreenInv
  <2> QED BY <2>2, <2>3
<1>6. faults' \in 0..MaxFaults
  BY <1>1, FaultBound
<1>7. CASE c.rest = <<>>
  <2>1. Ends(c)
    BY <1>7 DEF StakingAnswered
  <2>2. OrdersInv'
    BY <1>1, <1>6, <2>1, CommandEnds
  <2> QED BY <1>5, <2>1, <2>2 DEF StakingKeeps, Ends
<1>8. CASE c.rest # <<>>
  <2> DEFINE d == NextClaim(c)
             D == {d}
  <2>1. cmds' = (cmds \ {c}) \cup D
    BY <1>8 DEF StakingAnswered, Goes, NextClaim
  <2>2. d = NextClaim(c)
    OBVIOUS
  <2> HIDE DEF d
  <2>3. /\ d \in Commands /\ Span(d) \subseteq Span(c) /\ d.order > c.order
        /\ StakingCommand(d) /\ d.left = c.left
    BY <1>2, <1>8, <2>2, NextClaimIsOrdered
  <2>4. d.order >= c.order
    BY <2>3, <1>2 DEF Commands, GameCmds, StakingCmds, DepositCmds, WithdrawCmds
  <2>5. D \subseteq Commands /\ \A x, y \in D : x = y
    BY <2>3
  <2>6. \A x \in D : /\ Span(x) \subseteq Span(c) /\ x.order >= c.order
                     /\ Early(x) => Early(c) \/ x.order > c.order
    BY <2>3, <2>4
  <2>7. \A x \in cmds' : x \in cmds \/ (StakingCommand(x) /\ x.left = c.left)
    BY <2>1, <2>3
  <2>8. effects' = effects
    BY <1>1
  <2> HIDE DEF D
  <2>9. OrdersInv'
    BY <1>6, <2>1, <2>5, <2>6, <2>8, OrdersGoOn
  <2> QED BY <1>4, <1>5, <2>7, <2>9 DEF StakingKeeps
<1> QED BY <1>7, <1>8

\* A sheet is opened only by a press.
LEMMA StakingStepKeeps ==
    ASSUME ScreenInv, OrdersInv, Links,
           StakingGoesOn \/ (tab = "staking" /\ (ScreenStep \/ ScreenPress))
    PROVE  StakingKeeps
<1>1. ASSUME StakingGoesOn PROVE StakingKeeps
  <2>1. PICK c \in cmds : StakingHandled(c) \/ AssetRead(c) \/ StakingLost(c)
                             \/ StakingAnswered(c)
    BY <1>1 DEF StakingGoesOn
  <2> QED BY <2>1, HandledKeeps, AssetReadKeeps, LostKeeps, AnsweredKeeps
<1>2. ASSUME tab = "staking", ScreenStep PROVE StakingKeeps
  BY <1>2, ReadsKeep, OneOrderKeeps DEF ScreenStep
<1>3. ASSUME tab = "staking", ScreenPress PROVE StakingKeeps
  <2>1. CASE \E a \in Assets : Claim(a)
    BY <1>3, <2>1, OneOrderKeeps
  <2>2. CASE \E a \in Assets : OpenAction(a)
    BY <1>3, <2>2, ReadsKeep
  <2>3. CASE \E a, b \in Assets : a # b /\ ClaimAll(<<a, b>>)
    BY <1>3, <2>3, ClaimAllKeeps
  <2> QED BY <1>3, <2>1, <2>2, <2>3 DEF ScreenPress
<1> QED BY <1>1, <1>2, <1>3

\* Whichever sheet is open: a step that is no press leaves it so or closes it.
LEMMA SheetOpensByPress ==
    ASSUME StakingGoesOn \/ ScreenStep
    PROVE  action' \in {action, None}
<1>1. ASSUME NEW c \in cmds,
             StakingHandled(c) \/ AssetRead(c) \/ StakingLost(c) \/ StakingAnswered(c)
      PROVE  action' \in {action, None}
  <2>1. StakingHandled(c) => action' = action
    BY DEF StakingHandled, screenVars
  <2>2. AssetRead(c) => action' = action
    BY DEF AssetRead, stakingVars
  <2>3. StakingLost(c) => action' = action
    BY DEF StakingLost
  <2>4. StakingAnswered(c) => action' \in {action, None}
    BY DEF StakingAnswered
  <2> QED BY <1>1, <2>1, <2>2, <2>3, <2>4
<1>2. SilentRead \/ SubmitAction => action' = action
  BY DEF SilentRead, SubmitAction, stakingVars
<1>3. CloseAction => action' = None
  BY DEF CloseAction
<1>4. \A r \in reads : OverviewArrives(r) \/ OverviewFails(r) => action' = action
  BY DEF OverviewArrives, OverviewFails
<1> QED BY <1>1, <1>2, <1>3, <1>4 DEF StakingGoesOn, ScreenStep

-----------------------------------------------------------------------------
(* The deposit dialog.                                                      *)

LEMMA IntentFacts ==
    ASSUME DialogInv
    PROVE  /\ Len(intents) \in Nat /\ DOMAIN intents = 1..Len(intents)
           /\ first \in Nat /\ first >= 1 /\ first <= Len(intents) + 1
           /\ \A i \in OfThisOpening : i \in 1..Len(intents) /\ intents[i] \in Statuses
  BY DEF DialogInv, OfThisOpening

\* The server's intents go on: none is lost, and one that has ended stays so.
IntentsGrow ==
    /\ intents' \in Seq(Statuses) /\ Len(intents') >= Len(intents)
    /\ \A i \in 1..Len(intents) : intents[i] # Pending => intents'[i] = intents[i]

LEMMA StatusesSplit == \A s \in Statuses : s # Pending <=> s \in Final
  BY DEF Statuses, Pending, Final

\* An intent that ends, or a new one, which may have become the dialog's.
LEMMA IntentsStep ==
    ASSUME DialogInv, CmdIntents, IntentsGrow,
           UNCHANGED <<open, first, drawn, fired, polls, renders>>,
           \/ next' = next
           \/ next' = [id |-> Len(intents'), status |-> Pending] /\ Len(intents') > Len(intents)
    PROVE  /\ DialogInv'
           /\ \A c \in cmds : Deposit(c) /\ c.step # "create" =>
                 /\ c.id \in OfThisOpening'
                 /\ c.step = "answer" /\ c.seen # Pending => intents'[c.id] = c.seen
<1>1. /\ Len(intents) \in Nat /\ Len(intents') \in Nat /\ Len(intents') >= Len(intents)
      /\ first \in 1..(Len(intents) + 1)
  BY DEF DialogInv, IntentsGrow
<1>2. OfThisOpening \subseteq OfThisOpening' /\ OfThisOpening' = first..Len(intents')
  BY <1>1 DEF OfThisOpening
<1>3. \A i \in OfThisOpening : intents[i] # Pending => intents'[i] = intents[i]
  BY <1>1 DEF IntentsGrow, OfThisOpening
<1>4. next' \in [id : 0..Len(intents'), status : Statuses]
  <2>1. next \in [id : 0..Len(intents'), status : Statuses]
    <3>1. 0..Len(intents) \subseteq 0..Len(intents')
      BY <1>1
    <3> QED BY <3>1 DEF DialogInv
  <2>2. Len(intents') \in 0..Len(intents') /\ Pending \in Statuses
    BY <1>1 DEF Statuses
  <2> QED BY <2>1, <2>2
<1>5. drawn' \in [id : 0..Len(intents'), status : Statuses]
  <2>1. 0..Len(intents) \subseteq 0..Len(intents')
    BY <1>1
  <2> QED BY <2>1 DEF DialogInv
<1>6. first' \in 1..(Len(intents') + 1)
  BY <1>1
<1>7. \A p \in polls : p.live =>
          /\ open /\ p.id \in OfThisOpening'
          /\ p.seen # Pending => intents'[p.id] = p.seen
  <2>1. \A p \in polls : p.live =>
          /\ open /\ p.id \in OfThisOpening
          /\ p.seen # Pending => intents[p.id] = p.seen
    BY DEF DialogInv
  <2> QED BY <2>1, <1>2, <1>3
<1>8. DialogKeepsToItsOpening'
  <2>1. SUFFICES ASSUME open
                 PROVE  /\ {next'.id, drawn.id} \subseteq {0} \cup OfThisOpening'
                        /\ \A status \in {next'.status, drawn.status} \ {Pending} :
                              \E i \in OfThisOpening' : intents'[i] = status
                        /\ fired => \E i \in OfThisOpening' : intents'[i] = "COMPLETED"
    BY DEF DialogKeepsToItsOpening
  <2>2. /\ {next.id, drawn.id} \subseteq {0} \cup OfThisOpening
        /\ \A status \in {next.status, drawn.status} \ {Pending} :
              \E i \in OfThisOpening : intents[i] = status
        /\ fired => \E i \in OfThisOpening : intents[i] = "COMPLETED"
    BY <2>1 DEF DialogInv, DialogKeepsToItsOpening
  <2>3. next'.id \in {0} \cup OfThisOpening'
    <3>1. Len(intents') > Len(intents) => Len(intents') \in first..Len(intents')
      BY <1>1
    <3> QED BY <3>1, <2>2, <1>2
  <2>4. ASSUME NEW status, status # Pending, \E i \in OfThisOpening : intents[i] = status
        PROVE  \E i \in OfThisOpening' : intents'[i] = status
    BY <2>4, <1>2, <1>3
  <2>5. next'.status \in {next.status, Pending}
    OBVIOUS
  <2>6. "COMPLETED" # Pending
    BY DEF Pending
  <2>7. {next'.id, drawn.id} \subseteq {0} \cup OfThisOpening'
    BY <2>2, <2>3, <1>2
  <2>8. ASSUME NEW status \in {next'.status, drawn.status} \ {Pending}
        PROVE  \E i \in OfThisOpening' : intents'[i] = status
    <3>1. status \in {next.status, drawn.status} \ {Pending}
      BY <2>5
    <3>2. \E i \in OfThisOpening : intents[i] = status
      BY <3>1, <2>2
    <3> QED BY <3>1, <3>2, <2>4
  <2>9. fired => \E i \in OfThisOpening' : intents'[i] = "COMPLETED"
    BY <2>2, <2>4, <2>6
  <2> QED BY <2>7, <2>8, <2>9
<1>9. DialogInv'
  BY <1>4, <1>5, <1>6, <1>7, <1>8 DEF DialogInv, IntentsGrow
<1>10. \A c \in cmds : Deposit(c) /\ c.step # "create" =>
          /\ c.id \in OfThisOpening'
          /\ c.step = "answer" /\ c.seen # Pending => intents'[c.id] = c.seen
  <2>1. \A c \in cmds : Deposit(c) /\ c.step # "create" =>
          /\ c.id \in OfThisOpening
          /\ c.step = "answer" /\ c.seen # Pending => intents[c.id] = c.seen
    BY DEF CmdIntents
  <2> QED BY <2>1, <1>2, <1>3
<1> QED BY <1>9, <1>10

\* Nothing but what is asked, set or drawn changes; what is set is of this opening.
LEMMA ShownStep ==
    ASSUME DialogInv, UNCHANGED <<intents, first, open>>,
           fired' \in BOOLEAN, renders' \in Nat,
           {next', drawn'} \subseteq [id : 0..Len(intents), status : Statuses],
           polls' \subseteq [id : Nat, seen : Statuses, live : BOOLEAN],
           \A p \in polls' : p.live =>
              /\ open /\ p.id \in OfThisOpening
              /\ p.seen # Pending => intents[p.id] = p.seen,
           open => /\ {next'.id, drawn'.id} \subseteq {0} \cup OfThisOpening
                   /\ \A status \in {next'.status, drawn'.status} \ {Pending} :
                         \E i \in OfThisOpening : intents[i] = status
                   /\ fired' => \E i \in OfThisOpening : intents[i] = "COMPLETED"
    PROVE  DialogInv'
<1>1. OfThisOpening' = OfThisOpening
  BY DEF OfThisOpening
<1>2. DialogKeepsToItsOpening'
  BY <1>1 DEF DialogKeepsToItsOpening
<1> QED BY <1>1, <1>2 DEF DialogInv

LEMMA CancelledPolls ==
    ASSUME DialogInv
    PROVE  /\ Cancelled \subseteq [id : Nat, seen : Statuses, live : BOOLEAN]
           /\ \A p \in Cancelled : ~p.live
  BY DEF DialogInv, Cancelled

LEMMA OpenDialogKeeps ==
    ASSUME DialogInv, Links, OpenDialog
    PROVE  DialogInv' /\ CmdIntents'
<1>1. /\ ~open /\ open' = TRUE /\ first' = Len(intents) + 1
      /\ next' = Nothing /\ drawn' = Nothing /\ fired' = FALSE
      /\ UNCHANGED <<intents, polls, renders, cmds>>
  BY DEF OpenDialog, ordersVars
<1>2. Nothing.id = 0 /\ Nothing.status = Pending /\ Nothing \in [id : {0}, status : Statuses]
  BY DEF Nothing, Statuses
<1>3. Len(intents) \in Nat
  BY DEF DialogInv
<1>4. Nothing \in [id : 0..Len(intents), status : Statuses]
  <2>1. {0} \subseteq 0..Len(intents)
    BY <1>3
  <2> QED BY <2>1, <1>2
<1>5. \A p \in polls : ~p.live
  BY <1>1 DEF DialogInv
<1>6. DialogKeepsToItsOpening'
  BY <1>1, <1>2 DEF DialogKeepsToItsOpening
<1>7. first' \in 1..(Len(intents) + 1)
  BY <1>1, <1>3
<1>8. DialogInv'
  BY <1>1, <1>4, <1>5, <1>6, <1>7 DEF DialogInv
<1>9. CmdIntents'
  BY <1>1 DEF CmdIntents, Links
<1> QED BY <1>8, <1>9

LEMMA CloseDialogKeeps ==
    ASSUME DialogInv, CloseDialog
    PROVE  DialogInv'
<1>1. /\ open' = FALSE /\ polls' = Cancelled
      /\ UNCHANGED <<intents, first, next, drawn, fired, renders>>
  BY DEF CloseDialog
<1>2. DialogKeepsToItsOpening'
  BY <1>1 DEF DialogKeepsToItsOpening
<1> QED BY <1>1, <1>2, CancelledPolls DEF DialogInv

LEMMA RenderKeeps ==
    ASSUME DialogInv, Render \/ PageRenders
    PROVE  DialogInv'
<1>1. /\ polls' = Cancelled /\ drawn' \in {drawn, next} /\ renders' \in {renders, renders + 1}
      /\ UNCHANGED <<intents, open, first, next, fired>>
  BY DEF Render, PageRenders
<1>2. renders' \in Nat
  BY <1>1 DEF DialogInv
<1>3. {next', drawn'} \subseteq [id : 0..Len(intents), status : Statuses]
  BY <1>1 DEF DialogInv
<1>4. open => /\ {next'.id, drawn'.id} \subseteq {0} \cup OfThisOpening
              /\ \A status \in {next'.status, drawn'.status} \ {Pending} :
                    \E i \in OfThisOpening : intents[i] = status
              /\ fired' => \E i \in OfThisOpening : intents[i] = "COMPLETED"
  BY <1>1 DEF DialogInv, DialogKeepsToItsOpening
<1>5. \A p \in polls' : p.live =>
              /\ open /\ p.id \in OfThisOpening
              /\ p.seen # Pending => intents[p.id] = p.seen
  BY <1>1, CancelledPolls
<1>6. polls' \subseteq [id : Nat, seen : Statuses, live : BOOLEAN]
  BY <1>1, CancelledPolls
<1>7. fired' \in BOOLEAN /\ UNCHANGED <<intents, first, open>>
  BY <1>1 DEF DialogInv
<1> QED BY <1>2, <1>3, <1>4, <1>5, <1>6, <1>7, ShownStep

LEMMA PollSentKeeps ==
    ASSUME DialogInv, PollSent
    PROVE  DialogInv'
<1> DEFINE p == [id |-> drawn.id, seen |-> intents[drawn.id], live |-> TRUE]
<1>1. /\ open /\ drawn.id # 0 /\ polls' = polls \cup {p}
      /\ UNCHANGED <<intents, open, first, next, drawn, fired, renders>>
  BY DEF PollSent
<1>2. drawn.id \in OfThisOpening
  BY <1>1 DEF DialogInv, DialogKeepsToItsOpening
<1>3. p.id = drawn.id /\ p.seen = intents[drawn.id] /\ p.id \in Nat /\ p.seen \in Statuses
  BY <1>2, IntentFacts DEF OfThisOpening
<1>4. polls' \subseteq [id : Nat, seen : Statuses, live : BOOLEAN]
  <2>1. drawn.id \in Nat /\ intents[drawn.id] \in Statuses
    BY <1>3
  <2>2. p \in [id : Nat, seen : Statuses, live : BOOLEAN]
    BY <2>1
  <2>3. polls \subseteq [id : Nat, seen : Statuses, live : BOOLEAN]
    BY DEF DialogInv
  <2> HIDE DEF p
  <2> QED BY <1>1, <2>2, <2>3
<1>5. \A q \in polls' : q.live =>
              /\ open /\ q.id \in OfThisOpening
              /\ q.seen # Pending => intents[q.id] = q.seen
  BY <1>1, <1>2, <1>3 DEF DialogInv
<1>6. {next', drawn'} \subseteq [id : 0..Len(intents), status : Statuses]
  BY <1>1 DEF DialogInv
<1>7. open => /\ {next'.id, drawn'.id} \subseteq {0} \cup OfThisOpening
              /\ \A status \in {next'.status, drawn'.status} \ {Pending} :
                    \E i \in OfThisOpening : intents[i] = status
              /\ fired' => \E i \in OfThisOpening : intents[i] = "COMPLETED"
  BY <1>1 DEF DialogInv, DialogKeepsToItsOpening
<1>8. fired' \in BOOLEAN /\ renders' \in Nat /\ UNCHANGED <<intents, first, open>>
  BY <1>1 DEF DialogInv
<1> QED BY <1>4, <1>5, <1>6, <1>7, <1>8, ShownStep

LEMMA PollArrivesKeeps ==
    ASSUME DialogInv, NEW p \in polls, PollArrives(p) \/ PollLost(p)
    PROVE  DialogInv'
<1>1. /\ polls' = polls \ {p} /\ UNCHANGED <<intents, open, first, drawn, renders>>
      /\ \/ UNCHANGED <<next, fired>>
         \/ /\ p.live /\ next' = [next EXCEPT !.status = p.seen]
            /\ fired' = (fired \/ p.seen = "COMPLETED")
  BY DEF PollArrives, PollLost, shownVars
<1>2. /\ next \in [id : 0..Len(intents), status : Statuses] /\ p.seen \in Statuses
      /\ drawn \in [id : 0..Len(intents), status : Statuses]
      /\ p.live => /\ open /\ p.id \in OfThisOpening
                   /\ p.seen # Pending => intents[p.id] = p.seen
      /\ fired \in BOOLEAN /\ renders \in Nat
  BY DEF DialogInv
<1>3. \/ next' = next
      \/ next' \in [id : 0..Len(intents), status : Statuses] /\ next'.id = next.id /\ next'.status = p.seen
  BY <1>1, <1>2
<1>4. {next', drawn'} \subseteq [id : 0..Len(intents), status : Statuses]
  BY <1>1, <1>2, <1>3
<1>5. open => /\ {next'.id, drawn'.id} \subseteq {0} \cup OfThisOpening
              /\ \A status \in {next'.status, drawn'.status} \ {Pending} :
                    \E i \in OfThisOpening : intents[i] = status
              /\ fired' => \E i \in OfThisOpening : intents[i] = "COMPLETED"
  <2>1. SUFFICES ASSUME open
                 PROVE  /\ {next'.id, drawn'.id} \subseteq {0} \cup OfThisOpening
                        /\ \A status \in {next'.status, drawn'.status} \ {Pending} :
                              \E i \in OfThisOpening : intents[i] = status
                        /\ fired' => \E i \in OfThisOpening : intents[i] = "COMPLETED"
    OBVIOUS
  <2>2. /\ {next.id, drawn.id} \subseteq {0} \cup OfThisOpening
        /\ \A status \in {next.status, drawn.status} \ {Pending} :
              \E i \in OfThisOpening : intents[i] = status
        /\ fired => \E i \in OfThisOpening : intents[i] = "COMPLETED"
    BY <2>1 DEF DialogInv, DialogKeepsToItsOpening
  <2>3. CASE UNCHANGED <<next, fired>>
    BY <2>2, <2>3, <1>1
  <2>4. CASE /\ p.live /\ next' = [next EXCEPT !.status = p.seen]
             /\ fired' = (fired \/ p.seen = "COMPLETED")
    <3>1. next'.id = next.id /\ next'.status = p.seen
      BY <2>4, <1>2
    <3>2. p.seen # Pending => \E i \in OfThisOpening : intents[i] = p.seen
      BY <2>4, <1>2
    <3>3. fired' => \E i \in OfThisOpening : intents[i] = "COMPLETED"
      BY <2>2, <2>4, <3>2 DEF Pending
    <3> QED BY <2>2, <3>1, <3>2, <3>3, <1>1
  <2> QED BY <2>3, <2>4, <1>1
<1>6. /\ polls' \subseteq [id : Nat, seen : Statuses, live : BOOLEAN]
      /\ \A q \in polls' : q.live =>
              /\ open /\ q.id \in OfThisOpening
              /\ q.seen # Pending => intents[q.id] = q.seen
  BY <1>1 DEF DialogInv
<1>7. fired' \in BOOLEAN /\ renders' \in Nat /\ UNCHANGED <<intents, first, open>>
  BY <1>1, <1>2
<1> QED BY <1>4, <1>5, <1>6, <1>7, ShownStep

\* What a step of the dialog keeps, and what the other screens see of it.
DialogKeeps ==
    /\ DialogInv' /\ OrdersInv' /\ CmdIntents'
    /\ open' => open
    /\ \A c \in cmds' : Deposit(c) => open'
    /\ \A c \in cmds' : c \in cmds \/ Deposit(c)

\* A command of the dialog at its next step.
Stepped(c, step, id, seen) == [c EXCEPT !.step = step, !.id = id, !.seen = seen]

LaterSteps == {"wallet", "submit", "cancel", "answer"}
LEMMA DepositStepped ==
    ASSUME NEW c \in DepositCmds, NEW step \in LaterSteps,
           NEW id \in Nat, NEW seen \in Statuses, NEW d, d = Stepped(c, step, id, seen)
    PROVE  /\ d \in DepositCmds /\ d.order = c.order /\ d.kind = c.kind
           /\ d.step = step /\ d.id = id /\ d.seen = seen
<1>1. seen \in {Pending} \cup Final
  BY DEF Statuses
<1>2. step \in {"create", "wallet", "submit", "cancel", "answer"}
  BY DEF LaterSteps
<1> DEFINE e == [c EXCEPT !.step = step]
<1>3. e \in DepositCmds /\ e.order = c.order /\ e.kind = c.kind /\ e.step = step
  BY <1>2 DEF DepositCmds
<1>4. d = [e EXCEPT !.id = id, !.seen = seen]
  BY DEF Stepped
<1> HIDE DEF e
<1>5. /\ d \in DepositCmds /\ d.order = e.order /\ d.kind = e.kind
      /\ d.step = e.step /\ d.id = id /\ d.seen = seen
  BY <1>1, <1>3, <1>4 DEF DepositCmds
<1> QED BY <1>3, <1>5

LEMMA DepositOrders ==
    ASSUME OrdersInv, NEW c \in cmds, c \in DepositCmds,
           NEW d \in DepositCmds, d.order = c.order, d.step # "create",
           Goes(c, d), faults' \in 0..MaxFaults,
           effects' = effects \/ (Carried(c.order) /\ c.step = "create")
    PROVE  OrdersInv'
<1>1. c.kind \in {"stars", "ton"} /\ d.kind \in {"stars", "ton"} /\ d.order \in Nat
      /\ d.step \in {"wallet", "submit", "cancel", "answer"}
  BY DEF DepositCmds
<1>2. ~StakingCommand(c) /\ ~StakingCommand(d) /\ d \in Commands
  BY <1>1 DEF StakingCommand, Commands
<1>3. Span(d) = Span(c) /\ d.order >= c.order /\ ~Early(d)
  BY <1>1, <1>2 DEF Span, Early
<1> DEFINE D == {d}
<1>4. /\ D \subseteq Commands /\ cmds' = (cmds \ {c}) \cup D
      /\ \A x, y \in D : x = y
  BY <1>2 DEF Goes
<1>5. \A x \in D : /\ Span(x) \subseteq Span(c) /\ x.order >= c.order
                   /\ Early(x) => Early(c) \/ x.order > c.order
  BY <1>3
<1>6. \A x \in D : /\ Span(x) \subseteq Span(c) /\ x.order >= c.order
                   /\ Early(x) => x.order > c.order
  BY <1>3
<1> HIDE DEF D
<1>7. ASSUME effects' = effects PROVE OrdersInv'
  BY <1>4, <1>5, <1>7, OrdersGoOn
<1>8. ASSUME Carried(c.order), c.step = "create" PROVE OrdersInv'
  <2>1. Early(c)
    BY <1>8 DEF Early
  <2> QED BY <1>4, <1>6, <1>8, <2>1, OrdersCarry
<1> QED BY <1>7, <1>8

\* A command of the dialog ends or goes on, and the intents with it.
LEMMA DepositGoes ==
    ASSUME DialogInv, CmdIntents, Links, IntentsGrow, OrdersInv',
           UNCHANGED <<open, first, drawn, fired, polls, renders>>,
           \/ next' = next
           \/ next' = [id |-> Len(intents'), status |-> Pending] /\ Len(intents') > Len(intents),
           NEW c \in cmds, Deposit(c),
           \A d \in cmds' : \/ d \in cmds
                            \/ /\ Deposit(d) /\ d.id \in OfThisOpening'
                               /\ d.step = "answer" /\ d.seen # Pending => intents'[d.id] = d.seen
    PROVE  DialogKeeps
<1>1. /\ DialogInv'
      /\ \A d \in cmds : Deposit(d) /\ d.step # "create" =>
            /\ d.id \in OfThisOpening'
            /\ d.step = "answer" /\ d.seen # Pending => intents'[d.id] = d.seen
  BY IntentsStep
<1>2. CmdIntents'
  BY <1>1 DEF CmdIntents, Deposit
<1>3. open
  BY DEF Links
<1> QED BY <1>1, <1>2, <1>3 DEF DialogKeeps

LEMMA CreatesGrows ==
    ASSUME DialogInv, intents' = Append(intents, Pending)
    PROVE  /\ IntentsGrow /\ Len(intents') = NewId /\ NewId > Len(intents) /\ NewId \in Nat
           /\ NewId \in OfThisOpening' \/ first' # first
<1>1. intents \in Seq(Statuses) /\ Pending \in Statuses /\ Len(intents) \in Nat
      /\ first \in 1..(Len(intents) + 1)
  BY DEF DialogInv, Statuses
<1>2. /\ intents' \in Seq(Statuses) /\ Len(intents') = Len(intents) + 1
      /\ \A i \in 1..Len(intents) : intents'[i] = intents[i]
  BY <1>1
<1>3. first' = first => NewId \in first'..Len(intents')
  BY <1>1, <1>2 DEF NewId
<1> QED BY <1>1, <1>2, <1>3 DEF IntentsGrow, NewId, OfThisOpening

\* The intents do not grow without an answer that creates one.
LEMMA SameGrows ==
    ASSUME DialogInv, UNCHANGED intents
    PROVE  IntentsGrow
  BY DEF DialogInv, IntentsGrow

LEMMA PayKeeps ==
    ASSUME DialogInv, OrdersInv, CmdIntents, Links, NEW kind \in {"stars", "ton"}, Pay(kind)
    PROVE  DialogKeeps
<1> DEFINE d == [order |-> Next1, kind |-> kind, step |-> "create", id |-> 0, seen |-> Pending]
<1>1. open /\ Order(d) /\ UNCHANGED dialogVars /\ cmds' = cmds \cup {d}
  BY DEF Pay, Order
<1>2. Next1 \in Nat
  BY DEF OrdersInv, Next1
<1>3. d \in DepositCmds /\ d.order = Next1 /\ d.step = "create" /\ d.kind = kind
  BY <1>2 DEF DepositCmds
<1> HIDE DEF d
<1>4. d \in Commands /\ ~StakingCommand(d) /\ Deposit(d)
  BY <1>3 DEF Commands, StakingCommand, Deposit
<1>5. OrdersInv'
  BY <1>1, <1>3, <1>4, OrdersOrder
<1>6. DialogInv' /\ UNCHANGED <<open, first, intents>>
  BY <1>1, DialogStays DEF dialogVars
<1>7. CmdIntents'
  BY <1>1, <1>3, <1>6 DEF CmdIntents, OfThisOpening
<1> QED BY <1>1, <1>4, <1>5, <1>6, <1>7 DEF DialogKeeps, Links

LEMMA StarsKeeps ==
    ASSUME DialogInv, OrdersInv, CmdIntents, Links, NEW c \in cmds, StarsAnswered(c)
    PROVE  DialogKeeps
<1>1. /\ Deposit(c) /\ c.step = "create" /\ Ends(c) /\ Carried(c.order)
      /\ intents' = Append(intents, Pending)
      /\ next' = [id |-> NewId, status |-> Pending]
      /\ UNCHANGED <<faults, fired, polls, open, first, drawn, renders>>
  BY DEF StarsAnswered, Becomes, Creates, shownVars, Deposit
<1>2. OrdersInv'
  BY <1>1, FaultBound, CommandEnds DEF Early
<1>3. IntentsGrow /\ Len(intents') = NewId /\ NewId > Len(intents)
  BY <1>1, CreatesGrows
<1>4. \A d \in cmds' : \/ d \in cmds
                       \/ /\ Deposit(d) /\ d.id \in OfThisOpening'
                          /\ d.step = "answer" /\ d.seen # Pending => intents'[d.id] = d.seen
  BY <1>1 DEF Ends
<1>5. next' = [id |-> Len(intents'), status |-> Pending] /\ Len(intents') > Len(intents)
  BY <1>1, <1>3
<1>6. UNCHANGED <<open, first, drawn, fired, polls, renders>>
  BY <1>1
<1> QED BY <1>1, <1>2, <1>3, <1>4, <1>5, <1>6, DepositGoes

LEMMA TonKeeps ==
    ASSUME DialogInv, OrdersInv, CmdIntents, Links, NEW c \in cmds, TonAnswered(c)
    PROVE  DialogKeeps
<1> DEFINE d == Stepped(c, "wallet", NewId, c.seen)
<1>1. /\ Deposit(c) /\ c.step = "create" /\ Carried(c.order)
      /\ intents' = Append(intents, Pending)
      /\ next' = [id |-> NewId, status |-> Pending]
      /\ UNCHANGED <<faults, fired, polls, open, first, drawn, renders>>
  BY DEF TonAnswered, Becomes, Creates, shownVars, Deposit
<1>2. c \in DepositCmds
  BY <1>1, Kinds DEF OrdersInv
<1>3. IntentsGrow /\ Len(intents') = NewId /\ NewId > Len(intents) /\ NewId \in Nat
      /\ NewId \in OfThisOpening'
  BY <1>1, CreatesGrows
<1>4. [c EXCEPT !.step = "wallet", !.id = NewId] = d
  BY <1>2 DEF DepositCmds, Stepped
<1>5. Goes(c, d)
  BY <1>4 DEF TonAnswered
<1>6. c.seen \in Statuses
  BY <1>2 DEF DepositCmds, Statuses
<1>7. d = Stepped(c, "wallet", NewId, c.seen)
  OBVIOUS
<1> HIDE DEF d
<1>8. d \in DepositCmds /\ d.order = c.order /\ d.kind = c.kind /\ d.step = "wallet" /\ d.id = NewId
  <2>1. "wallet" \in LaterSteps /\ NewId \in Nat
    BY <1>3 DEF LaterSteps
  <2> QED BY <1>2, <1>6, <1>7, <2>1, DepositStepped
<1>9. OrdersInv'
  BY <1>1, <1>2, <1>5, <1>8, FaultBound, DepositOrders
<1>10. \A x \in cmds' : \/ x \in cmds
                        \/ /\ Deposit(x) /\ x.id \in OfThisOpening'
                           /\ x.step = "answer" /\ x.seen # Pending => intents'[x.id] = x.seen
  BY <1>1, <1>3, <1>5, <1>8 DEF Goes, Deposit
<1>11. next' = [id |-> Len(intents'), status |-> Pending] /\ Len(intents') > Len(intents)
  BY <1>1, <1>3
<1>12. UNCHANGED <<open, first, drawn, fired, polls, renders>>
  BY <1>1
<1> QED BY <1>1, <1>3, <1>9, <1>10, <1>11, <1>12, DepositGoes

LEMMA NotCreatedKeeps ==
    ASSUME DialogInv, OrdersInv, CmdIntents, Links, NEW c \in cmds, NotCreated(c)
    PROVE  DialogKeeps
<1>1. /\ Deposit(c) /\ c.step = "create" /\ Ends(c)
      /\ UNCHANGED <<next, open, first, drawn, fired, polls, renders>>
      /\ \/ UNCHANGED <<effects, intents, faults>>
         \/ Fault /\ Carried(c.order) /\ intents' = Append(intents, Pending)
         \/ Fault /\ UNCHANGED <<effects, intents>>
  BY DEF NotCreated, Creates, shownVars, Deposit
<1>2. faults' \in 0..MaxFaults /\ (effects' = effects \/ (Carried(c.order) /\ Early(c)))
  BY <1>1, FaultBound DEF Early
<1>3. OrdersInv'
  BY <1>1, <1>2, CommandEnds
<1>4. IntentsGrow
  BY <1>1, CreatesGrows, SameGrows
<1>5. \A d \in cmds' : \/ d \in cmds
                       \/ /\ Deposit(d) /\ d.id \in OfThisOpening'
                          /\ d.step = "answer" /\ d.seen # Pending => intents'[d.id] = d.seen
  BY <1>1 DEF Ends
<1>6. UNCHANGED <<open, first, drawn, fired, polls, renders>>
  BY <1>1
<1>7. next' = next
  BY <1>1
<1> QED BY <1>1, <1>3, <1>4, <1>5, <1>6, <1>7, DepositGoes

\* A command that ends, and nothing else but a fault.
LEMMA DepositGivenUp ==
    ASSUME DialogInv, OrdersInv, CmdIntents, Links, NEW c \in cmds, Deposit(c), Ends(c),
           faults' \in 0..MaxFaults, UNCHANGED effects, IntentsGrow,
           UNCHANGED <<next, open, first, drawn, fired, polls, renders>>
    PROVE  DialogKeeps
<1>1. OrdersInv'
  BY CommandEnds
<1>2. \A d \in cmds' : \/ d \in cmds
                       \/ /\ Deposit(d) /\ d.id \in OfThisOpening'
                          /\ d.step = "answer" /\ d.seen # Pending => intents'[d.id] = d.seen
  BY DEF Ends
<1>3. UNCHANGED <<open, first, drawn, fired, polls, renders>> /\ next' = next
  OBVIOUS
<1> QED BY <1>1, <1>2, <1>3, DepositGoes

LEMMA WalletKeeps ==
    ASSUME DialogInv, OrdersInv, CmdIntents, Links, NEW c \in cmds, WalletAnswered(c)
    PROVE  DialogKeeps
<1>1. /\ Deposit(c) /\ c.step = "wallet" /\ UNCHANGED <<effects, faults>>
      /\ UNCHANGED <<intents, next, open, first, drawn, fired, polls, renders>>
      /\ \/ \E step \in {"submit", "cancel"} : Goes(c, [c EXCEPT !.step = step])
         \/ Ends(c)
  BY DEF WalletAnswered, dialogVars
<1>2. c \in DepositCmds
  BY <1>1, Kinds DEF OrdersInv
<1>3. faults' \in 0..MaxFaults /\ IntentsGrow
  BY <1>1, FaultBound, SameGrows
<1>4. CASE Ends(c)
  BY <1>1, <1>3, <1>4, DepositGivenUp
<1>5. ASSUME NEW step \in {"submit", "cancel"}, Goes(c, [c EXCEPT !.step = step])
      PROVE  DialogKeeps
  <2> DEFINE d == Stepped(c, step, c.id, c.seen)
  <2>1. [c EXCEPT !.step = step] = d
    BY <1>2 DEF DepositCmds, Stepped
  <2>2. Goes(c, d) /\ d = Stepped(c, step, c.id, c.seen)
    BY <1>5, <2>1
  <2>3. c.seen \in Statuses /\ c.id \in Nat /\ step \in LaterSteps
    BY <1>2 DEF DepositCmds, Statuses, LaterSteps
  <2> HIDE DEF d
  <2>4. d \in DepositCmds /\ d.order = c.order /\ d.kind = c.kind /\ d.step = step /\ d.id = c.id
    BY <1>2, <2>2, <2>3, DepositStepped
  <2>5. OrdersInv'
    BY <1>1, <1>2, <1>3, <2>2, <2>4, DepositOrders
  <2>6. c.id \in OfThisOpening'
    BY <1>1 DEF CmdIntents, OfThisOpening
  <2>7. \A x \in cmds' : \/ x \in cmds
                         \/ /\ Deposit(x) /\ x.id \in OfThisOpening'
                            /\ x.step = "answer" /\ x.seen # Pending => intents'[x.id] = x.seen
    BY <1>1, <2>2, <2>4, <2>6 DEF Goes, Deposit
  <2>8. UNCHANGED <<open, first, drawn, fired, polls, renders>> /\ next' = next
    BY <1>1
  <2> QED BY <1>1, <1>3, <2>5, <2>7, <2>8, DepositGoes
<1> QED BY <1>1, <1>4, <1>5

LEMMA ServerKeeps ==
    ASSUME DialogInv, OrdersInv, CmdIntents, Links, NEW c \in cmds, ServerHandles(c)
    PROVE  DialogKeeps
<1>1. PICK status \in Outcomes(c) :
          /\ intents' = [intents EXCEPT ![c.id] = status]
          /\ \/ cmds' = (cmds \ {c}) \cup {[c EXCEPT !.step = "answer", !.seen = status]}
                /\ UNCHANGED faults
             \/ Fault /\ Ends(c)
  BY Zenon DEF ServerHandles, Goes
<1>2. /\ Deposit(c) /\ c.step \in {"submit", "cancel"} /\ UNCHANGED effects
      /\ UNCHANGED <<next, open, first, drawn, fired, polls, renders>>
  BY DEF ServerHandles, shownVars
<1>3. c \in DepositCmds
  BY <1>2, Kinds DEF OrdersInv
<1>4. c.id \in OfThisOpening
  BY <1>2 DEF CmdIntents
<1>5. c.id \in 1..Len(intents) /\ intents[c.id] \in Statuses
  BY <1>4, IntentFacts
<1>6. status \in Statuses /\ (intents[c.id] # Pending => status = intents[c.id])
  BY <1>5 DEF Outcomes, Statuses, Final
<1>7. /\ IntentsGrow /\ Len(intents') = Len(intents) /\ intents'[c.id] = status
  BY <1>1, <1>5, <1>6 DEF IntentsGrow, DialogInv
<1>8. faults' \in 0..MaxFaults
  BY <1>1, FaultBound
<1>9. CASE Ends(c)
  BY <1>2, <1>7, <1>8, <1>9, DepositGivenUp
<1>10. CASE cmds' = (cmds \ {c}) \cup {[c EXCEPT !.step = "answer", !.seen = status]}
  <2> DEFINE d == Stepped(c, "answer", c.id, status)
  <2>1. [c EXCEPT !.step = "answer", !.seen = status] = d
    BY <1>3 DEF DepositCmds, Stepped
  <2>2. Goes(c, d) /\ d = Stepped(c, "answer", c.id, status)
    BY <1>10, <2>1 DEF Goes
  <2>3. c.id \in Nat /\ "answer" \in LaterSteps
    BY <1>3 DEF DepositCmds, LaterSteps
  <2> HIDE DEF d
  <2>4. /\ d \in DepositCmds /\ d.order = c.order /\ d.kind = c.kind /\ d.step = "answer"
        /\ d.id = c.id /\ d.seen = status
    BY <1>3, <1>6, <2>2, <2>3, DepositStepped
  <2>5. OrdersInv'
    BY <1>2, <1>3, <1>8, <2>2, <2>4, DepositOrders
  <2>6. c.id \in OfThisOpening'
    BY <1>2, <1>4, <1>7 DEF OfThisOpening
  <2>7. \A x \in cmds' : \/ x \in cmds
                         \/ /\ Deposit(x) /\ x.id \in OfThisOpening'
                            /\ x.step = "answer" /\ x.seen # Pending => intents'[x.id] = x.seen
    BY <1>2, <1>7, <2>2, <2>4, <2>6 DEF Goes, Deposit
  <2>8. UNCHANGED <<open, first, drawn, fired, polls, renders>> /\ next' = next
    BY <1>2
  <2> QED BY <1>2, <1>7, <2>5, <2>7, <2>8, DepositGoes
<1> QED BY <1>1, <1>9, <1>10

LEMMA OutcomeKeeps ==
    ASSUME DialogInv, OrdersInv, CmdIntents, Links, NEW c \in cmds, OutcomeAnswered(c)
    PROVE  DialogKeeps
<1>1. /\ Deposit(c) /\ c.step = "answer" /\ Ends(c) /\ UNCHANGED <<effects, faults>>
      /\ next' = [id |-> c.id, status |-> c.seen]
      /\ UNCHANGED <<intents, fired, polls, open, first, drawn, renders>>
  BY DEF OutcomeAnswered, shownVars
<1>2. c \in DepositCmds
  BY <1>1, Kinds DEF OrdersInv
<1>3. c.seen \in Statuses
  BY <1>2 DEF DepositCmds, Statuses
<1>4. c.id \in OfThisOpening /\ (c.seen # Pending => intents[c.id] = c.seen)
  BY <1>1 DEF CmdIntents
<1>5. c.id \in 0..Len(intents)
  <2>1. c.id \in 1..Len(intents) /\ Len(intents) \in Nat
    BY <1>4, IntentFacts
  <2> QED BY <2>1
<1>6. next' \in [id : 0..Len(intents), status : Statuses] /\ next'.id = c.id /\ next'.status = c.seen
  BY <1>1, <1>3, <1>5
<1>7. {next', drawn'} \subseteq [id : 0..Len(intents), status : Statuses]
  BY <1>1, <1>6 DEF DialogInv
<1>8. open => /\ {next'.id, drawn'.id} \subseteq {0} \cup OfThisOpening
              /\ \A status \in {next'.status, drawn'.status} \ {Pending} :
                    \E i \in OfThisOpening : intents[i] = status
              /\ fired' => \E i \in OfThisOpening : intents[i] = "COMPLETED"
  BY <1>1, <1>4, <1>6 DEF DialogInv, DialogKeepsToItsOpening
<1>9. /\ fired' \in BOOLEAN /\ renders' \in Nat /\ UNCHANGED <<intents, first, open>>
      /\ polls' \subseteq [id : Nat, seen : Statuses, live : BOOLEAN]
      /\ \A p \in polls' : p.live =>
              /\ open /\ p.id \in OfThisOpening
              /\ p.seen # Pending => intents[p.id] = p.seen
  BY <1>1 DEF DialogInv
<1>10. DialogInv'
  BY <1>7, <1>8, <1>9, ShownStep
<1>11. OrdersInv'
  BY <1>1, FaultBound, CommandEnds
<1>12. CmdIntents'
  BY <1>1, CmdIntentsStay DEF Ends
<1> QED BY <1>1, <1>10, <1>11, <1>12 DEF DialogKeeps, Links, Ends

LEMMA IntentEndsKeeps ==
    ASSUME DialogInv, CmdIntents, IntentEnds
    PROVE  DialogInv' /\ CmdIntents'
<1>1. PICK i \in DOMAIN intents, status \in Final :
          intents[i] = Pending /\ intents' = [intents EXCEPT ![i] = status]
  BY DEF IntentEnds
<1>2. UNCHANGED <<cmds, open, first, next, drawn, fired, polls, renders>>
  BY DEF IntentEnds, ordersVars
<1>3. IntentsGrow
  <2>1. status \in Statuses /\ intents \in Seq(Statuses) /\ i \in 1..Len(intents)
    BY DEF Statuses, DialogInv
  <2> QED BY <1>1, <2>1 DEF IntentsGrow
<1>4. UNCHANGED <<open, first, drawn, fired, polls, renders>> /\ next' = next
  BY <1>2
<1>5. /\ DialogInv'
      /\ \A d \in cmds : Deposit(d) /\ d.step # "create" =>
            /\ d.id \in OfThisOpening'
            /\ d.step = "answer" /\ d.seen # Pending => intents'[d.id] = d.seen
  BY <1>3, <1>4, IntentsStep
<1> QED BY <1>2, <1>5 DEF CmdIntents, Deposit

LEMMA DialogStepKeeps ==
    ASSUME DialogInv, OrdersInv, CmdIntents, Links, DialogStep
    PROVE  DialogKeeps
<1>1. ASSUME NEW c \in cmds,
             StarsAnswered(c) \/ TonAnswered(c) \/ NotCreated(c) \/ WalletAnswered(c)
             \/ ServerHandles(c) \/ OutcomeRefused(c) \/ OutcomeAnswered(c)
      PROVE  DialogKeeps
  <2>1. CASE OutcomeRefused(c)
    <3>1. /\ Deposit(c) /\ Ends(c) /\ UNCHANGED <<effects, faults, intents>>
          /\ UNCHANGED <<next, open, first, drawn, fired, polls, renders>>
      BY <2>1 DEF OutcomeRefused, dialogVars
    <3>2. faults' \in 0..MaxFaults /\ IntentsGrow
      BY <3>1, FaultBound, SameGrows
    <3> QED BY <3>1, <3>2, DepositGivenUp
  <2> QED BY <1>1, <2>1, StarsKeeps, TonKeeps, NotCreatedKeeps, WalletKeeps, ServerKeeps, OutcomeKeeps
<1>2. CASE PayStars \/ PayTon
  BY <1>2, PayKeeps DEF PayStars, PayTon
<1>3. ASSUME DialogInv', CmdIntents', UNCHANGED <<effects, cmds>>, faults' \in 0..MaxFaults,
             open' = open \/ (open' = FALSE /\ ~Paying)
      PROVE  DialogKeeps
  BY <1>3, OrdersStay DEF DialogKeeps, Links, Paying
<1>4. CASE CloseDialog
  <2>1. /\ UNCHANGED <<effects, cmds, faults, first, intents>> /\ open' = FALSE /\ ~Paying
    BY <1>4 DEF CloseDialog, ordersVars
  <2> QED BY <1>3, <1>4, <2>1, CloseDialogKeeps, CmdIntentsStay, FaultBound
<1>5. CASE Render \/ PageRenders
  <2>1. UNCHANGED <<effects, cmds, faults, first, intents, open>>
    BY <1>5 DEF Render, PageRenders, ordersVars
  <2> QED BY <1>3, <1>5, <2>1, RenderKeeps, CmdIntentsStay, FaultBound
<1>6. CASE PollSent
  <2>1. UNCHANGED <<effects, cmds, faults, first, intents, open>>
    BY <1>6 DEF PollSent, ordersVars
  <2> QED BY <1>3, <1>6, <2>1, PollSentKeeps, CmdIntentsStay, FaultBound
<1>7. CASE IntentEnds
  <2>1. UNCHANGED <<effects, cmds, faults, open>>
    BY <1>7 DEF IntentEnds, ordersVars
  <2> QED BY <1>3, <1>7, <2>1, IntentEndsKeeps, FaultBound
<1>8. ASSUME NEW p \in polls, PollArrives(p) \/ PollLost(p)
      PROVE  DialogKeeps
  <2>1. /\ UNCHANGED <<effects, cmds, first, intents, open>> /\ (faults' = faults \/ Fault)
    BY <1>8 DEF PollArrives, PollLost, ordersVars, shownVars
  <2>2. faults' \in 0..MaxFaults
    BY <2>1, FaultBound
  <2>3. CmdIntents'
    BY <2>1, CmdIntentsStay
  <2> QED BY <1>3, <1>8, <2>1, <2>2, <2>3, PollArrivesKeeps
<1> QED BY <1>1, <1>2, <1>4, <1>5, <1>6, <1>7, <1>8 DEF DialogStep

-----------------------------------------------------------------------------
(* The launch and the tabs.                                                 *)

LEMMA TriesSplit ==
    ASSUME LaunchInv
    PROVE  /\ tries.telegram \in 0..MaxAttempts /\ tries.data \in 0..MaxInitDataAttempts
           /\ tries.auth \in 0..MaxAuthAttempts
           /\ MaxAttempts \in Nat \ {0} /\ MaxInitDataAttempts \in Nat \ {0}
           /\ MaxAuthAttempts \in Nat \ {0}
  BY AttemptsAssumption DEF LaunchInv, LaunchTypeOK

LEMMA LoginKeeps ==
    ASSUME LaunchInv, Login
    PROVE  LaunchInv'
<1> DEFINE t == tries'.telegram
           d == tries'.data
           a == tries'.auth
           Tried(x, y, z) == tries' = [telegram |-> x, data |-> y, auth |-> z]
<1>1. /\ tries.telegram \in 0..MaxAttempts /\ tries.data \in 0..MaxInitDataAttempts
      /\ tries.auth \in 0..MaxAuthAttempts
      /\ MaxAttempts \in Nat \ {0} /\ MaxInitDataAttempts \in Nat \ {0}
      /\ MaxAuthAttempts \in Nat \ {0}
  BY TriesSplit
<1>2. /\ tries = [telegram |-> tries.telegram, data |-> tries.data, auth |-> tries.auth]
      /\ auth \in {"idle", "loading", "ready", "error"} /\ session \in BOOLEAN
      /\ (auth \in {"ready", "error"}) <=> (awaits = "nothing")
      /\ awaits \in {"timer", "telegram"} =>
            /\ tries.telegram < MaxAttempts /\ tries.data < MaxInitDataAttempts
            /\ tries.auth < MaxAuthAttempts
      /\ auth = "ready" => session
      /\ stage # "off" => auth = "ready"
      /\ stage \in {"off", "modules", "assets", "images", "data", "splash", "over"}
      /\ images \in [Images -> {"due", "ok", "stuck"}]
  BY DEF LaunchInv, LaunchTypeOK
<1>3. awaits # "nothing" /\ UNCHANGED <<stage, images>>
  BY DEF Login, InitLogin, TelegramAuthAnswered, DevAuthChecked, DevAuthAnswered, Attempt,
         RetryLater, Loading, Ready, Failed, LoginEnds, AuthRefused
<1>4. stage = "off"
  BY <1>2, <1>3
<1>5. \* What becomes of the counters.
      \/ /\ awaits' = "nothing" /\ auth' \in {"ready", "error"} /\ tries' = NoTries
         /\ session' \in BOOLEAN /\ (auth' = "ready" => session')
      \/ /\ awaits' \in {"timer", "telegram", "devCheck", "devAuth"} /\ session' = session
         /\ auth' \in {auth, "loading"} /\ tries' = tries
         /\ awaits' \in {"timer", "telegram"} => awaits \in {"timer", "telegram"}
      \/ /\ awaits = "timer" /\ session' = session /\ auth' \in {auth, "loading"}
         /\ \/ Attempt("telegram", MaxAttempts)
            \/ Attempt("data", MaxInitDataAttempts)
      \/ /\ awaits = "telegram" /\ awaits' = "timer" /\ session' = session /\ auth' = auth
         /\ tries.auth + 1 < MaxAuthAttempts /\ tries' = [tries EXCEPT !.auth = @ + 1]
  <2>1. CASE InitLogin
    BY <2>1, <1>2 DEF InitLogin, Attempt, RetryLater, Loading
  <2>2. CASE TelegramAuthAnswered
    BY <2>2, <1>2 DEF TelegramAuthAnswered, Ready, AuthRefused, Failed, LoginEnds, RetryLater
  <2>3. CASE DevAuthChecked
    BY <2>3, <1>2 DEF DevAuthChecked, Loading, Failed, LoginEnds
  <2>4. CASE DevAuthAnswered
    BY <2>4, <1>2 DEF DevAuthAnswered, Ready, Failed, LoginEnds
  <2> QED BY <2>1, <2>2, <2>3, <2>4 DEF Login
<1>6. ASSUME awaits' = "nothing", auth' \in {"ready", "error"}, tries' = NoTries,
             session' \in BOOLEAN, auth' = "ready" => session'
      PROVE  LaunchInv'
  BY <1>1, <1>2, <1>3, <1>4, <1>6 DEF LaunchInv, LaunchTypeOK, NoTries
<1>7. ASSUME awaits' \in {"timer", "telegram", "devCheck", "devAuth"}, session' = session,
             auth' \in {auth, "loading"}, tries' = tries,
             awaits' \in {"timer", "telegram"} => awaits \in {"timer", "telegram"}
      PROVE  LaunchInv'
  BY <1>1, <1>2, <1>3, <1>4, <1>7 DEF LaunchInv, LaunchTypeOK
<1>8. ASSUME NEW x \in 0..MaxAttempts, NEW y \in 0..MaxInitDataAttempts,
             NEW z \in 0..MaxAuthAttempts,
             tries' = [telegram |-> x, data |-> y, auth |-> z],
             awaits' \in {"timer", "devCheck"}, session' = session, auth' \in {auth, "loading"},
             awaits' = "timer" =>
                 x < MaxAttempts /\ y < MaxInitDataAttempts /\ z < MaxAuthAttempts
      PROVE  LaunchInv'
  BY <1>2, <1>3, <1>4, <1>8 DEF LaunchInv, LaunchTypeOK
<1>9. ASSUME awaits = "timer", Attempt("telegram", MaxAttempts),
             session' = session, auth' \in {auth, "loading"}
      PROVE  LaunchInv'
  <2> DEFINE x == tries.telegram + 1
  <2>1. tries' = [telegram |-> x, data |-> tries.data, auth |-> tries.auth]
    BY <1>2, <1>9 DEF Attempt
  <2>2. x \in 0..MaxAttempts
    BY <1>1, <1>2, <1>9
  <2>3. awaits' \in {"timer", "devCheck"} /\ (awaits' = "timer" => x < MaxAttempts)
    BY <1>9 DEF Attempt, RetryLater, Loading
  <2> HIDE DEF x
  <2> QED BY <1>1, <1>2, <1>8, <1>9, <2>1, <2>2, <2>3
<1>10. ASSUME awaits = "timer", Attempt("data", MaxInitDataAttempts),
             session' = session, auth' \in {auth, "loading"}
      PROVE  LaunchInv'
  <2> DEFINE y == tries.data + 1
  <2>1. tries' = [telegram |-> tries.telegram, data |-> y, auth |-> tries.auth]
    BY <1>2, <1>10 DEF Attempt
  <2>2. y \in 0..MaxInitDataAttempts
    BY <1>1, <1>2, <1>10
  <2>3. awaits' \in {"timer", "devCheck"} /\ (awaits' = "timer" => y < MaxInitDataAttempts)
    BY <1>10 DEF Attempt, RetryLater, Loading
  <2> HIDE DEF y
  <2> QED BY <1>1, <1>2, <1>8, <1>10, <2>1, <2>2, <2>3
<1>11. ASSUME awaits = "telegram", awaits' = "timer", session' = session, auth' = auth,
              tries.auth + 1 < MaxAuthAttempts, tries' = [tries EXCEPT !.auth = @ + 1]
       PROVE  LaunchInv'
  <2> DEFINE z == tries.auth + 1
  <2>1. tries' = [telegram |-> tries.telegram, data |-> tries.data, auth |-> z]
    BY <1>2, <1>11
  <2>2. z \in 0..MaxAuthAttempts /\ z < MaxAuthAttempts
    BY <1>1, <1>11
  <2> HIDE DEF z
  <2> QED BY <1>1, <1>2, <1>8, <1>11, <2>1, <2>2
<1> QED BY <1>5, <1>6, <1>7, <1>9, <1>10, <1>11

LEMMA LaunchKeeps ==
    ASSUME LaunchInv, LaunchNext
    PROVE  LaunchInv'
<1>1. CASE Login
  BY <1>1, LoginKeeps
<1>2. ASSUME Reload PROVE LaunchInv'
  <2>1. /\ auth = "error" /\ auth' = "idle" /\ awaits' = "timer" /\ stage' = "off"
        /\ images' = Fresh /\ UNCHANGED <<tries, session>>
    BY <1>2 DEF Reload, ErrorShown
  <2>2. tries = NoTries /\ session \in BOOLEAN
    BY <2>1 DEF LaunchInv, LaunchTypeOK
  <2>3. Fresh \in [Images -> {"due", "ok", "stuck"}]
    BY DEF Fresh
  <2> QED BY <2>1, <2>2, <2>3, TriesSplit DEF LaunchInv, LaunchTypeOK, NoTries
<1>3. ASSUME UNCHANGED <<auth, awaits, tries, session>>, auth = "ready",
             stage' \in {"off", "modules", "assets", "images", "data", "splash", "over"},
             images' \in [Images -> {"due", "ok", "stuck"}]
      PROVE  LaunchInv'
  BY <1>3 DEF LaunchInv, LaunchTypeOK, NoTries
<1>4. stage # "off" => auth = "ready"
  BY DEF LaunchInv, LaunchTypeOK
<1>5. images \in [Images -> {"due", "ok", "stuck"}] /\ Fresh \in [Images -> {"due", "ok", "stuck"}]
  BY DEF LaunchInv, LaunchTypeOK, Fresh
<1>6. CASE Boot
  BY <1>3, <1>4, <1>5, <1>6 DEF Boot, StartBoot, ModulesLoaded, ModulesFailed, AssetsCached,
         ImagesSettled, DataWarmed, SplashOver, Stage
<1>7. ASSUME NEW i \in Images, Image(i) PROVE LaunchInv'
  <2>1. /\ stage = "images" /\ stage' = "images" /\ UNCHANGED <<auth, awaits, tries, session>>
        /\ images' \in [Images -> {"due", "ok", "stuck"}]
    BY <1>5, <1>7 DEF Image, ImageLoaded, ImageFailed
  <2> QED BY <1>3, <1>4, <2>1
<1> QED BY <1>1, <1>2, <1>6, <1>7 DEF LaunchNext

LEMMA MountKeeps ==
    ASSUME PanelInv, Mount, UNCHANGED roundVars
    PROVE  PanelInv' /\ sheet' = sheet
<1>1. /\ panel = "out" /\ panel' = "starting" /\ live' = Blank /\ conn' = TRUE /\ scene' = None
      /\ UNCHANGED <<sheet, srv, bets, out>>
  BY DEF Mount, roundVars, PanelInv
<1>2. LiveLags' /\ SceneInv' /\ SceneTellsRound'
  BY <1>1 DEF LiveLags, SceneInv, SceneTellsRound, PanelInv
<1> QED BY <1>1, <1>2 DEF PanelInv

\* What the game has asked for goes on without its screen.
LEMMA UnmountKeeps ==
    ASSUME PanelInv, OrdersInv, Unmount, UNCHANGED roundVars, UNCHANGED <<effects, faults>>
    PROVE  /\ PanelInv' /\ OrdersInv' /\ panel' = "out" /\ sheet' = FALSE
           /\ \A x \in cmds' : x \in cmds \/ x.kind \in {"bet", "cashout"}
<1>1. /\ panel' = "out" /\ live' = Blank /\ conn' = FALSE /\ sheet' = FALSE /\ scene' = None
      /\ cmds' = {IF Own(c) THEN [c EXCEPT !.left = Left] ELSE c : c \in cmds}
      /\ UNCHANGED <<srv, bets, out>>
  BY DEF Unmount, roundVars
<1>2. LiveLags' /\ SceneInv' /\ SceneTellsRound'
  BY <1>1 DEF LiveLags, SceneInv, SceneTellsRound, PanelInv
<1>3. PanelInv'
  BY <1>1, <1>2 DEF PanelInv
<1> DEFINE f == [c \in cmds |-> IF Own(c) THEN [c EXCEPT !.left = Left] ELSE c]
<1>4. ASSUME NEW c \in cmds
      PROVE  /\ f[c] \in Commands /\ Span(f[c]) = Span(c)
             /\ f[c].order = c.order /\ (Early(f[c]) <=> Early(c))
             /\ f[c] = c \/ f[c].kind \in {"bet", "cashout"}
  <2>1. CASE ~Own(c)
    BY <2>1 DEF OrdersInv
  <2>2. CASE Own(c)
    <3> DEFINE d == [c EXCEPT !.left = Left]
    <3>1. c \in GameCmds
      BY <2>2, Kinds DEF Own, OrdersInv
    <3>2. Left \in {None, "trying", "ending"}
      BY DEF Left
    <3>3. /\ d \in GameCmds /\ d.order = c.order /\ d.kind = c.kind /\ d.step = c.step
          /\ c.kind \in {"bet", "cashout"}
      BY <3>1, <3>2 DEF GameCmds
    <3>4. f[c] = d
      BY <2>2
    <3> HIDE DEF d, f
    <3>5. ~StakingCommand(c) /\ ~StakingCommand(d)
      BY <3>3 DEF StakingCommand
    <3> QED BY <3>3, <3>4, <3>5 DEF Span, Early, Commands
  <2> QED BY <2>1, <2>2
<1>5. cmds' = {f[c] : c \in cmds}
  BY <1>1
<1> HIDE DEF f
<1>6. \A c \in cmds : /\ f[c] \in Commands /\ Span(f[c]) = Span(c)
                      /\ f[c].order = c.order /\ (Early(f[c]) <=> Early(c))
  BY <1>4
<1>7. OrdersInv'
  BY <1>5, <1>6, OrdersMarked
<1> QED BY <1>1, <1>3, <1>4, <1>5, <1>7

\* The commands of a staking screen that is left know that it is.
LEMMA LeaveStakingKeeps ==
    ASSUME ScreenInv, OrdersInv, LeaveStaking, UNCHANGED <<effects, faults>>
    PROVE  /\ ScreenInv' /\ OrdersInv' /\ shown' = NoAssets /\ action' = None
           /\ \A x \in cmds' : (x \in cmds /\ ~StakingCommand(x)) \/ (StakingCommand(x) /\ x.left)
<1>1. /\ shown' = NoAssets /\ reads' = {} /\ claiming' = None /\ action' = None
      /\ cmds' = {IF StakingCommand(c) THEN [c EXCEPT !.left = TRUE] ELSE c : c \in cmds}
      /\ UNCHANGED srvAssets
  BY DEF LeaveStaking
<1>2. NoAssets \in [Assets -> Nat \cup {None}]
  BY DEF NoAssets
<1>3. ScreenInv'
  BY <1>1, <1>2 DEF ScreenInv
<1> DEFINE f == [c \in cmds |-> IF StakingCommand(c) THEN [c EXCEPT !.left = TRUE] ELSE c]
<1>4. ASSUME NEW c \in cmds
      PROVE  /\ f[c] \in Commands /\ Span(f[c]) = Span(c)
             /\ f[c].order = c.order /\ (Early(f[c]) <=> Early(c))
             /\ (f[c] = c /\ ~StakingCommand(c)) \/ (StakingCommand(f[c]) /\ f[c].left)
  <2>1. CASE ~StakingCommand(c)
    BY <2>1 DEF OrdersInv
  <2>2. CASE StakingCommand(c)
    <3> DEFINE d == [c EXCEPT !.left = TRUE]
    <3>1. c \in StakingCmds
      BY <2>2, Kinds DEF OrdersInv
    <3>3. /\ d \in StakingCmds /\ d.order = c.order /\ d.kind = c.kind /\ d.step = c.step
          /\ d.rest = c.rest /\ d.left = TRUE
      BY <3>1 DEF StakingCmds
    <3>4. f[c] = d
      BY <2>2
    <3> HIDE DEF d, f
    <3>5. StakingCommand(d)
      BY <2>2, <3>3 DEF StakingCommand
    <3> QED BY <2>2, <3>3, <3>4, <3>5 DEF Span, Early, Commands
  <2> QED BY <2>1, <2>2
<1>5. cmds' = {f[c] : c \in cmds}
  BY <1>1
<1> HIDE DEF f
<1>6. \A c \in cmds : /\ f[c] \in Commands /\ Span(f[c]) = Span(c)
                      /\ f[c].order = c.order /\ (Early(f[c]) <=> Early(c))
  BY <1>4
<1>7. OrdersInv'
  BY <1>5, <1>6, OrdersMarked
<1> QED BY <1>1, <1>3, <1>4, <1>5, <1>7

-----------------------------------------------------------------------------
(* The app as a whole: what happens on one screen, and which screen it is.  *)

\* A step of the launch, before there is a screen.
LEMMA LaunchingKeeps ==
    ASSUME IInv, Launching, visits' \in Nat
    PROVE  IInv'
<1>1. /\ UNCHANGED ordersVars /\ UNCHANGED <<roundVars, panelVars>> /\ UNCHANGED stakingVars
      /\ UNCHANGED dialogVars /\ UNCHANGED appVars
  BY DEF Launching, clientVars
<1>2. /\ UNCHANGED <<effects, cmds, faults, tab, withdrawing, panel, shown, open, sheet, action>>
      /\ UNCHANGED <<first, intents>>
  BY <1>1 DEF ordersVars, panelVars, stakingVars, dialogVars, appVars
<1>3. LaunchInv'
  BY LaunchKeeps DEF IInv, Launching
<1>4. PanelInv' /\ ScreenInv' /\ DialogInv'
  BY <1>1, PanelStays, ScreenStays, DialogStays DEF IInv
<1>5. OrdersInv'
  BY <1>2, FaultBound, OrdersStay DEF IInv
<1>6. Links' /\ CmdIntents'
  BY <1>2, LinksStay, CmdIntentsStay DEF IInv
<1>7. AppInv'
  BY <1>2, AppStays DEF IInv
<1> QED BY <1>3, <1>4, <1>5, <1>6, <1>7 DEF IInv

LEMMA PanelSteps ==
    ASSUME IInv, Panel, visits' \in Nat
    PROVE  IInv'
<1>1. /\ UNCHANGED launchVars /\ UNCHANGED stakingVars /\ UNCHANGED dialogVars
      /\ UNCHANGED <<tab, withdrawing, shown, open, action, first, intents>>
  BY DEF Panel, stakingVars, dialogVars, appVars
<1>2. PanelKeeps /\ (sheet' => sheet \/ ~Overlay)
  BY PanelStepKeeps, PressKeeps DEF Panel, IInv
<1>3. LaunchInv' /\ ScreenInv' /\ DialogInv'
  BY <1>1, LaunchStays, ScreenStays, DialogStays DEF IInv
<1>4. Links'
  BY <1>1, <1>2, LinksStay DEF IInv, PanelKeeps
<1>5. \A c \in cmds' : c \in cmds \/ ~Deposit(c)
  BY <1>2 DEF PanelKeeps, Deposit
<1>6. CmdIntents'
  BY <1>1, <1>5, CmdIntentsStay DEF IInv
<1>7. AppInv'
  BY <1>1, <1>2 DEF IInv, AppInv, PanelKeeps, Overlay
<1> QED BY <1>2, <1>3, <1>4, <1>6, <1>7 DEF IInv, PanelKeeps

LEMMA StakingSteps ==
    ASSUME IInv, Staking, visits' \in Nat
    PROVE  IInv'
<1>1. /\ UNCHANGED launchVars /\ UNCHANGED <<roundVars, panelVars>> /\ UNCHANGED dialogVars
      /\ UNCHANGED <<tab, withdrawing, panel, open, sheet, first, intents>>
  BY DEF Staking, OnlyStaking, panelVars, dialogVars, appVars
<1>2. StakingKeeps
  BY StakingStepKeeps DEF Staking, IInv
<1>3. action' \in {action, None} \/ ~Overlay
  BY SheetOpensByPress DEF Staking
<1>4. LaunchInv' /\ PanelInv' /\ DialogInv'
  BY <1>1, LaunchStays, PanelStays, DialogStays DEF IInv
<1>5. \A c \in cmds' : c \in cmds \/ (StakingCommand(c) /\ (c.left \/ tab = "staking"))
  BY <1>2 DEF StakingKeeps
<1>6. Links'
  BY <1>1, <1>5 DEF IInv, Links, StakingCommand, Deposit
<1>7. CmdIntents'
  BY <1>1, <1>5, CmdIntentsStay DEF IInv, StakingCommand, Deposit
<1>8. AppInv'
  BY <1>1, <1>2, <1>3 DEF IInv, AppInv, StakingKeeps, Overlay
<1> QED BY <1>2, <1>4, <1>6, <1>7, <1>8 DEF IInv, StakingKeeps

LEMMA DialogSteps ==
    ASSUME IInv, Dialog, visits' \in Nat
    PROVE  IInv'
<1>1. /\ UNCHANGED launchVars /\ UNCHANGED <<roundVars, panelVars>> /\ UNCHANGED stakingVars
      /\ UNCHANGED <<tab, withdrawing, panel, sheet, shown, action>>
  BY DEF Dialog, OnlyDialog, panelVars, stakingVars, appVars
<1>2. DialogKeeps
  BY DialogStepKeeps DEF Dialog, IInv
<1>3. LaunchInv' /\ PanelInv' /\ ScreenInv'
  BY <1>1, LaunchStays, PanelStays, ScreenStays DEF IInv
<1>4. Links'
  BY <1>1, <1>2 DEF IInv, Links, DialogKeeps, StakingCommand, Deposit
<1>5. AppInv'
  BY <1>1, <1>2 DEF IInv, AppInv, DialogKeeps
<1> QED BY <1>2, <1>3, <1>4, <1>5 DEF IInv, DialogKeeps

\* The app's first screen, or a tab that is entered.
LEMMA EnteredKeeps ==
    ASSUME IInv, visits' \in Nat,
           ShowApp \/ \E t \in Tabs : TabEntered(t)
    PROVE  IInv'
<1>1. /\ tab \in {None, "between"} /\ tab' \in Tabs
      /\ UNCHANGED launchVars /\ UNCHANGED ordersVars /\ UNCHANGED roundVars
      /\ UNCHANGED dialogVars /\ UNCHANGED withdrawing
      /\ \/ tab' = "mine" /\ Mount /\ UNCHANGED stakingVars
         \/ tab' = "staking" /\ EnterStaking /\ UNCHANGED panelVars
         \/ UNCHANGED <<panelVars, stakingVars>>
  BY DEF ShowApp, TabEntered, Tabs
<1>2. UNCHANGED <<effects, cmds, faults, open, first, intents>>
  BY <1>1 DEF ordersVars, dialogVars
<1>3. tab \notin Tabs
  BY <1>1, NoneAssumption DEF Tabs
<1>4. panel = "out" /\ shown = NoAssets
  BY <1>3 DEF IInv, AppInv, Tabs
<1>5. LaunchInv' /\ DialogInv'
  BY <1>1, LaunchStays, DialogStays DEF IInv
<1>6. OrdersInv'
  BY <1>2, FaultBound, OrdersStay DEF IInv
<1>7. CmdIntents'
  BY <1>2, CmdIntentsStay DEF IInv
<1>8. Links'
  BY <1>1, <1>2, <1>3 DEF IInv, Links, StakingCommand, Deposit, Tabs
<1>9. /\ PanelInv' /\ ScreenInv' /\ UNCHANGED <<sheet, shown, action>>
      /\ panel' # "out" => tab' = "mine"
  <2>1. CASE tab' = "mine" /\ Mount /\ UNCHANGED stakingVars
    <3>1. PanelInv' /\ sheet' = sheet
      BY <1>1, <2>1, MountKeeps DEF IInv
    <3> QED BY <2>1, <3>1, ScreenStays DEF IInv, stakingVars
  <2>2. CASE tab' = "staking" /\ EnterStaking /\ UNCHANGED panelVars
    <3>1. PanelInv'
      BY <1>1, <2>2, PanelStays DEF IInv
    <3>2. reads' = {OverviewRead(TRUE)} /\ UNCHANGED <<srvAssets, shown, claiming, action>>
      BY <2>2 DEF EnterStaking
    <3>3. ScreenInv'
      BY <3>2, OverviewIsTyped DEF IInv, ScreenInv
    <3> QED BY <1>4, <2>2, <3>1, <3>2, <3>3 DEF panelVars
  <2>3. CASE UNCHANGED <<panelVars, stakingVars>>
    <3>1. PanelInv' /\ ScreenInv'
      BY <1>1, <2>3, PanelStays, ScreenStays DEF IInv
    <3> QED BY <1>4, <2>3, <3>1 DEF panelVars, stakingVars
  <2> QED BY <1>1, <2>1, <2>2, <2>3
<1>10. shown' = NoAssets
  BY <1>4, <1>9 DEF NoAssets
<1>11. AppInv'
  BY <1>1, <1>2, <1>9, <1>10 DEF IInv, AppInv
<1> QED BY <1>5, <1>6, <1>7, <1>8, <1>9, <1>11 DEF IInv

LEMMA LeftKeeps ==
    ASSUME IInv, visits' \in Nat, NEW t \in Tabs, TabLeft(t)
    PROVE  IInv'
<1>1. /\ tab = t /\ ~Overlay /\ tab' = "between"
      /\ UNCHANGED launchVars /\ UNCHANGED <<effects, faults>> /\ UNCHANGED roundVars
      /\ UNCHANGED dialogVars /\ UNCHANGED withdrawing
      /\ \/ t = "mine" /\ Unmount /\ UNCHANGED stakingVars
         \/ t = "staking" /\ LeaveStaking /\ UNCHANGED panelVars
         \/ t = "profile" /\ UNCHANGED <<cmds, panelVars, stakingVars>>
  BY DEF TabLeft, LeaveTab, Tabs
<1>2. UNCHANGED <<open, first, intents>> /\ open = FALSE
  BY <1>1 DEF dialogVars, Overlay, IInv, DialogInv
<1>3. LaunchInv' /\ DialogInv'
  BY <1>1, LaunchStays, DialogStays DEF IInv
<1>4. ASSUME PanelInv', ScreenInv', OrdersInv', panel' = "out", shown' = NoAssets,
             UNCHANGED <<sheet, action>> \/ (sheet' = FALSE /\ action' = action)
                \/ (sheet' = sheet /\ action' = None),
             \A x \in cmds' : \/ x \in cmds /\ ~StakingCommand(x)
                              \/ x.kind \in {"bet", "cashout"}
                              \/ StakingCommand(x) /\ x.left
      PROVE  IInv'
  <2>1. Links'
    BY <1>1, <1>2, <1>4 DEF IInv, Links, Deposit, StakingCommand
  <2>2. CmdIntents'
    BY <1>2, <1>4, CmdIntentsStay DEF IInv, Deposit, StakingCommand
  <2>3. NoAssets' = NoAssets
    BY DEF NoAssets
  <2>4. AppInv'
    BY <1>1, <1>2, <1>4, <2>3 DEF IInv, AppInv, Tabs, Overlay, PanelInv
  <2> QED BY <1>3, <1>4, <2>1, <2>2, <2>4 DEF IInv
<1>5. ASSUME t # "staking" PROVE \A x \in cmds : StakingCommand(x) => x.left
  BY <1>1, <1>5 DEF IInv, Links
<1>6. CASE t = "mine" /\ Unmount /\ UNCHANGED stakingVars
  <2>1. /\ PanelInv' /\ OrdersInv' /\ panel' = "out" /\ sheet' = FALSE
        /\ \A x \in cmds' : x \in cmds \/ x.kind \in {"bet", "cashout"}
    BY <1>1, <1>6, UnmountKeeps DEF IInv
  <2>2. ScreenInv' /\ action' = action /\ shown' = shown /\ shown = NoAssets
    BY <1>1, <1>6, ScreenStays DEF IInv, stakingVars, AppInv
  <2> QED BY <1>4, <1>5, <1>6, <2>1, <2>2
<1>7. CASE t = "staking" /\ LeaveStaking /\ UNCHANGED panelVars
  <2>1. /\ ScreenInv' /\ OrdersInv' /\ shown' = NoAssets /\ action' = None
        /\ \A x \in cmds' : (x \in cmds /\ ~StakingCommand(x)) \/ (StakingCommand(x) /\ x.left)
    BY <1>1, <1>7, LeaveStakingKeeps DEF IInv
  <2>2. PanelInv' /\ sheet' = sheet /\ panel' = panel /\ panel = "out"
    BY <1>1, <1>7, PanelStays DEF IInv, panelVars, AppInv
  <2> QED BY <1>4, <2>1, <2>2
<1>8. CASE t = "profile" /\ UNCHANGED <<cmds, panelVars, stakingVars>>
  <2>1. PanelInv' /\ ScreenInv'
    BY <1>1, <1>8, PanelStays, ScreenStays DEF IInv
  <2>2. OrdersInv'
    BY <1>1, <1>8, FaultBound, OrdersStay DEF IInv
  <2>3. /\ panel' = "out" /\ shown' = NoAssets /\ sheet' = sheet /\ action' = action
        /\ cmds' = cmds
    BY <1>1, <1>8 DEF IInv, AppInv, panelVars, stakingVars
  <2> QED BY <1>4, <1>5, <1>8, <2>1, <2>2, <2>3
<1> QED BY <1>1, <1>6, <1>7, <1>8

LEMMA OpenedKeeps ==
    ASSUME IInv, visits' \in Nat, DepositClicked
    PROVE  IInv'
<1>1. /\ ~Overlay /\ OpenDialog /\ UNCHANGED launchVars
      /\ UNCHANGED <<roundVars, panelVars>> /\ UNCHANGED stakingVars
      /\ UNCHANGED <<effects, cmds, faults, tab, withdrawing, panel, shown, sheet, action>>
  BY DEF DepositClicked, OpenDialog, panelVars, stakingVars, appVars, ordersVars
<1>2. LaunchInv' /\ PanelInv' /\ ScreenInv'
  BY <1>1, LaunchStays, PanelStays, ScreenStays DEF IInv
<1>3. DialogInv' /\ CmdIntents'
  BY <1>1, OpenDialogKeeps DEF IInv
<1>4. OrdersInv'
  BY <1>1, FaultBound, OrdersStay DEF IInv
<1>5. Links' /\ AppInv'
  BY <1>1 DEF IInv, Links, AppInv, Overlay, OpenDialog, Deposit, StakingCommand
<1> QED BY <1>2, <1>3, <1>4, <1>5 DEF IInv

LEMMA WithdrawGoes ==
    ASSUME OrdersInv, NEW c \in cmds, c \in WithdrawCmds, NEW step \in {"wallets", "ledger"},
           NEW d, d = [c EXCEPT !.step = step], Goes(c, d), faults' \in 0..MaxFaults,
           effects' = effects \/ (Carried(c.order) /\ c.step = "post")
    PROVE  OrdersInv' /\ d.kind = "withdraw"
<1>1. d \in WithdrawCmds /\ d.order = c.order /\ d.kind = "withdraw" /\ d.step = step
      /\ c.kind = "withdraw" /\ c.order \in Nat
  BY DEF WithdrawCmds
<1>2. ~StakingCommand(c) /\ ~StakingCommand(d) /\ d \in Commands
  BY <1>1 DEF StakingCommand, Commands
<1>3. Span(d) = Span(c) /\ d.order >= c.order /\ ~Early(d)
  BY <1>1, <1>2 DEF Span, Early
<1> DEFINE D == {d}
<1>4. /\ D \subseteq Commands /\ cmds' = (cmds \ {c}) \cup D
      /\ \A x, y \in D : x = y
  BY <1>2 DEF Goes
<1>5. \A x \in D : /\ Span(x) \subseteq Span(c) /\ x.order >= c.order
                   /\ Early(x) => Early(c) \/ x.order > c.order
  BY <1>3
<1>6. \A x \in D : /\ Span(x) \subseteq Span(c) /\ x.order >= c.order
                   /\ Early(x) => x.order > c.order
  BY <1>3
<1> HIDE DEF D
<1>7. ASSUME effects' = effects PROVE OrdersInv'
  BY <1>4, <1>5, <1>7, OrdersGoOn
<1>8. ASSUME Carried(c.order), c.step = "post" PROVE OrdersInv'
  <2>1. Early(c)
    BY <1>8 DEF Early
  <2> QED BY <1>4, <1>6, <1>8, <2>1, OrdersCarry
<1> QED BY <1>1, <1>7, <1>8

\* The withdrawal dialog: what it leaves alone, and its one command.
LEMMA WithdrawKeeps ==
    ASSUME IInv, visits' \in Nat, OnlyWithdrawing, OrdersInv', withdrawing' \in BOOLEAN,
           \A c \in cmds' : c \in cmds \/ c.kind = "withdraw",
           \A c, d \in cmds' : c.kind = "withdraw" /\ d.kind = "withdraw" => c = d,
           \A c \in cmds' : c.kind = "withdraw" => withdrawing',
           withdrawing' => withdrawing \/ ~Overlay
    PROVE  IInv'
<1>1. /\ UNCHANGED launchVars /\ UNCHANGED <<roundVars, panelVars>> /\ UNCHANGED stakingVars
      /\ UNCHANGED dialogVars
      /\ UNCHANGED <<tab, panel, sheet, shown, action, open, first, intents>>
  BY DEF OnlyWithdrawing, panelVars, stakingVars, dialogVars
<1>2. LaunchInv' /\ PanelInv' /\ ScreenInv' /\ DialogInv'
  BY <1>1, LaunchStays, PanelStays, ScreenStays, DialogStays DEF IInv
<1>3. Links'
  BY <1>1 DEF IInv, Links, Deposit, StakingCommand
<1>4. CmdIntents'
  BY <1>1, CmdIntentsStay DEF IInv, Deposit
<1>5. AppInv'
  BY <1>1 DEF IInv, AppInv, Overlay
<1> QED BY <1>2, <1>3, <1>4, <1>5 DEF IInv

LEMMA WithdrawSteps ==
    ASSUME IInv, visits' \in Nat, WithdrawClicked \/ WithdrawClosed \/ WithdrawSubmitted
    PROVE  IInv'
<1>1. CASE WithdrawClicked \/ WithdrawClosed
  <2>1. /\ OnlyWithdrawing /\ UNCHANGED <<effects, cmds, faults>> /\ withdrawing' \in BOOLEAN
        /\ (withdrawing' = TRUE /\ ~Overlay) \/ (withdrawing' = FALSE /\ Withdrawals = {})
    BY <1>1 DEF WithdrawClicked, WithdrawClosed, ordersVars
  <2>2. OrdersInv'
    BY <2>1, FaultBound, OrdersStay DEF IInv
  <2>3. /\ \A c \in cmds' : c \in cmds \/ c.kind = "withdraw"
        /\ \A c, d \in cmds' : c.kind = "withdraw" /\ d.kind = "withdraw" => c = d
        /\ \A c \in cmds' : c.kind = "withdraw" => withdrawing'
    BY <2>1 DEF IInv, Links, Withdrawals
  <2> QED BY <2>1, <2>2, <2>3, WithdrawKeeps
<1>2. CASE WithdrawSubmitted
  <2> DEFINE d == [order |-> Next1, kind |-> "withdraw", step |-> "post"]
  <2>1. /\ OnlyWithdrawing /\ withdrawing /\ withdrawing' = withdrawing /\ Withdrawals = {}
        /\ Order(d) /\ cmds' = cmds \cup {d}
    BY <1>2 DEF WithdrawSubmitted, Order
  <2>2. Next1 \in Nat
    BY DEF IInv, OrdersInv, Next1
  <2>3. d \in WithdrawCmds /\ d.order = Next1 /\ d.kind = "withdraw"
    BY <2>2 DEF WithdrawCmds
  <2> HIDE DEF d
  <2>4. d \in Commands /\ ~StakingCommand(d)
    BY <2>3 DEF Commands, StakingCommand
  <2>5. OrdersInv'
    BY <2>1, <2>3, <2>4, OrdersOrder DEF IInv
  <2>6. /\ \A c \in cmds' : c \in cmds \/ c.kind = "withdraw"
        /\ \A c, e \in cmds' : c.kind = "withdraw" /\ e.kind = "withdraw" => c = e
        /\ \A c \in cmds' : c.kind = "withdraw" => withdrawing'
    BY <2>1, <2>3 DEF Withdrawals
  <2>7. withdrawing' \in BOOLEAN
    BY <2>1 DEF IInv, AppInv
  <2> QED BY <2>1, <2>5, <2>6, <2>7, WithdrawKeeps
<1> QED BY <1>1, <1>2

LEMMA WithdrawalKeeps ==
    ASSUME IInv, visits' \in Nat, NEW c \in Withdrawals, WithdrawGoesOn(c)
    PROVE  IInv'
<1>1. c \in cmds /\ c.kind = "withdraw" /\ OnlyWithdrawing
  BY DEF Withdrawals, WithdrawGoesOn
<1>2. c \in WithdrawCmds /\ withdrawing = TRUE
  BY <1>1, Kinds DEF IInv, OrdersInv, Links, AppInv
<1>3. \A x \in cmds : x.kind = "withdraw" => x = c
  BY <1>1 DEF IInv, Links
<1>4. OrdersInv /\ faults \in 0..MaxFaults
  BY FaultBound DEF IInv
<1>5. ASSUME NEW step \in {"wallets", "ledger"}, Goes(c, [c EXCEPT !.step = step]),
             faults' = faults, withdrawing' = withdrawing,
             effects' = effects \/ (Carried(c.order) /\ c.step = "post")
      PROVE  IInv'
  <2> DEFINE d == [c EXCEPT !.step = step]
  <2>1. d = [c EXCEPT !.step = step] /\ Goes(c, d) /\ cmds' = (cmds \ {c}) \cup {d}
    BY <1>5 DEF Goes
  <2> HIDE DEF d
  <2>2. faults' \in 0..MaxFaults
    BY <1>4, <1>5
  <2>3. OrdersInv' /\ d.kind = "withdraw"
    BY <1>1, <1>2, <1>4, <1>5, <2>1, <2>2, WithdrawGoes
  <2>4. /\ \A x \in cmds' : x \in cmds \/ x.kind = "withdraw"
        /\ \A x, e \in cmds' : x.kind = "withdraw" /\ e.kind = "withdraw" => x = e
        /\ \A x \in cmds' : x.kind = "withdraw" => withdrawing'
    BY <1>2, <1>3, <1>5, <2>1, <2>3
  <2>5. withdrawing' \in BOOLEAN /\ (withdrawing' => withdrawing \/ ~Overlay)
    BY <1>2, <1>5
  <2> QED BY <1>1, <2>3, <2>4, <2>5, WithdrawKeeps
<1>6. ASSUME Ends(c), faults' = faults \/ Fault, withdrawing' \in {withdrawing, FALSE},
             effects' = effects \/ (c.step = "post" /\ Carried(c.order))
      PROVE  IInv'
  <2>1. OrdersInv'
    BY <1>1, <1>4, <1>6, FaultBound, CommandEnds DEF Early
  <2>2. /\ \A x \in cmds' : x \in cmds \/ x.kind = "withdraw"
        /\ \A x, e \in cmds' : x.kind = "withdraw" /\ e.kind = "withdraw" => x = e
        /\ \A x \in cmds' : x.kind = "withdraw" => withdrawing'
    BY <1>3, <1>6 DEF Ends
  <2>3. withdrawing' \in BOOLEAN /\ (withdrawing' => withdrawing \/ ~Overlay)
    BY <1>2, <1>6
  <2> QED BY <1>1, <2>1, <2>2, <2>3, WithdrawKeeps
<1>7. \/ /\ Goes(c, [c EXCEPT !.step = "wallets"]) /\ UNCHANGED <<faults, withdrawing>>
         /\ Carried(c.order) /\ c.step = "post"
      \/ /\ Goes(c, [c EXCEPT !.step = "ledger"]) /\ UNCHANGED <<faults, withdrawing, effects>>
      \/ /\ Ends(c) /\ (faults' = faults \/ Fault) /\ withdrawing' \in {withdrawing, FALSE}
         /\ effects' = effects \/ (c.step = "post" /\ Carried(c.order))
  BY DEF WithdrawGoesOn
<1> QED BY <1>5, <1>6, <1>7

-----------------------------------------------------------------------------
(* The theorems.                                                            *)

LEMMA InitInv == Init => IInv
<1> SUFFICES ASSUME Init PROVE IInv
  OBVIOUS
<1>1. LaunchInv
  <2>1. /\ auth = "idle" /\ awaits = "timer" /\ tries = NoTries /\ session = FALSE
        /\ stage = "off" /\ images = Fresh
    BY DEF Init, LaunchInit
  <2>2. /\ MaxAttempts \in Nat \ {0} /\ MaxInitDataAttempts \in Nat \ {0}
        /\ MaxAuthAttempts \in Nat \ {0}
    BY AttemptsAssumption
  <2>3. /\ tries.telegram = 0 /\ tries.data = 0 /\ tries.auth = 0
        /\ tries = [telegram |-> tries.telegram, data |-> tries.data, auth |-> tries.auth]
    BY <2>1 DEF NoTries
  <2>6. /\ tries.telegram \in 0..MaxAttempts /\ tries.data \in 0..MaxInitDataAttempts
        /\ tries.auth \in 0..MaxAuthAttempts
    BY <2>2, <2>3
  <2>7. /\ auth = "idle" /\ awaits = "timer" /\ session = FALSE /\ stage = "off"
    BY <2>1
  <2>4. images \in [Images -> {"due", "ok", "stuck"}]
    BY <2>1 DEF Fresh
  <2>5. LaunchTypeOK
    BY <2>4, <2>6, <2>7 DEF LaunchTypeOK
  <2> QED BY <2>1, <2>2, <2>3, <2>5 DEF LaunchInv
<1>2. OrdersInv /\ Links /\ CmdIntents
  BY OrdersAssumption DEF Init, OrdersInit, OrdersInv, Links, CmdIntents
<1>3. PanelInv
  <2>1. /\ srv = [round |-> 1, phase |-> "PREPARING"] /\ bets = {} /\ out = {}
        /\ panel = "out" /\ live = Blank /\ conn = FALSE /\ sheet = FALSE /\ scene = None
    BY DEF Init, PanelInit
  <2>2. srv \in [round : 1..MaxRounds, phase : PhaseSet]
    BY <2>1, RoundsAssumption DEF PhaseSet
  <2>3. LiveLags /\ SceneInv /\ SceneTellsRound
    BY <2>1 DEF LiveLags, SceneInv, SceneTellsRound
  <2> QED BY <2>1, <2>2, <2>3 DEF PanelInv
<1>4. ScreenInv /\ shown = NoAssets /\ action = None
  BY DEF Init, ScreenInit, ScreenClosed, ScreenInv, NoAssets
<1>5. DialogInv
  <2>1. /\ intents = <<>> /\ open = FALSE /\ first = 1 /\ next = Nothing /\ drawn = Nothing
        /\ fired = FALSE /\ polls = {} /\ renders = 0
    BY DEF Init, DialogInit
  <2>2. intents \in Seq(Statuses) /\ Len(intents) = 0
    BY <2>1
  <2>3. Nothing \in [id : 0..Len(intents), status : Statuses]
    BY <2>2 DEF Nothing, Statuses
  <2>4. DialogKeepsToItsOpening
    BY <2>1 DEF DialogKeepsToItsOpening
  <2>5. first \in 1..(Len(intents) + 1) /\ renders \in Nat
    BY <2>1, <2>2
  <2>6. {next, drawn} \subseteq [id : 0..Len(intents), status : Statuses]
    BY <2>1, <2>3
  <2>7. /\ polls \subseteq [id : Nat, seen : Statuses, live : BOOLEAN]
        /\ \A p \in polls : FALSE
    BY <2>1
  <2>8. open \in BOOLEAN /\ fired \in BOOLEAN
    BY <2>1
  <2> QED BY <2>2, <2>4, <2>5, <2>6, <2>7, <2>8 DEF DialogInv
<1>6. AppInv
  BY <1>4, MovesAssumption DEF Init, AppInv, PanelInit, DialogInit
<1> QED BY <1>1, <1>2, <1>3, <1>4, <1>5, <1>6 DEF IInv

LEMMA VisitsCounted ==
    ASSUME IInv, Step
    PROVE  visits' \in Nat
<1>1. visits \in Nat
  BY DEF IInv, AppInv
<1>2. visits' \in {visits, visits + 1}
  BY DEF Step, Launching, clientVars, appVars, ShowApp, Panel, Staking, OnlyStaking, Dialog,
         OnlyDialog, TabLeft, TabEntered, DepositClicked, WithdrawClicked, WithdrawClosed,
         WithdrawSubmitted, WithdrawGoesOn
<1> QED BY <1>1, <1>2

LEMMA StepKeeps ==
    ASSUME IInv, Step
    PROVE  IInv'
<1>1. visits' \in Nat
  BY VisitsCounted
<1>2. ShowApp \/ (\E t \in Tabs : TabEntered(t)) => IInv'
  BY <1>1, EnteredKeeps
<1>3. \A t \in Tabs : TabLeft(t) => IInv'
  BY <1>1, LeftKeeps
<1>4. \A c \in Withdrawals : WithdrawGoesOn(c) => IInv'
  BY <1>1, WithdrawalKeeps
<1>5. WithdrawClicked \/ WithdrawClosed \/ WithdrawSubmitted => IInv'
  BY <1>1, WithdrawSteps
<1> QED BY <1>1, <1>2, <1>3, <1>4, <1>5, LaunchingKeeps, PanelSteps, StakingSteps,
           DialogSteps, OpenedKeeps DEF Step

LEMMA AllStay ==
    ASSUME IInv, UNCHANGED vars
    PROVE  IInv'
<1>1. /\ UNCHANGED launchVars /\ UNCHANGED <<roundVars, panelVars>> /\ UNCHANGED stakingVars
      /\ UNCHANGED dialogVars
      /\ UNCHANGED <<effects, cmds, faults, tab, withdrawing, visits>>
      /\ UNCHANGED <<panel, shown, open, sheet, action, first, intents>>
  BY DEF vars, clientVars, ordersVars, panelVars, stakingVars, dialogVars, appVars
<1>2. LaunchInv' /\ PanelInv' /\ ScreenInv' /\ DialogInv'
  BY <1>1, LaunchStays, PanelStays, ScreenStays, DialogStays DEF IInv
<1>3. OrdersInv'
  BY <1>1, FaultBound, OrdersStay DEF IInv
<1>4. Links' /\ CmdIntents'
  BY <1>1, LinksStay, CmdIntentsStay DEF IInv
<1>5. AppInv'
  BY <1>1, AppStays DEF IInv, AppInv
<1> QED BY <1>2, <1>3, <1>4, <1>5 DEF IInv

LEMMA Invariant == Spec => [](IInv /\ MovesBound)
<1>1. Init => IInv /\ MovesBound
  <2>1. Init => MovesBound
    BY MovesAssumption DEF Init, OrdersInit, MovesBound
  <2> QED BY <2>1, InitInv
<1>2. IInv /\ MovesBound /\ [Next]_vars => (IInv /\ MovesBound)'
  <2>1. ASSUME IInv, Next PROVE IInv' /\ MovesBound'
    BY <2>1, StepKeeps DEF Next, MovesBound
  <2>2. ASSUME IInv, MovesBound, UNCHANGED vars PROVE IInv' /\ MovesBound'
    <3>1. UNCHANGED <<visits, effects>>
      BY <2>2 DEF vars, clientVars, ordersVars, appVars
    <3> QED BY <2>2, <3>1, AllStay DEF MovesBound
  <2> QED BY <2>1, <2>2
<1> QED BY <1>1, <1>2, PTL DEF Spec

\* One dialog at most lies over a screen.
LEMMA OneDialog ==
    ASSUME AppInv
    PROVE  Cardinality({o \in {"d", "w", "s", "a"} :
              \/ o = "d" /\ open
              \/ o = "w" /\ withdrawing
              \/ o = "s" /\ sheet
              \/ o = "a" /\ action # None}) <= 1
<1> DEFINE S == {o \in {"d", "w", "s", "a"} :
              \/ o = "d" /\ open
              \/ o = "w" /\ withdrawing
              \/ o = "s" /\ sheet
              \/ o = "a" /\ action # None}
<1>1. \A x, y \in S : x = y
  BY DEF AppInv
<1>2. S = {} \/ \E x : S = {x}
  <2> HIDE DEF S
  <2>1. ASSUME NEW x \in S PROVE S = {x}
    BY <1>1, <2>1
  <2> QED BY <2>1
<1> HIDE DEF S
<1>3. Cardinality(S) <= 1
  <2>1. CASE S = {}
    BY <2>1, FS_EmptySet
  <2>2. ASSUME NEW x, S = {x} PROVE Cardinality(S) <= 1
    <3>1. Cardinality({x}) = 1
      BY FS_Singleton
    <3> QED BY <2>2, <3>1
  <2> QED BY <1>2, <2>1, <2>2
<1> QED BY <1>3 DEF S

\* Every part is in its type, one tab is mounted and one dialog lies over it,
\* and a dialog stays for the order it has made (the page's tabs and overlays).
THEOREM ClientTypeCorrect == Spec => []TypeOK
<1>1. IInv /\ MovesBound => TypeOK
  <2> SUFFICES ASSUME IInv, MovesBound PROVE TypeOK
    OBVIOUS
  <2>1. /\ effects \in Seq(Nat) /\ Len(effects) <= MaxOrders /\ faults \in 0..MaxFaults
        /\ Len(effects) \in Nat
    BY DEF IInv, OrdersInv
  <2>2. \A c \in cmds : c.order \in DOMAIN effects
    BY SpanHasOrder DEF IInv, OrdersInv
  <2>3. PhaseSet = {Phase[i] : i \in DOMAIN Phase}
    BY DEF PhaseSet, Phase
  <2>4. /\ srv \in [round : 1..MaxRounds, phase : {Phase[i] : i \in DOMAIN Phase}]
        /\ bets \subseteq 1..(MaxRounds + 1) /\ out \subseteq bets
        /\ panel \in {"out", "starting", "wallets", "import", "on", "failed"}
        /\ conn \in BOOLEAN /\ sheet \in BOOLEAN
    BY <2>3 DEF IInv, PanelInv
  <2>5. /\ shown \in [Assets -> Nat \cup {None}] /\ srvAssets \in [Assets -> Nat]
        /\ claiming \in Assets \cup {None} /\ action \in Assets \cup {None}
    BY DEF IInv, ScreenInv
  <2>6. /\ \A i \in DOMAIN intents : intents[i] \in {Pending} \cup Final
        /\ {next.id, drawn.id} \subseteq 0..Len(intents)
        /\ open \in BOOLEAN /\ fired \in BOOLEAN
    BY DEF IInv, DialogInv, Statuses
  <2>7. /\ tab \in Tabs \cup {None, "between"} /\ withdrawing \in BOOLEAN
        /\ panel # "out" => tab = "mine"
        /\ shown # NoAssets => tab = "staking"
    BY DEF IInv, AppInv
  <2>8. visits \in 0..MaxMoves
    BY <2>1, MovesAssumption DEF IInv, AppInv, MovesBound
  <2>9. (Withdrawals # {} => withdrawing) /\ (Paying => open)
    BY DEF IInv, Links, Withdrawals, Paying
  <2>10. {conn, sheet, open, fired, withdrawing} \subseteq BOOLEAN
    BY <2>4, <2>6, <2>7
  <2>11. LaunchTypeOK /\ AppInv
    BY DEF IInv, LaunchInv
  <2> QED BY <2>1, <2>2, <2>4, <2>5, <2>6, <2>7, <2>8, <2>9, <2>10, <2>11, OneDialog DEF TypeOK
<1> QED BY <1>1, Invariant, PTL

\* The server carries out the order of one press at most once, whatever is
\* retried (the bet's retries), answered late or lost, and whichever screen it
\* was pressed on is left meanwhile.
THEOREM PressedOnce == Spec => []OneEffectPerOrder
<1>1. IInv => OneEffectPerOrder
  BY DEF IInv, OrdersInv, OneEffectPerOrder
<1> QED BY <1>1, Invariant, PTL

\* What the renderer draws is what the adapter says, in whichever order the
\* renderer, its assets, the snapshots and the frames come.
THEOREM SceneFollows == Spec => []SceneTellsRound
<1>1. IInv => SceneTellsRound
  BY DEF IInv, PanelInv
<1> QED BY <1>1, Invariant, PTL

\* The deposit dialog speaks of the intents of this opening only, whatever
\* poll or answer of an earlier one is still on its way.
THEOREM DialogOfThisOpening == Spec => []DialogKeepsToItsOpening
<1>1. IInv => DialogKeepsToItsOpening
  BY DEF IInv, DialogInv
<1> QED BY <1>1, Invariant, PTL
=============================================================================
