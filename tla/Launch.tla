------------------------------- MODULE Launch -------------------------------
(***************************************************************************)
(* From opening the Mini App to its first screen: useTelegramUser logs in  *)
(* with Telegram's data, or as the developer where Telegram is missing;    *)
(* runMiniAppBootstrap warms modules, assets, images and account data      *)
(* behind a splash; the page then shows the app, or the login's error.     *)
(* Telegram's script may be absent, or without data, at any attempt.       *)
(***************************************************************************)
EXTENDS Integers, FiniteSets

CONSTANTS
    Images,               \* IMAGE_ASSETS
    MaxAttempts,          \* maxAttempts, of finding Telegram
    MaxInitDataAttempts,
    MaxAuthAttempts

ASSUME AttemptsAssumption ==
    {MaxAttempts, MaxInitDataAttempts, MaxAuthAttempts} \subseteq Nat \ {0}

VARIABLES
    auth,      \* the hook's state.status
    awaits,    \* what init waits for
    tries,     \* its three counters
    session,   \* the server has a session for this browser
    stage,     \* the bootstrap's stage, "off" before and "over" after
    images     \* images[i]: "due", "ok", or "stuck": a promise that never settles

launchVars == <<auth, awaits, tries, session, stage, images>>

NoTries == [telegram |-> 0, data |-> 0, auth |-> 0]
Fresh == [i \in Images |-> "due"]

LaunchInit ==
    /\ auth = "idle" /\ awaits = "timer" /\ tries = NoTries
    /\ session = FALSE
    /\ stage = "off" /\ images = Fresh

\* What the page shows.
AppShown == auth = "ready" /\ stage = "over"
ErrorShown == auth = "error"

-----------------------------------------------------------------------------
(* The login.                                                               *)

Loading(request) ==
    /\ auth' = "loading" /\ awaits' = request
    /\ UNCHANGED <<session, stage, images>>
RetryLater == awaits' = "timer" /\ UNCHANGED <<auth, session, stage, images>>

\* A failed attempt counts; the last one asks for the developer's login.
Attempt(counter, limit) ==
    /\ tries' = [tries EXCEPT ![counter] = @ + 1]
    /\ IF tries[counter] + 1 < limit THEN RetryLater ELSE Loading("devCheck")

InitLogin ==
    /\ awaits = "timer"
    /\ \/ Attempt("telegram", MaxAttempts)
       \/ Attempt("data", MaxInitDataAttempts)
       \/ Loading("telegram") /\ UNCHANGED tries

\* The counters die with the effect that holds them.
LoginEnds(status) ==
    /\ auth' = status /\ awaits' = "nothing" /\ tries' = NoTries
    /\ UNCHANGED <<stage, images>>
Ready == session' = TRUE /\ LoginEnds("ready")
Failed == LoginEnds("error")

AuthRefused ==
    IF tries.auth + 1 < MaxAuthAttempts
    THEN /\ tries' = [tries EXCEPT !.auth = @ + 1]
         /\ RetryLater
    ELSE Failed /\ UNCHANGED session

\* An answer that is lost may have opened the session.
TelegramAuthAnswered ==
    /\ awaits = "telegram"
    /\ \/ Ready
       \/ AuthRefused
       \/ Failed /\ session' \in {session, TRUE}

DevAuthChecked ==
    /\ awaits = "devCheck"
    /\ \/ Loading("devAuth") /\ UNCHANGED tries
       \/ Failed /\ UNCHANGED session

DevAuthAnswered ==
    /\ awaits = "devAuth"
    /\ Ready \/ (Failed /\ session' \in {session, TRUE})

\* The error screen's button.
Reload ==
    /\ ErrorShown
    /\ auth' = "idle" /\ awaits' = "timer" /\ stage' = "off" /\ images' = Fresh
    /\ UNCHANGED <<tries, session>>

-----------------------------------------------------------------------------
(* The warm-up, once the login is ready.                                    *)

Stage(from, to) ==
    /\ stage = from /\ stage' = to
    /\ UNCHANGED <<auth, awaits, tries, session, images>>

StartBoot == auth = "ready" /\ Stage("off", "modules")
ModulesLoaded == Stage("modules", "assets")

\* A module that cannot be loaded ends the warm-up: launched without it.
ModulesFailed == Stage("modules", "over")

\* Each fetch is aborted after FETCH_TIMEOUT_MS and its error ignored.
AssetsCached == Stage("assets", "images")

ImageLoaded(i) ==
    /\ stage = "images" /\ images[i] = "due"
    /\ images' = [images EXCEPT ![i] = "ok"]
    /\ UNCHANGED <<auth, awaits, tries, session, stage>>

\* decode() rejects and the error event fires; the handlers are only attached
\* after the rejection, and an event that was earlier is never seen again.
ImageFailed(i) ==
    /\ stage = "images" /\ images[i] = "due"
    /\ \E seen \in {"ok", "stuck"} : images' = [images EXCEPT ![i] = seen]
    /\ UNCHANGED <<auth, awaits, tries, session, stage>>

ImagesSettled == (\A i \in Images : images[i] = "ok") /\ Stage("images", "data")
DataWarmed == Stage("data", "splash")

\* What became of the images is not kept.
SplashOver ==
    /\ stage = "splash" /\ stage' = "over" /\ images' = Fresh
    /\ UNCHANGED <<auth, awaits, tries, session>>

-----------------------------------------------------------------------------
Login == InitLogin \/ TelegramAuthAnswered \/ DevAuthChecked \/ DevAuthAnswered
Image(i) == ImageLoaded(i) \/ ImageFailed(i)
Boot ==
    \/ StartBoot \/ ModulesLoaded \/ ModulesFailed \/ AssetsCached
    \/ ImagesSettled \/ DataWarmed \/ SplashOver
LaunchNext == Login \/ Reload \/ Boot \/ \E i \in Images : Image(i)

LaunchSpec ==
    /\ LaunchInit /\ [][LaunchNext]_launchVars
    /\ WF_launchVars(Login) /\ WF_launchVars(Boot)
    /\ \A i \in Images : WF_launchVars(Image(i))

-----------------------------------------------------------------------------
\* Warm-up errors are not critical ("ignore non-critical warm-up errors",
\* lib/mini-app-bootstrap.ts): whoever has logged in comes to see the app
\* (runMiniAppBootstrap and the page's boot effect).
WarmUpNeverBlocks == (auth = "ready") ~> AppShown

LaunchTypeOK ==
    /\ auth \in {"idle", "loading", "ready", "error"}
    /\ awaits \in {"timer", "telegram", "devCheck", "devAuth", "nothing"}
    /\ tries.telegram \in 0..MaxAttempts /\ tries.data \in 0..MaxInitDataAttempts
    /\ tries.auth \in 0..MaxAuthAttempts
    /\ session \in BOOLEAN
    /\ stage \in {"off", "modules", "assets", "images", "data", "splash", "over"}
    /\ images \in [Images -> {"due", "ok", "stuck"}]
    /\ auth = "ready" => session
    /\ stage # "off" => auth = "ready"
=============================================================================
