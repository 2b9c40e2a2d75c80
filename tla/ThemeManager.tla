---------------------------- MODULE ThemeManager ----------------------------
(***************************************************************************)
(* The theme of the core (kunkka-core, theme/mod.rs) and the frontends     *)
(* that hear of it (runtime.rs): a flavour in memory and in theme.json,    *)
(* set and asked for by the frontend being served, and pushed to it over   *)
(* the receiving end of a broadcast channel.                               *)
(*                                                                         *)
(* The core serves one frontend at a time and subscribes for it when its   *)
(* first frame is there, so a frontend in the backlog has no receiver.     *)
(* Between two frames of the session and its events the event loop chooses *)
(* freely.  A response that cannot be written ends the core, an event that *)
(* cannot be written ends the session.                                     *)
(*                                                                         *)
(* heard and acknowledged are observations of the steps.                   *)
(***************************************************************************)
EXTENDS Integers, Sequences, SequencesExt

CONSTANTS
    Frontend,          \* frontends
    Nobody,            \* no frontend
    ThemeCapacity,     \* THEME_BROADCAST_CAPACITY, 16 in the code
    HoursPerDay,       \* 24
    MinutesPerHour     \* 60

ASSUME ThemeAssumption ==
    /\ Nobody \notin Frontend
    /\ ThemeCapacity \in Nat \ {0}
    /\ HoursPerDay \in Nat \ {0}
    /\ MinutesPerHour \in Nat \ {0}

VARIABLES
    up,              \* the core runs
    active,          \* ThemeManager::config.active_flavor
    themeFile,       \* theme.json
    frontend,        \* where each frontend is
    serving,         \* the frontend of run_frontend_connection
    themeRx,         \* its receiver: flavours that were sent and not yet pushed
    heard,           \* what each frontend heard last on its connection
    acknowledged     \* the flavour a response promised last, if it still holds

themeVars == <<up, active, themeFile, frontend, serving, themeRx, heard, acknowledged>>

Flavor == {"latte", "macchiato"}
Unknown == "unknown"

ThemeTypeOK ==
    /\ up \in BOOLEAN
    /\ active \in Flavor
    /\ themeFile \in Flavor \cup {"missing", "broken"}
    /\ frontend \in [Frontend -> {"away", "waiting", "served"}]
    /\ serving \in Frontend \cup {Nobody}
    /\ themeRx \in Seq(Flavor)
    /\ heard \in [Frontend -> Flavor \cup {Unknown}]
    /\ acknowledged \in Flavor \cup {Unknown}

ThemeInit ==
    /\ up = FALSE
    /\ active = "macchiato"
    /\ themeFile \in Flavor \cup {"missing", "broken"}
    /\ frontend = [f \in Frontend |-> "away"]
    /\ serving = Nobody
    /\ themeRx = <<>>
    /\ heard = [f \in Frontend |-> Unknown]
    /\ acknowledged = Unknown

-----------------------------------------------------------------------------
(* ThemeManager.                                                           *)

Loaded(file) == IF file = "missing" THEN "macchiato" ELSE file

LoadFromDir ==
    /\ ~up
    /\ themeFile # "broken"
    /\ up' = TRUE
    /\ active' = Loaded(themeFile)
    /\ UNCHANGED <<themeFile, frontend, serving, themeRx, heard, acknowledged>>

\* The user removes a file that does not parse.
RemoveBroken ==
    /\ ~up
    /\ themeFile = "broken"
    /\ themeFile' = "missing"
    /\ acknowledged' = Unknown
    /\ UNCHANGED <<up, active, frontend, serving, themeRx, heard>>

\* fs::write fails before it touches the file, or with the file cut off.
SaveFails == themeFile' \in {themeFile, "broken"}

(* parse_hhmm, and the minute of the day.  A text of two numbers is the    *)
(* pair of them; NotATime stands for every other text.                     *)
NotATime == <<>>
ParseHhmm(text) ==
    IF text = NotATime \/ text[1] >= HoursPerDay \/ text[2] >= MinutesPerHour
    THEN -1
    ELSE text[1] * MinutesPerHour + text[2]

\* A variant for the checks: the light half includes its last minute.
TargetVariant(now, light, dark) ==
    IF light < dark
    THEN IF now >= light /\ now <= dark THEN "latte" ELSE "macchiato"
    ELSE IF now >= dark /\ now < light THEN "macchiato" ELSE "latte"

Target(now, light, dark) ==
    IF light < dark
    THEN IF now >= light /\ now < dark THEN "latte" ELSE "macchiato"
    ELSE IF now >= dark /\ now < light THEN "macchiato" ELSE "latte"

\* Unknown stands for None: nothing to do, or nothing to go by.
CheckScheduleAt(text, light_at, dark_at) ==
    LET now == ParseHhmm(text)
        light == ParseHhmm(light_at)
        dark == ParseHhmm(dark_at)
    IN  IF -1 \in {now, light, dark} \/ Target(now, light, dark) = active
        THEN Unknown
        ELSE Target(now, light, dark)

-----------------------------------------------------------------------------
(* Frontends and the session of the one that is served.                    *)

ConnectFrontend(f) ==
    /\ frontend[f] = "away"
    /\ frontend' = [frontend EXCEPT ![f] = "waiting"]
    /\ heard' = [heard EXCEPT ![f] = Unknown]
    /\ UNCHANGED <<up, active, themeFile, serving, themeRx, acknowledged>>

\* It leaves; the core has yet to notice.
LeaveFrontend(f) ==
    /\ frontend[f] # "away"
    /\ frontend' = [frontend EXCEPT ![f] = "away"]
    /\ UNCHANGED <<up, active, themeFile, serving, themeRx, heard, acknowledged>>

EndSession ==
    /\ serving' = Nobody
    /\ themeRx' = <<>>

Subscribe(f) ==
    /\ serving' = f
    /\ themeRx' = <<>>

Serve(f) ==
    /\ up
    /\ serving = Nobody
    /\ frontend[f] = "waiting"
    /\ frontend' = [frontend EXCEPT ![f] = "served"]
    /\ Subscribe(f)
    /\ UNCHANGED <<up, active, themeFile, heard, acknowledged>>

SeeFrontendLeave ==
    /\ up
    /\ serving # Nobody
    /\ frontend[serving] # "served"
    /\ EndSession
    /\ UNCHANGED <<up, active, themeFile, frontend, heard, acknowledged>>

\* Connections end with the core: those that waited and the one served.
ThemeCoreEnds ==
    /\ up' = FALSE
    /\ frontend' = [f \in Frontend |-> "away"]
    /\ EndSession
    /\ UNCHANGED heard

(* get_theme.  A frame of a frontend that has left meanwhile is handled    *)
(* like any other, up to the response nobody takes.                        *)
GetTheme ==
    /\ up
    /\ serving # Nobody
    /\ IF frontend[serving] = "served"
       THEN /\ heard' = [heard EXCEPT ![serving] = active]
            /\ UNCHANGED <<up, active, themeFile, frontend, serving, themeRx, acknowledged>>
       ELSE ThemeCoreEnds /\ UNCHANGED <<active, themeFile, acknowledged>>

\* A variant for the checks: a full receiver keeps what it has.
BroadcastVariant(flavor) ==
    themeRx' = IF Len(themeRx) = ThemeCapacity THEN themeRx ELSE Append(themeRx, flavor)

\* A full channel loses its oldest value, and the receiver hears that it lagged.
Broadcast(flavor) ==
    themeRx' = Append(IF Len(themeRx) = ThemeCapacity THEN Tail(themeRx) ELSE themeRx, flavor)

\* A variant for the checks: a failed save is logged and the session goes on.
SwitchFailsVariant(flavor) ==
    /\ active' = flavor
    /\ SaveFails
    /\ UNCHANGED <<up, frontend, serving, themeRx, heard, acknowledged>>

(* switch_flavor changes the memory and then the file; when the file       *)
(* cannot be written the error ends the core, and the memory with it.      *)
SwitchFails(flavor) ==
    /\ active' = flavor
    /\ SaveFails
    /\ acknowledged' = IF themeFile' = themeFile THEN acknowledged ELSE Unknown
    /\ ThemeCoreEnds

Switched(flavor) ==
    /\ active' = flavor
    /\ themeFile' = flavor
    /\ Broadcast(flavor)
    /\ acknowledged' = flavor
    /\ UNCHANGED <<up, frontend, serving, heard>>

\* The file is written, and the response is not.
SwitchedUnanswered(flavor) ==
    /\ active' = flavor
    /\ themeFile' = flavor
    /\ acknowledged' = Unknown
    /\ ThemeCoreEnds

SetTheme(flavor) ==
    /\ up
    /\ serving # Nobody
    /\ \/ SwitchFails(flavor)
       \/ SwitchedUnanswered(flavor)
       \/ frontend[serving] = "served" /\ Switched(flavor)

PushTheme ==
    /\ up
    /\ serving # Nobody
    /\ themeRx # <<>>
    /\ IF frontend[serving] = "served"
       THEN /\ heard' = [heard EXCEPT ![serving] = Head(themeRx)]
            /\ themeRx' = Tail(themeRx)
            /\ UNCHANGED serving
       ELSE EndSession /\ UNCHANGED heard
    /\ UNCHANGED <<up, active, themeFile, frontend, acknowledged>>

ThemeCoreKilled ==
    /\ up
    /\ ThemeCoreEnds
    /\ UNCHANGED <<active, themeFile, acknowledged>>

ThemeNext ==
    \/ LoadFromDir \/ RemoveBroken \/ ThemeCoreKilled
    \/ \E f \in Frontend : ConnectFrontend(f) \/ LeaveFrontend(f) \/ Serve(f)
    \/ SeeFrontendLeave
    \/ GetTheme
    \/ \E flavor \in Flavor : SetTheme(flavor)
    \/ PushTheme

ThemeSpec == ThemeInit /\ [][ThemeNext]_themeVars

-----------------------------------------------------------------------------
(* Memory and file differ only on the way to the end of the process: while *)
(* the core runs, theme.json holds the active flavour, and a flavour that  *)
(* a SetTheme response acknowledged is active, in this run of the core and *)
(* in the next, until another is asked for or the file is lost.            *)
AcknowledgedThemeIsKept ==
    /\ ThemeTypeOK
    /\ up => active = Loaded(themeFile)
    /\ acknowledged # Unknown => themeFile = acknowledged

(* The frontend being served knows the theme: what it heard last, or       *)
(* the last event on its way to it, is the active flavour, however its own *)
(* requests, the responses and the events overtake each other and whatever *)
(* a full channel has lost.                                                *)
ServedIsToldTheLast ==
    serving # Nobody =>
       /\ themeRx # <<>> => Last(themeRx) = active
       /\ themeRx = <<>> /\ frontend[serving] = "served" /\ heard[serving] # Unknown
            => heard[serving] = active

(* The inductive invariant behind both.  Nobody is served while the core   *)
(* is down, and a frontend that waits has heard nothing on its connection. *)
ThemeIInv ==
    /\ AcknowledgedThemeIsKept
    /\ ServedIsToldTheLast
    /\ ~up => serving = Nobody
    /\ \A f \in Frontend : frontend[f] = "waiting" => heard[f] = Unknown

(* The schedule against a clock that goes round: the theme is light when   *)
(* the last of the two times to be passed was light_at, whichever of them  *)
(* comes first in the day, and a time that is not one changes nothing.     *)
ScheduleFollowsTheClock == up =>
    LET day == HoursPerDay * MinutesPerHour
        texts == {NotATime} \cup ((0..HoursPerDay) \X (0..MinutesPerHour))
        Since(then, now) == (now - then + day) % day
    IN  \A now, light, dark \in texts :
           CheckScheduleAt(now, light, dark) =
             IF -1 \in {ParseHhmm(now), ParseHhmm(light), ParseHhmm(dark)} THEN Unknown
             ELSE LET target == IF Since(ParseHhmm(light), ParseHhmm(now))
                                     <= Since(ParseHhmm(dark), ParseHhmm(now))
                                THEN "latte" ELSE "macchiato"
                  IN  IF target = active THEN Unknown ELSE target
=============================================================================
