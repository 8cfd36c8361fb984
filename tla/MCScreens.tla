------------------------------ MODULE MCScreens ------------------------------
(***************************************************************************)
(* Small instances of the session of the frontend and of its calendar and  *)
(* Google screens, each with the server it talks to. A behaviour is of one *)
(* of them, chosen at its start: a screen shares nothing with another but  *)
(* what its own module models, and the variables of the others stay as     *)
(* they begin. The requests of a page overlap while it stays where it is   *)
(* ("session"); one that moves to an invitation and back has one request   *)
(* at a time ("invitation").                                               *)
(***************************************************************************)
EXTENDS BrowserSession, ScheduleDirectEdit, CalendarArithmetic, GoogleReturn,
        MailCompose, TLC

VARIABLE screen

OneRequest == \A r, o \in HttpRequests : r = o \/ Idle \in {reqs[r], reqs[o]}

Symmetry == Permutations(HttpRequests)

ScreensInit ==
  /\ screen \in {"session", "invitation", "calendar", "arithmetic", "google", "mail"}
  /\ BSInit /\ DEInit /\ ArithmeticInit /\ ReturnInit /\ ComposeInit
  /\ screen \notin {"session", "invitation"} => signedIn
  /\ screen # "invitation" => hash = "home"
  /\ screen # "google" => cookieUser = CHOOSE u \in ReturnUsers : TRUE

ScreensNext ==
  /\ UNCHANGED screen
  /\ \/ /\ screen = "session" /\ BSNext /\ UNCHANGED hash
        /\ UNCHANGED <<deVars, arithVars, returnVars, composeVars>>
     \/ /\ screen = "invitation" /\ BSNext /\ OneRequest'
        /\ UNCHANGED <<deVars, arithVars, returnVars, composeVars>>
     \/ /\ screen = "calendar" /\ DENext
        /\ UNCHANGED <<bsVars, arithVars, returnVars, composeVars>>
     \/ /\ screen = "arithmetic" /\ ArithmeticNext
        /\ UNCHANGED <<bsVars, deVars, returnVars, composeVars>>
     \/ /\ screen = "google" /\ ReturnNext
        /\ UNCHANGED <<bsVars, deVars, arithVars, composeVars>>
     \/ /\ screen = "mail" /\ ComposeNext
        /\ UNCHANGED <<bsVars, deVars, arithVars, returnVars>>

ScreensSpec == ScreensInit /\ [][ScreensNext]_<<screen, bsVars, deVars, arithVars,
                                                returnVars, composeVars>>
==============================================================================
