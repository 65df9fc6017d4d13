------------------------ MODULE MCDeveloperAuthorize ------------------------
(***************************************************************************)
(* The developer API's authorize handler for model checking.  A behaviour  *)
(* of MCSpec is about processes that die and exceptions before the         *)
(* decision, within a month, or about exceptions at any point and a month  *)
(* that ends, without crashes.                                             *)
(***************************************************************************)
EXTENDS DeveloperAuthorize

CONSTANTS t1, t2, r1, r2, r3

VARIABLE about

Request(t, ps) == (\E k \in Keys \cup {None}, p \in ps : Reserve(t, k, p)) \/ Work(t)
Undecided(t) == job[t].stage \in {"reserved", "metered"}

MCInit == Init /\ about \in {"crashes", "exceptions"}
MCNext ==
    \/ /\ about = "crashes" /\ UNCHANGED about
       /\ \/ Exhausted
          \/ \E t \in Threads : Request(t, Payloads) \/ Crash(t) \/ (Undecided(t) /\ Raise(t))
    \/ /\ about = "exceptions" /\ UNCHANGED about
       /\ Exhausted \/ NextMonth \/ \E t \in Threads : Request(t, {"p"}) \/ Raise(t)
MCSpec == MCInit /\ [][MCNext]_<<about, vars>> /\ \A t \in Threads : WF_vars(Work(t))

\* A key is never stuck unless the process dies: a reservation is completed or given up, so that a
\* client that keeps retrying is not told RequestInProgress for ever.
ResolvesUnlessCrash ==
    \A k \in Keys :
        (about = "exceptions" /\ reserved[k] # None /\ reserved[k].request = None)
            ~> (reserved[k] = None \/ reserved[k].request # None)
=============================================================================
