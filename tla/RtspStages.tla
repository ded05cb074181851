------------------------------ MODULE RtspStages ------------------------------
(***************************************************************************)
(* What the RTSP dialogue of a session promises, without methods, headers  *)
(* or tables: the requests bring the content from one stage to the next,   *)
(* none is skipped and only the note of its description can be taken back; *)
(* the request that ends the dialogue starts nothing; and a client that    *)
(* leaves out no stage never has anything read that is not open, and never *)
(* ends the process.                                                       *)
(***************************************************************************)
EXTENDS Naturals

CONSTANT SingleSample  \* a PLAY that is carried out may end the dialogue too

VARIABLES
  stage,    \* of the content: "unknown", "listed", "described", "named", "open"
  talking,  \* the server takes further requests
  due,      \* number of starts still to come
  reading,  \* the content is read
  skipped,  \* the client has left out a stage
  dead      \* a request or a read has ended the process

stageVars == <<stage, talking, due, reading, skipped, dead>>

StageInit ==
  /\ stage = "unknown" /\ talking = TRUE
  /\ due = 0 /\ reading = FALSE
  /\ skipped = FALSE /\ dead = FALSE

\* A request that is answered and after which the dialogue goes on, or ends.
\* Only now can the client leave out a stage.
Request(goesOn) ==
  /\ talking /\ ~dead
  /\ talking' = goesOn
  /\ skipped' \in {skipped, TRUE}
  /\ UNCHANGED dead

List ==
  /\ Request(TRUE)
  /\ stage' = IF stage \in {"unknown", "described"} THEN "listed" ELSE stage
  /\ UNCHANGED <<due, reading>>

Tell ==
  /\ Request(TRUE)
  /\ stage # "unknown"
  /\ stage' = IF stage = "listed" THEN "described" ELSE stage
  /\ UNCHANGED <<due, reading>>

Name ==
  /\ Request(TRUE)
  /\ stage = "described"
  /\ stage' = "named"
  /\ UNCHANGED <<due, reading>>

Open ==
  /\ Request(TRUE)
  /\ stage = "named"
  /\ stage' = "open"
  /\ UNCHANGED <<due, reading>>

\* Reading begins later, and may be stopped until then.  Who leaves out stages may
\* do so on a content that is not open.
Start ==
  /\ \E goesOn \in IF SingleSample THEN BOOLEAN ELSE {TRUE} : Request(goesOn)
  /\ \/ stage \in {"named", "open"} /\ stage' = "open"
     \/ skipped' /\ stage' = stage
  /\ due' = due + 1
  /\ reading' \in {reading, FALSE}

\* A stream of a content is read at once.
Restart ==
  /\ Request(TRUE)
  /\ stage = "open" \/ skipped'
  /\ reading' = TRUE
  /\ UNCHANGED <<stage, due>>

\* Any other request, and the one that ends the dialogue, at most stops reading.
Other ==
  /\ \E goesOn \in BOOLEAN : Request(goesOn)
  /\ reading' \in {reading, FALSE}
  /\ UNCHANGED <<stage, due>>

Begin ==
  /\ ~dead
  /\ due > 0
  /\ due' = due - 1
  /\ reading' = TRUE
  /\ UNCHANGED <<stage, talking, skipped, dead>>

Die ==
  /\ ~dead
  /\ skipped' = TRUE
  /\ dead' = TRUE
  /\ reading' \in {reading, FALSE}
  /\ UNCHANGED <<stage, talking, due>>

StageNext == List \/ Tell \/ Name \/ Open \/ Start \/ Restart \/ Other \/ Begin \/ Die

StageSpec == StageInit /\ [][StageNext]_stageVars

-----------------------------------------------------------------------------
\* What a client who leaves out no stage can rely on.
StageSafe == ~skipped => ~dead /\ (due > 0 \/ reading => stage = "open")
=============================================================================
