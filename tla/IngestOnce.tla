----------------------------- MODULE IngestOnce -----------------------------
(***************************************************************************)
(* What the import of a bot's recording promises (lib/bot/finalize.ts,     *)
(* lines 29-38): one media.ingest per recording however many runs import   *)
(* it, recorded on the session once it is there, and for good.             *)
(***************************************************************************)
EXTENDS Naturals

VARIABLES
  ingests,  \* media.ingest jobs that reached the queue
  answer    \* what the session says of its recording

vars == <<ingests, answer>>

Init == ingests = 0 /\ answer = "open"

(* A run that gave up may not be the last one: the session keeps the answer *)
(* of whichever wrote last, until one of them records the ingest.           *)
Ingest == ingests = 0 /\ answer # "imported" /\ ingests' = 1 /\ UNCHANGED answer

Record == ingests = 1 /\ answer # "imported" /\ answer' = "imported" /\ UNCHANGED ingests

GiveUp == answer = "open" /\ answer' = "given up" /\ UNCHANGED ingests

TryAgain == answer = "given up" /\ answer' = "open" /\ UNCHANGED ingests

Next == Ingest \/ Record \/ GiveUp \/ TryAgain

Spec == Init /\ [][Next]_vars
=============================================================================
