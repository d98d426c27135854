----------------------------- MODULE ChunkFifo ------------------------------
(***************************************************************************)
(* What a varchunk ring promises to the two threads that share it: a queue *)
(* of chunks in which the consumer looks at the oldest chunk in place and  *)
(* later releases it.                                                      *)
(***************************************************************************)
EXTENDS Sequences

CONSTANTS
  Chunk,   \* the chunks that may be sent
  None     \* no chunk is held

VARIABLES
  queue,   \* chunks published and not yet released, oldest first
  held     \* the chunk as the consumer sees it between request and advance

Init ==
  /\ queue = << >>
  /\ held = None

\* The producer publishes a chunk.
Put ==
  /\ \E c \in Chunk : queue' = Append(queue, c)
  /\ UNCHANGED held

\* The consumer is handed the oldest chunk, which stays in the queue.
Take ==
  /\ held = None
  /\ queue # << >>
  /\ held' = Head(queue)
  /\ UNCHANGED queue

\* The consumer releases the chunk it was handed.
Drop ==
  /\ held # None
  /\ queue # << >>
  /\ queue' = Tail(queue)
  /\ held' = None

Next == Put \/ Take \/ Drop

Spec == Init /\ [][Next]_<<queue, held>>
=============================================================================
