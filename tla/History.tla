------------------------------ MODULE History ------------------------------
(***************************************************************************)
(* What the reading store of internal/scada promises: for every point, the *)
(* last BufCap readings that came in, oldest first.  Module Ring has the   *)
(* ring buffers that implement it.                                         *)
(***************************************************************************)
EXTENDS Integers, Sequences

CONSTANTS
  Points,      \* point ids that occur in readings, registered or not
  BufCap       \* readings kept per point (Config.ScadaReadingBuffer)

ASSUME BufCapOK == BufCap \in Nat \ {0}

VARIABLE
  hist         \* hist[p]: the last BufCap readings of p, oldest first

-----------------------------------------------------------------------------
(* AppendReading: the oldest reading makes room when there is none.        *)
Keep(s, rd) == Append(IF Len(s) = BufCap THEN Tail(s) ELSE s, rd)

HistoryInit == hist = [p \in Points |-> <<>>]

Record(p, rd) == hist' = [hist EXCEPT ![p] = Keep(@, rd)]
=============================================================================
