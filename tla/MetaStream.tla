----------------------------- MODULE MetaStream -----------------------------
(***************************************************************************)
(* What /dev/vpipe-meta promises to one opener, with the ring, the lock    *)
(* and the steps of a read taken away.  Rows are published into an         *)
(* unbounded log.  An open file starts at the end of the log and is handed *)
(* rows in log order; it may be moved past rows only when the ring has     *)
(* already overwritten them, and then the row it gets is marked OVERRUN.   *)
(***************************************************************************)
EXTENDS Naturals, Sequences

CONSTANTS
  Rows,      \* metadata rows that can be published
  Files,     \* open file descriptions that keep the contract
  RingSize,  \* rows the device retains
  Version,   \* VPIPE_META_VERSION, stamped on every row
  Nothing    \* no row has been handed out yet

VARIABLES
  log,       \* every row published, oldest first
  open,      \* files that are open
  expect,    \* expect[f]: log position of the next row f has not been given
  out        \* out[f]: the last row f was given

Init ==
  /\ log = << >>
  /\ open = {}
  /\ expect = [f \in Files |-> 0]
  /\ out = [f \in Files |-> Nothing]

Publish ==
  /\ \E row \in Rows : log' = Append(log, row)
  /\ UNCHANGED <<open, expect, out>>

Open(f) ==
  /\ f \notin open
  /\ open' = open \cup {f}
  /\ expect' = [expect EXCEPT ![f] = Len(log)]
  /\ out' = [out EXCEPT ![f] = Nothing]
  /\ UNCHANGED log

Close(f) ==
  /\ f \in open
  /\ open' = open \ {f}
  /\ UNCHANGED <<log, expect, out>>

Deliver(f) ==
  /\ f \in open
  /\ \E at \in expect[f] .. (Len(log) - 1) :
       /\ at > expect[f] => at + RingSize <= Len(log)
       /\ out' = [out EXCEPT ![f] =
                    [at |-> at, row |-> log[at + 1], version |-> Version,
                     overrun |-> at > expect[f]]]
       /\ expect' = [expect EXCEPT ![f] = at + 1]
  /\ UNCHANGED <<log, open>>

Next ==
  \/ Publish
  \/ \E f \in Files : Open(f) \/ Close(f) \/ Deliver(f)

vars == <<log, open, expect, out>>

Spec == Init /\ [][Next]_vars
=============================================================================
