---------------------------- MODULE SerialBuilds ----------------------------
(* What the write lock of an artifact promises to the builds of that artifact, without
   saying how: one run at a time is the writer, only the writer replaces the package, and
   what it records is newer than what was there, unless the run was forced. *)
EXTENDS Integers

CONSTANTS Builders, Forced, NoRun, MaxEdits

VARIABLES
  source,   \* the version of the model's source
  version,  \* the source version the package records, -1 when there is no package
  writer    \* the run allowed to replace the package, or NoRun

vars == <<source, version, writer>>

Init ==
  /\ source = 0
  /\ version = -1
  /\ writer = NoRun

Edit ==
  /\ source < MaxEdits
  /\ source' = source + 1
  /\ UNCHANGED <<version, writer>>

Begin(r) ==
  /\ writer = NoRun
  /\ writer' = r
  /\ UNCHANGED <<source, version>>

Replace(r) ==
  /\ writer = r
  /\ version' \in 0 .. source
  /\ IF r \in Forced THEN version' >= version ELSE version' > version
  /\ UNCHANGED <<source, writer>>

\* The writer is done, failed or died.
End(r) ==
  /\ writer = r
  /\ writer' = NoRun
  /\ UNCHANGED <<source, version>>

Next == Edit \/ \E r \in Builders : Begin(r) \/ Replace(r) \/ End(r)

Spec == Init /\ [][Next]_vars
=============================================================================
