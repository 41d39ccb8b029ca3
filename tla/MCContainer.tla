---- MODULE MCContainer ----
(***************************************************************************)
(* Small instances of the scan and of the trial decompression it relies    *)
(* on, side by side.  In each behaviour one of the two has work to do and  *)
(* the other has ended, so the instance is the sum of the two.             *)
(***************************************************************************)
EXTENDS ContainerScan, InflateWindow

ScanEnded ==
    /\ valid = FALSE /\ body = <<>> /\ phase = "refused"
    /\ pos = 0 /\ found = <<>> /\ blocks = <<>>
    /\ seen = 0 /\ pending = <<>> /\ groups = <<>>
TrialEnded ==
    /\ bytes = [size |-> 1, gives |-> <<0>>, endsAt |-> 0, badAt |-> 1]
    /\ fed = 0 /\ taken = 0 /\ produced = 0 /\ owed = 0
    /\ tail = 0 /\ unused = 0 /\ eof = FALSE
    /\ trial = "none" /\ consumed = 0

MCInit == (CInit /\ TrialEnded) \/ (ScanEnded /\ IInit)
MCNext == (CNext /\ UNCHANGED inflateVars) \/ (INext /\ UNCHANGED vars)
MCSpec == MCInit /\ [][MCNext]_<<vars, inflateVars>> /\ WF_vars(CNext /\ UNCHANGED inflateVars)
====
