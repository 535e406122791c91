----------------------------- MODULE MCCutover -----------------------------
(* The gateway g is moved from the Go plane, in which it delivers, to the C++ *)
(* plane; the C++ node c waits for the epoch after the first.  The gateway can *)
(* be started again for every configuration an attempt may ask of it.        *)
EXTENDS Cutover, TLC

CONSTANTS c1, op, g, c

Dep(authority, epoch) == [authority |-> authority, epoch |-> epoch]

MCPlane == [n \in Nodes |-> IF n = g THEN "go" ELSE "cpp"]
MCDeployments == [n \in Nodes |->
    IF n = g THEN {Dep("go", 1), Dep("go", 2), Dep("cpp", 2), Dep("go", 3)} ELSE {Dep("cpp", 2)}]
MCDeployed == [n \in Nodes |-> IF n = g THEN Dep("go", 1) ELSE Dep("cpp", 2)]
MCSourceNodes == (g :> "go")
MCTargetNodes == [n \in Nodes |-> "cpp"]

\* After a lapse nothing more can be collected or changed, and no property speaks.
Held == fence # None

\* Any two of a deadline that passes, two commands and a renewal meet.
TwoTroubles == (IF late THEN 1 ELSE 0) + commands + RenewalsBegun <= 2
=============================================================================
