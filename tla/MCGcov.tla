------------------------------- MODULE MCGcov -------------------------------
(***************************************************************************)
(* Instances of Gcov: a program of two object files a and b, of which b is *)
(* compiled anew with another function for the second version.             *)
(***************************************************************************)
EXTENDS Gcov

CONSTANTS p1, p2, a, b, v1, v2

MCStartup == <<b>>
MCStamp == [v \in Versions |-> [o \in Objects |-> IF o = b /\ v = v2 THEN 2 ELSE 1]]
MCNFunctions == [v \in Versions |-> [o \in Objects |-> IF o = b /\ v = v2 THEN 2 ELSE 1]]
SameBuild == [p \in Procs |-> v1]
TwoBuilds == [p \in Procs |-> IF p = p1 THEN v1 ELSE v2]

Disk(other, shut, present, unmade) ==
  [foreign |-> other, noopen |-> shut, dirs |-> present, nodir |-> unmade]
GoodDisk == Disk({}, {}, {a, b}, {})
BadDisks == {Disk({b}, {}, {b}, {}), Disk({}, {b}, {b}, {}), Disk({}, {}, {}, {b})}
World(started, build, d, f, k) ==
  [roots |-> started, version |-> build, disk |-> d, flushes |-> f, kills |-> k]
MCWorlds == {World({p1}, SameBuild, GoodDisk, 1, 1),
             World({p1, p2}, SameBuild, GoodDisk, 0, 1),
             World({p1, p2}, TwoBuilds, GoodDisk, 0, 1)}
              \cup {World({p1, p2}, SameBuild, d, 0, 0) : d \in BadDisks}

=============================================================================
