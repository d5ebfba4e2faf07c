--------------------------- MODULE MCTransaction ---------------------------
(* Two packages that share a file, one of which exists in two versions.    *)
EXTENDS Transaction

MCPackage == {"app", "lib"}
MCFile == {"f1", "f2", "f3"}
MCPayload == [p \in MCPackage |-> IF p = "app" THEN {{"f1", "f2"}}
                                  ELSE {{"f2", "f3"}, {"f3"}}]
NotInTheGaps == Steps \ {"release", "save_packages", "save_files"}
AllSteps == Steps
=============================================================================
