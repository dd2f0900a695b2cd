---------------------------- MODULE TestPrograms ----------------------------
(***************************************************************************)
(* The programs that test the core, each on its own: the test firmware,    *)
(* and one call of the C library that dhrystone and the inference programs *)
(* are linked with.                                                        *)
(***************************************************************************)
EXTENDS TestFirmware, CLibrary

VARIABLE test

NoCall == /\ routine = "none" /\ dst = 0 /\ src = 0 /\ left = 0 /\ ram = <<>>
          /\ result = 0 /\ call = [routine |-> "none"]

TestsInit ==
    /\ FirmwareInit
    /\ \/ test = "firmware" /\ NoCall
       \/ test = "library" /\ LibraryInit

TestsNext ==
    \/ test = "firmware" /\ FirmwareNext /\ UNCHANGED <<libraryVars, test>>
    \/ test = "library"  /\ LibraryNext  /\ UNCHANGED <<allVars, test>>

TestsSpec == TestsInit /\ [][TestsNext]_<<allVars, libraryVars, test>>
=============================================================================
