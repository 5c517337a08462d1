-------------------------- MODULE MCProcessorDetect --------------------------
(* Constants of ProcessorDetect for TLC.                                   *)
EXTENDS ProcessorDetect

Machine(vendor, family, mod, parts) ==
    [vendor |-> vendor, family |-> family, model |-> mod, parts |-> parts]

(* Every Intel model of the tables and models around them, other families, *)
(* every AMD family and its neighbours, and a vendor that is not known.    *)
X86 ==
    {Machine("GenuineIntel", 6, m, <<0, 0>>) : m \in 0 .. 95 \cup {142, 158, 165}}
      \cup {Machine("GenuineIntel", f, 2, <<0, 0>>) : f \in {5, 11, 15}}
      \cup {Machine("AuthenticAMD", f, 1, <<0, 0>>) : f \in 5 .. 25}
      \cup {Machine("CentaurHauls", 6, 15, <<0, 0>>)}

(* Pairs of cores, the same or not, of known kinds and of one that is not. *)
ArmParts == {ArmPart[t] : t \in DOMAIN ArmPart} \cup {3335}
Arm == {Machine("ARM", 0, 0, ps) : ps \in ArmParts \X ArmParts}

AllMachines == X86 \cup Arm \cup {Machine("POWER6", 0, 0, <<0, 0>>)}
=============================================================================
