------------------------------ MODULE MCGpdNwk ------------------------------
(***************************************************************************)
(* Every header: both types at every level.  Bits of an extension that is  *)
(* not there are clear, and maintenance frames have one value for the      *)
(* address they do not carry.                                              *)
(***************************************************************************)
EXTENDS GpdNwk

MCHeads ==
  {h \in [macLong : BOOLEAN, type : {"data", "maint"}, autoCom : BOOLEAN,
          ext : BOOLEAN, toGpd : BOOLEAN, rx : BOOLEAN, level : Levels, srcId : {Own, 9}] :
     /\ ~h.ext => ~h.rx /\ h.level = 0 /\ h.toGpd
     /\ h.type = "maint" => h.srcId = Own}
=============================================================================
