---------------------------- MODULE MCForwarder ----------------------------
(***************************************************************************)
(* Small instances of Forwarder.  The two commitments have three bytes and *)
(* agree in the first.  The fixtures expect an output that is shorter than *)
(* both, one that is as long as they are, and one that is longer by a zero *)
(* byte: of the six pairs two match, and each part of the judgement        *)
(* decides one of the others.                                              *)
(***************************************************************************)
EXTENDS Forwarder

MCPublicValues == {<<1, 0, 0>>, <<1, 2, 0>>}
MCExpectedOutputs == {<<1>>, <<1, 2, 0>>, <<1, 2, 0, 0>>}
MCOneExpectedOutput == {<<1>>}
MCOnePublicValue == {<<1, 0>>}
MCAllConfigurations == [failRun : BOOLEAN, readinessTrusted : BOOLEAN]
MCFailTest == {[failRun |-> FALSE, readinessTrusted |-> TRUE]}
MCFailRun == {[failRun |-> TRUE, readinessTrusted |-> FALSE]}
MCWarmupOutput == <<1>>
=============================================================================
