------------------------------ MODULE MCDeploy ------------------------------
(***************************************************************************)
(* A ZisK cluster on two hosts, and an OpenVM cluster whose second host    *)
(* has two workers in one version of the configuration and one in the      *)
(* other.  Some versions cannot be deployed: a verifying key of another    *)
(* guest, two ZisK workers on one host, and two OpenVM workers on a host   *)
(* with one CPU.                                                           *)
(***************************************************************************)
EXTENDS Deploy

Shared(family) ==
    [zkvm |-> family, zkvmVersion |-> "1", image |-> "", imageTag |-> "", verbose |-> 0,
     guests |-> <<[elf |-> "g1", vk |-> "g1"]>>,
     coordinator |-> [ssh |-> "n1", ip |-> "10.0.0.1"],
     sidecars |-> <<[ssh |-> "n2", kind |-> SidecarNode, nvHostEngine |-> ""]>>]

Worker(ssh, ip, gpus) == [ssh |-> ssh, ip |-> ip, gpus |-> gpus]

Zisk ==
    Shared("zisk") @@
    [workers |-> <<Worker("n1", "", <<0>>), Worker("n2", "", <<0, 1>>)>>,
     prover |-> [k \in ZiskSettings |-> 0]]

Openvm ==
    Shared("openvm") @@
    [workers |-> <<Worker("n2", "10.0.0.2", <<0>>), Worker("n2", "10.0.0.2", <<1>>)>>,
     prover |-> [k \in OpenvmSettings |-> 0]]

WithOtherVK(cfg) == [cfg EXCEPT !.guests[1].vk = "g2"]

MCConfigs ==
    {Zisk, WithOtherVK(Zisk), [Zisk EXCEPT !.workers[2].ssh = "n1"],
     Openvm, [Openvm EXCEPT !.workers = <<Worker("n2", "10.0.0.2", <<0>>)>>], WithOtherVK(Openvm),
     [Openvm EXCEPT !.workers = <<Worker("n1", "", <<0>>), Worker("n1", "", <<1>>)>>,
                    !.sidecars = <<>>]}

MCHosts == {"n1", "n2"}
MCDaemon == [h \in MCHosts |-> IF h = "n1" THEN 1 ELSE 2]
=============================================================================
