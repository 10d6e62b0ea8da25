------------------------------- MODULE MCSlmp -------------------------------
(* Instances of Slmp for model checking: slave "a" takes new addresses,    *)
(* slave "b" must not: it is only offered the address it has, which no     *)
(* other slave may take.  Addresses are pairs of a slave and a number.     *)
EXTENDS Slmp

MCSlaves == {"a", "b"}
MCFirstIp == [s \in MCSlaves |-> <<s, 0>>]
MCNewIps == [s \in MCSlaves |-> {IF s = "a" THEN <<s, 1>> ELSE MCFirstIp[s]}]
MCAllowed == {"a"}
MCDelay == [s \in MCSlaves |-> IF s = "a" THEN 0 ELSE 1]
=============================================================================
