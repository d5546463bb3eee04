------------------------------ MODULE MCBroker ------------------------------
(***************************************************************************)
(* Instances of Broker for TLC.                                            *)
(***************************************************************************)
EXTENDS Broker, TLC

CONSTANTS f1, f2, c1, r1, m1

TopicA  == <<"a">>
TopicAB == <<"a", "/", "b">>

OneTopic  == {TopicA}
OneFilter == {TopicA}

\* A topic of two levels, and two filters: one that matches it with a wildcard
\* and one that is a proper prefix.
DeepTopic == {TopicAB}
WildcardAndPrefix == {TopicA, <<"a", "/", "#">>}

Symmetric == Permutations({f1, f2})
=============================================================================
