---------------------------- MODULE MCTopicMatch ----------------------------
(***************************************************************************)
(* Every well-formed filter and every topic name up to MaxPieces words and *)
(* separators, built piece by piece, so that TLC visits each pair once.    *)
(***************************************************************************)
EXTENDS TopicMatch

CONSTANTS Words,       \* ordinary words
          Cuts,        \* separators
          MaxPieces    \* bound on the length of a name

ASSUME MCAssumption ==
    Cuts \subseteq Separators /\ Words \cap (Separators \union {"+", "#"}) = {}

VARIABLES filter, topic

vars == <<filter, topic>>

Init == filter = <<>> /\ topic = <<>>

\* What may follow a name: a separator, and a word where none has just ended.
Pieces(name, words) ==
    IF name = <<>> \/ ~IsToken(name[Len(name)]) THEN words \union Cuts ELSE Cuts

AddToFilter ==
    /\ Len(filter) < MaxPieces
    /\ \A i \in 1..Len(filter) : filter[i] # "#"
    /\ \E w \in Pieces(filter, Words \union {"+", "#"}) : filter' = Append(filter, w)
    /\ UNCHANGED topic

AddToTopic ==
    /\ Len(topic) < MaxPieces
    /\ \E w \in Pieces(topic, Words) : topic' = Append(topic, w)
    /\ UNCHANGED filter

Next == AddToFilter \/ AddToTopic

Spec == Init /\ [][Next]_vars

\* Names a client can send: not the empty string.
Names == filter # <<>> /\ topic # <<>>

F == tokenize(filter)
T == tokenize(topic)

-----------------------------------------------------------------------------
\* checkWildCards delivers a publication exactly to the subscriptions that
\* mean its topic, token by token, with two exceptions of the code: a filter
\* "a/#" misses the parent "a", and a name made of separators alone is only
\* met by equality or by "#".
LiveMatchExact ==
    Names => (checkWildCards(filter, topic).matched
              <=> \/ filter = topic \/ filter = <<"#">>
                  \/ T # <<>> /\ Means(F, T) /\ ~ParentLevel(F, T))

\* checkWildCards reads past the filter's tokens exactly when the filter is a
\* proper prefix of the topic (a subscription to "a" and a publication of
\* "a/b").
LiveOobExact ==
    Names => (checkWildCards(filter, topic).oob
              <=> /\ filter # topic
                  /\ Len(F) < Len(T) /\ Covers(F, T, Len(F)))

\* GetMatchedTopics returns exactly the retained topics the filter means (the
\* parent level included), everything for "#" and "/#", and one thing more:
\* '+' is skipped without looking whether the topic has the level, so that
\* "b/+/#" is given the retained "b".
RetainedMatchExact ==
    Names => (GetMatched(filter, topic).matched
              <=> \/ filter \in {<<"#">>, <<"/", "#">>}
                  \/ F # <<>> /\ Means(F, T)
                  \/ PlusBeyond(F, T))

\* GetMatchedTopics reads past the stored topic's tokens exactly when the
\* stored topic is shorter and every common level is met, the filter's
\* further levels being skipped as long as they are '+'.
RetainedOobExact ==
    Names => (GetMatched(filter, topic).oob
              <=> /\ filter \notin {<<"#">>, <<"/", "#">>}
                  /\ \E n \in (Len(T) + 1)..Len(F) :
                        /\ F[n] # "+"
                        /\ Covers(F, T, Len(T))
                        /\ \A i \in (Len(T) + 1)..(n - 1) : F[i] = "+")

\* What a new subscription is given from the retained topics is what it
\* would have received live: the two loops differ only where a '#' lies beyond
\* the end of the topic and on names made of separators alone.
RetainedAgreesWithLive ==
    Names /\ T # <<>> /\ ~ParentLevel(F, T) /\ ~PlusBeyond(F, T) =>
        (GetMatched(filter, topic).matched
         <=> checkWildCards(filter, topic).matched)
=============================================================================
