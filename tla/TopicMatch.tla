----------------------------- MODULE TopicMatch -----------------------------
(***************************************************************************)
(* How the broker decides that a topic name is meant by a topic filter.    *)
(* Two loops of the program do it, and they are not the same loop:         *)
(*                                                                         *)
(*   - Client::checkWildCards walks over the levels of the PUBLISHED name  *)
(*     and decides who receives a publication;                             *)
(*   - CTopicStorage::GetMatchedTopics walks over the levels of the FILTER *)
(*     and decides which retained messages a new subscription receives.    *)
(*                                                                         *)
(* A name is a sequence of words and separators: "/a" is <<"/", "a">>.     *)
(* Besides '/', white space and '|' separate tokens for these loops, but   *)
(* not for the comparisons of whole names.  Each loop is given by the      *)
(* indices it reaches without stopping before.                             *)
(***************************************************************************)
EXTENDS Naturals, Sequences

\* tokenize() cuts at every run of separators and drops the empty tokens.
Separators == {"/", " ", "|"}
IsToken(piece) == piece \notin Separators
tokenize(name) ==
    LET tokens[i \in 0..Len(name)] ==
            IF i = 0 THEN <<>>
            ELSE IF IsToken(name[i]) THEN Append(tokens[i - 1], name[i]) ELSE tokens[i - 1]
    IN  tokens[Len(name)]

\* Verdict of a walk.  "oob" is set when the walk reads a token past the end
\* of the shorter name: undefined behaviour, which in this build either ends
\* the process or compares unequal.
Verdict == [matched : BOOLEAN, oob : BOOLEAN]

-----------------------------------------------------------------------------
(* Client::checkWildCards: F are the tokens of a subscribed filter, T those *)
(* of the published name.                                                   *)

\* The bug of a walk that goes on behind a level that differs.
LivePassesNoBreak(F, T, i) == i <= Len(F) /\ F[i] # "#"

\* Iteration i neither returns nor breaks.
LivePasses(F, T, i) ==
    i <= Len(F) /\ F[i] # "#" /\ F[i] \in {"+", T[i]}

LiveReaches(F, T, i) == \A j \in 1..(i-1) : LivePasses(F, T, j)

\* The bug of a walk that does not compare the lengths at the last level.
LiveWalkNoLength(F, T) ==
    [matched |-> \E i \in 1..Len(T) :
                    /\ LiveReaches(F, T, i)
                    /\ i <= Len(F)
                    /\ \/ F[i] = "#"
                       \/ i = Len(T) /\ F[i] \in {"+", T[i]},
     oob     |-> \E i \in 1..Len(T) : LiveReaches(F, T, i) /\ i > Len(F)]

\* The bug of a walk that tests '#' only behind the comparison of the lengths.
LiveWalkLastHash(F, T) ==
    [matched |-> \E i \in 1..Len(T) :
                    /\ LiveReaches(F, T, i)
                    /\ i <= Len(F)
                    /\ i = Len(T) /\ i = Len(F) /\ F[i] \in {"+", "#", T[i]},
     oob     |-> \E i \in 1..Len(T) : LiveReaches(F, T, i) /\ i > Len(F)]

LiveWalk(F, T) ==
    [matched |-> \E i \in 1..Len(T) :
                    /\ LiveReaches(F, T, i)
                    /\ i <= Len(F)
                    /\ \/ F[i] = "#"
                       \/ i = Len(T) /\ i = Len(F) /\ F[i] \in {"+", T[i]},
     oob     |-> \E i \in 1..Len(T) : LiveReaches(F, T, i) /\ i > Len(F)]

checkWildCards(filter, topic) ==
    IF filter = <<"#">> \/ topic = filter
    THEN [matched |-> TRUE, oob |-> FALSE]
    ELSE LiveWalk(tokenize(filter), tokenize(topic))

-----------------------------------------------------------------------------
(* CTopicStorage::GetMatchedTopics: F are the tokens of the filter, S those *)
(* of a retained topic.  A '#' inserts the topic and then still compares    *)
(* the level, which is read past the end when S is the parent of F.         *)

\* The bug of a walk that goes on behind a level that differs.
RetainedPassesNoBreak(F, S, i) == F[i] = "+" \/ (i <= Len(S) /\ F[i] # "#")

RetainedPasses(F, S, i) ==
    F[i] = "+" \/ (i <= Len(S) /\ F[i] # "#" /\ F[i] = S[i])

RetainedReaches(F, S, i) == \A j \in 1..(i-1) : RetainedPasses(F, S, j)

\* The bug of a walk that takes '#' for a level to compare.
RetainedWalkNoHash(F, S) ==
    [matched |-> \E i \in 1..Len(F) :
                    /\ RetainedReaches(F, S, i)
                    /\ i = Len(F) /\ i = Len(S) /\ F[i] \in {"+", S[i]},
     oob     |-> \E i \in 1..Len(F) :
                    RetainedReaches(F, S, i) /\ F[i] # "+" /\ i > Len(S)]

RetainedWalk(F, S) ==
    [matched |-> \E i \in 1..Len(F) :
                    /\ RetainedReaches(F, S, i)
                    /\ \/ F[i] = "#"
                       \/ i = Len(F) /\ i = Len(S) /\ F[i] \in {"+", S[i]},
     oob     |-> \E i \in 1..Len(F) :
                    RetainedReaches(F, S, i) /\ F[i] # "+" /\ i > Len(S)]

GetMatched(filter, stored) ==
    IF filter \in {<<"#">>, <<"/", "#">>}
    THEN [matched |-> TRUE, oob |-> FALSE]
    ELSE RetainedWalk(tokenize(filter), tokenize(stored))

-----------------------------------------------------------------------------
(* What a filter means, stated without a walk: level by level, with '+' for *)
(* one level and a final '#' for the parent and everything below it.        *)

IsFilter(F) == \A i \in 1..Len(F) : F[i] = "#" => i = Len(F)
IsTopic(T)  == \A i \in 1..Len(T) : T[i] \notin {"+", "#"}

Covers(F, T, n) == \A i \in 1..n : F[i] \in {"+", T[i]}

Means(F, T) ==
    \/ Len(F) = Len(T) /\ Covers(F, T, Len(F))
    \/ /\ F # <<>> /\ F[Len(F)] = "#"
       /\ Len(F) - 1 <= Len(T) /\ Covers(F, T, Len(F) - 1)

\* F is T's own name followed by '#': the parent level of the wildcard.
ParentLevel(F, T) == Means(F, T) /\ Len(F) = Len(T) + 1

\* F is T's own name followed by one or more '+' and a '#': it asks for topics
\* with more levels than T has.
PlusBeyond(F, T) ==
    /\ Len(F) > Len(T) + 1 /\ F[Len(F)] = "#"
    /\ Covers(F, T, Len(T))
    /\ \A i \in (Len(T) + 1)..(Len(F) - 1) : F[i] = "+"
=============================================================================
