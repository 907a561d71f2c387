---------------------------- MODULE MCAlgorithms ----------------------------
(***************************************************************************)
(* Answers of up to two strings of many kinds or three of a few, with      *)
(* every status that the code tells apart; streams of up to four events.   *)
(***************************************************************************)
EXTENDS Algorithms
CONSTANTS p1, p2

Plain(words) == [words |-> words, resets |-> FALSE, time |-> 0, stops |-> FALSE]

\* Strings with a word or two, and strings that announce a reset or continue one.
SomeTexts ==
    {Plain({w}) : w \in Words} \cup {Plain({})} \cup
    {Plain(ws) : ws \in {{"quota", "auth"}, {"quota", "5h"}, {"quota", "week", "month"},
                         {"creditserror", "billing"}, {"balance", "auth"}, {"auth", "rate"}}} \cup
    [words : {{}, {"quota"}, {"rate"}}, resets : BOOLEAN, time : {0, 2}, stops : BOOLEAN]

FewTexts ==
    {Plain({"quota"}), Plain({"creditserror"}), Plain({"billing"}), Plain({"auth"})} \cup
    [words : {{"week"}}, resets : BOOLEAN, time : {0, 2}, stops : {TRUE}]

Upto(n, texts) == UNION {[1..m -> texts] : m \in 0..n}

SomeReplies ==
    [status : {200, 301, 401, 403, 404, 429, 500}, retry : {NoReset, -1, 3},
     texts : Upto(2, SomeTexts)]
    \cup [status : {200, 401}, retry : {NoReset}, texts : [1..3 -> FewTexts]]

Object(i, r, w, o) == [input |-> i, read |-> r, write |-> w, output |-> o]
Silent(root, message) == [texts |-> <<>>, root |-> root, message |-> message]
Speaks(texts, root)   == [texts |-> texts, root |-> root, message |-> Absent]

\* The start of a message with its cache, later counts of one kind or another, a
\* cached part without, with and beyond its input, usage at two places at once;
\* a quota error with usage and without, a text about credentials, and a comment.
SomeEvents ==
    {Silent(Absent, Absent),
     Silent(Absent, Object(1, 2, 1, 1)),
     Silent(Object(Absent, Absent, Absent, 2), Absent),
     Silent(Object(2, Absent, Absent, Absent), Absent),
     Silent(Object(Absent, 1, Absent, 1), Absent),
     Silent(Object(2, 1, Absent, 1), Absent),
     Silent(Object(3, 0, Absent, Absent), Object(Absent, Absent, 2, 0)),
     Speaks(<<Plain({"quota"})>>, Absent),
     Speaks(<<Plain({"week"}), Plain({"balance"})>>, Object(1, 1, 0, 0)),
     Speaks(<<Plain({"auth"})>>, Absent)}
=============================================================================
