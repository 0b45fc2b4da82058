--------------------------- MODULE MCVectorEpoch ----------------------------
(***************************************************************************)
(* VectorEpoch for TLC.  A namespace is loaded in one of a few ways and    *)
(* then changed one document at a time, with builds in between.            *)
(***************************************************************************)
EXTENDS VectorEpoch

Number(n) == [kind |-> "float64", v |-> n]
Text(n)   == [kind |-> "str", v |-> n]

Body(vec, attrs) == [deleted |-> FALSE, vec |-> vec, attrs |-> attrs]
Tombstone == [deleted |-> TRUE, vec |-> NoVec, attrs |-> <<>>]

Near   == Body(0, [lang |-> Number(1), body |-> Text(1)])
Middle == Body(Scale, [lang |-> Text(1), body |-> Text(0)])
Far    == Body(4 * Scale, [lang |-> Number(1), body |-> Text(2)])
Plain  == Body(NoVec, [lang |-> Text(1), body |-> Text(1)])
Listed == Body(2 * Scale, [lang |-> [kind |-> "list", v |-> 1]])

Bodies == {Near, Middle, Far, Plain, Listed, Tombstone}

Loads == {[id \in 1..4 |-> <<Near, Near, Far, Plain>>[id]],
          [id \in 1..4 |-> <<Middle, Near, Far, Middle>>[id]],
          [id \in 1..5 |-> <<Near, Far, Near, Middle, Far>>[id]]}

TryBatches ==
  Loads \cup {[id \in {1} |-> b] : b \in Bodies}
        \cup {[id \in {2} |-> b] : b \in {Far, Tombstone}}
        \cup {[id \in {5} |-> b] : b \in {Near, Listed, Tombstone}}

Leaf(field, value) == [op |-> "eq", field |-> field, value |-> value, sub |-> <<>>]
Node(op, sub) == [op |-> op, field |-> "", value |-> Number(0), sub |-> sub]
OneInt == [kind |-> "int", v |-> 1]

TryFilters ==
  {Node("", <<>>),
   Leaf("lang", OneInt),
   Leaf("body", Text(1)),
   Node("and", <<Leaf("lang", OneInt), Leaf("lang", Text(1))>>),
   Node("or", <<Leaf("lang", OneInt), Leaf("lang", Text(1))>>),
   Node("and", <<Leaf("lang", Text(1)), Node("or", <<Leaf("lang", Text(1)), Leaf("lang", Number(2))>>)>>)}

PartsOf(filters) == filters \cup UNION {ToSet(f.sub) : f \in filters}
WithParts == PartsOf(PartsOf(TryFilters))

(* Narrow and wide queries; of the texts, one has a term that no document  *)
(* has and the other repeats a term.                                       *)
Widths == {[topK |-> 1, nProbe |-> 1, text |-> <<"b", "c">>],
           [topK |-> 1, nProbe |-> 5, text |-> <<"b", "c">>],
           [topK |-> 3, nProbe |-> 5, text |-> <<"a", "a", "b">>]}

TryQueries ==
  {[pos |-> Scale, text |-> w.text, filter |-> f, topK |-> w.topK, nProbe |-> w.nProbe] :
     f \in TryFilters, w \in Widths}

(* The terms of the texts 0, 1 and 2.                                      *)
TryTokens == [text \in 0..2 |-> <<<<>>, <<"b", "a">>, <<"a", "b", "a">>>>[text + 1]]

(* 1000 * ln(1 + (N - df + 1/2) / (df + 1/2)), rounded; a row for each N.  *)
IDFRows ==
  <<<<693>>, <<1386, 288>>, <<1792, 693, 182>>, <<2079, 981, 470, 134>>,
    <<2303, 1204, 693, 357, 105>>, <<2485, 1386, 875, 539, 288, 87>>>>

TryIDF == [p \in {r \in (0..5) \X (0..5) : r[2] <= r[1]} |-> IDFRows[p[1] + 1][p[2] + 1]]
=============================================================================
