------------------------------- MODULE Bm25 ---------------------------------
(***************************************************************************)
(* The full-text index of an epoch and the ranking function of text        *)
(* queries (internal/engine/bm25.go), which scores a document in two ways: *)
(* from the postings if it is indexed, from its own text if it is in the   *)
(* tail.                                                                   *)
(*                                                                         *)
(* A text is a number; Tokens gives the terms the analyzer makes of it.    *)
(* Scores are in fixed point, a score of 1 being Unit, and each term's     *)
(* share is rounded down, where the code rounds to a float64.  The idf, a  *)
(* logarithm, is a table.                                                  *)
(***************************************************************************)
EXTENDS Integers, Sequences, SequencesExt, FiniteSetsExt

CONSTANTS Tokens,  \* the terms of each text, a sequence
          Unit,    \* the fixed-point representation of 1
          IDF      \* bm25IDF at <<N, df>>, in units of 1 / Unit

(* ln(1 + (N - df + 1/2) / (df + 1/2)) is positive and falls as df grows.  *)
(* The unit is so fine that no share of a term that occurs is rounded to 0.*)
ASSUME Bm25Assumption ==
  /\ Tokens \in [DOMAIN Tokens -> Seq(STRING)]
  /\ Unit \in Nat \ {0}
  /\ \A p \in DOMAIN IDF : IDF[p] \in Nat \ {0} /\ IDF[p] >= p[1]
  /\ \A p, r \in DOMAIN IDF : (p[1] = r[1] /\ p[2] < r[2]) => IDF[p] > IDF[r]

Tokenize(text) == Tokens[text]

Freq(terms, t) == Cardinality({i \in DOMAIN terms : terms[i] = t})

(* The BM25File a query starts from: no document.                          *)
EmptyBM25 == [N |-> 0, totalLen |-> 0, DocLen |-> <<>>, Index |-> <<>>]

(* The postings and statistics over texts, a function of ids.  AvgDL is    *)
(* totalLen / N.                                                           *)
BuildBM25(texts) ==
  LET Terms(id) == Tokenize(texts[id])
      Postings(t) == {[ID |-> id, TF |-> Freq(Terms(id), t)] :
                         id \in {d \in DOMAIN texts : t \in ToSet(Terms(d))}}
  IN  [N        |-> Cardinality(DOMAIN texts),
       totalLen |-> SumFunction([id \in DOMAIN texts |-> Len(Terms(id))]),
       DocLen   |-> [id \in DOMAIN texts |-> Len(Terms(id))],
       Index    |-> [t \in UNION {ToSet(Terms(id)) : id \in DOMAIN texts} |-> Postings(t)]]

PostingsOf(idx, t) == IF t \in DOMAIN idx.Index THEN idx.Index[t] ELSE {}

TermIDF(idx, t) == IDF[<<idx.N, Cardinality(PostingsOf(idx, t))>>]

(* idf * tf * (k1 + 1) / (tf + k1 * (1 - b + b * docLen / avgDL)) with     *)
(* k1 = 1.2 and b = 0.75, the whole fraction multiplied by 10 * totalLen;  *)
(* without an average the length does not count.                           *)
TermScore(idx, t, tf, docLen) ==
  IF idx.totalLen = 0 THEN (TermIDF(idx, t) * tf * 22) \div (10 * tf + 3)
  ELSE (TermIDF(idx, t) * tf * 22 * idx.totalLen)
         \div (10 * tf * idx.totalLen + 3 * idx.totalLen + 9 * docLen * idx.N)

(* The score of every indexed document that has one of the terms; a term   *)
(* that the query repeats counts each time.                                *)
Score(idx, queryTerms) ==
  LET matched == UNION {{p.ID : p \in PostingsOf(idx, queryTerms[i])} : i \in DOMAIN queryTerms}
      Of(id, t) == {p \in PostingsOf(idx, t) : p.ID = id}
      Share(id, t) == SumFunction([p \in Of(id, t) |-> TermScore(idx, t, p.TF, idx.DocLen[id])])
  IN  [id \in matched |-> SumFunction([i \in DOMAIN queryTerms |-> Share(id, queryTerms[i])])]

(* The score of any text, by the statistics of the index.                  *)
ScoreDoc(idx, text, queryTerms) ==
  LET terms == Tokenize(text)
      Share(t) == IF t \in ToSet(terms) THEN TermScore(idx, t, Freq(terms, t), Len(terms)) ELSE 0
  IN  SumFunction([i \in DOMAIN queryTerms |-> Share(queryTerms[i])])
=============================================================================
