--------------------------- MODULE AttributeIndex ---------------------------
(***************************************************************************)
(* Filters over attributes, by the two ways the engine evaluates them:     *)
(* Filter.Match on one document (types.go), and compileFilter over the     *)
(* bitmap attribute index of an epoch (indexer.go, query.go), with the     *)
(* plan that is made from its result.                                      *)
(*                                                                         *)
(* Attributes are a function from some fields to values [kind, v]; the     *)
(* kinds int and float64 are numeric, a list is not a scalar.  A filter is *)
(* [op, field, value, sub].  Ordinals and clusters start at 1.             *)
(***************************************************************************)
EXTENDS Bitmap, Ordering, SequencesExt

CONSTANTS Filters,               \* the filters that are tried, with their parts
          TextField,             \* the field ranked by text, never indexed
          MinFieldCardinality,   \* minFieldCardinality, 64 in the code
          FilterFirstPercent     \* filterFirstThreshold, 5 in the code

ASSUME AttributeAssumption ==
  /\ MinFieldCardinality \in Nat
  /\ FilterFirstPercent \in 0..100

(* A filter is a finite tree: no filter is nested in itself.               *)
ASSUME FilterAssumption ==
  /\ \A f \in Filters : f.sub \in Seq(Filters)
  /\ \A F \in SUBSET Filters : F # {} => \E f \in F : ToSet(f.sub) \cap F = {}

Numeric(value) == value.kind \in {"int", "float64"}

(* Numbers are equal by value whatever their kind; a number is never       *)
(* equal to anything else.                                                 *)
EqualValues(a, b) ==
  /\ Numeric(a) = Numeric(b)
  /\ a.v = b.v
  /\ ~ Numeric(a) => a.kind = b.kind

(* Whether a filter holds of attributes, from whether its parts do.        *)
Holding(f, parts, attrs) ==
  CASE f.op \in {"", "all"} -> TRUE
    [] f.op = "eq"  -> f.field \in DOMAIN attrs /\ EqualValues(attrs[f.field], f.value)
    [] f.op = "and" -> \A i \in DOMAIN f.sub : parts[i]
    [] f.op = "or"  -> \E i \in DOMAIN f.sub : parts[i]
    [] OTHER -> FALSE

Match(filter, attrs) ==
  LET Of[f \in Filters] == Holding(f, [i \in DOMAIN f.sub |-> Of[f.sub[i]]], attrs)
  IN  Of[filter]

-----------------------------------------------------------------------------
(* The key a value is indexed under.                                       *)
Scalar(value) == value.kind # "list"

\* Mutant of ValueKey: the kinds of numbers are told apart.
ValueKeyTyped(value) == <<value.kind, value.v>>

ValueKey(value) == <<Numeric(value), IF Numeric(value) THEN "" ELSE value.kind, value.v>>

(* bitmaps.json over the live documents: docs maps ids to attributes,      *)
(* clusterOf maps the ids that have a vector to clusters.  A field with    *)
(* more than MinFieldCardinality values and more than one for every two    *)
(* documents is left out.                                                  *)
BuildAttributeIndex(docs, clusterOf) ==
  LET ords   == Ascending(DOMAIN docs)
      Fields == UNION {DOMAIN docs[id] : id \in DOMAIN docs} \ {TextField}
      Carriers(field) == {o \in DOMAIN ords :
                            field \in DOMAIN docs[ords[o]] /\ Scalar(docs[ords[o]][field])}
      Key(field, o) == ValueKey(docs[ords[o]][field])
      Keys(field) == {Key(field, o) : o \in Carriers(field)}
      Indexed(field) ==
        LET n == Cardinality(Keys(field))
        IN  n > 0 /\ (n <= MinFieldCardinality \/ n <= Len(ords) \div 2)
  IN  [ords |-> ords,
       clusterOf |-> [o \in DOMAIN ords |->
                        IF ords[o] \in DOMAIN clusterOf THEN clusterOf[ords[o]] ELSE 0],
       values |-> [field \in {f \in Fields : Indexed(f)} |->
                     [key \in Keys(field) |->
                        {o \in Carriers(field) : Key(field, o) = key}]]]

NotCompiled == [ok |-> FALSE, bits |-> NewBitmap]

(* The ordinals that satisfy a filter, or NotCompiled where some part of   *)
(* it cannot be expressed.                                                 *)
Compiled(f, parts, af) ==
  LET whole == f.sub # <<>> /\ \A i \in DOMAIN f.sub : parts[i].ok
      Fold(op(_, _), first, rest) ==
        [ok |-> TRUE, bits |-> FoldLeft(LAMBDA acc, p : op(acc, p.bits), first, rest)]
      key == ValueKey(f.value)
  IN  CASE f.op = "eq" /\ f.field \in DOMAIN af.values /\ Scalar(f.value) ->
             [ok |-> TRUE,
              bits |-> BitmapFrom(IF key \in DOMAIN af.values[f.field]
                                  THEN af.values[f.field][key] ELSE {})]
        [] f.op = "and" /\ whole -> Fold(BitmapAnd, parts[1].bits, Tail(parts))
        [] f.op = "or"  /\ whole -> Fold(BitmapOr, NewBitmap, parts)
        [] OTHER -> NotCompiled

CompileFilter(filter, af) ==
  LET Of[f \in Filters] == Compiled(f, [i \in DOMAIN f.sub |-> Of[f.sub[i]]], af)
  IN  Of[filter]

-----------------------------------------------------------------------------
(* The plan of a vector query: the candidates with the cluster each lies   *)
(* in, the clusters, and whether to gather the candidates directly.        *)
NoPlan == [usable |-> FALSE, filterFirst |-> FALSE, wanted |-> {}, clusters |-> {}]

Selective(cands, af) ==
  Len(af.ords) > 0 /\ 100 * BitmapLen(cands) < FilterFirstPercent * Len(af.ords)

PlanVectorQuery(f, af) ==
  LET compiled == CompileFilter(f, af)
      inCluster == {o \in Elements(compiled.bits) : af.clusterOf[o] > 0}
  IN  IF f.op \in {"", "all"} \/ ~ compiled.ok THEN NoPlan
      ELSE [usable |-> TRUE,
            filterFirst |-> Selective(compiled.bits, af),
            wanted |-> {<<af.clusterOf[o], af.ords[o]>> : o \in inCluster},
            clusters |-> {af.clusterOf[o] : o \in inCluster}]
=============================================================================
