--------------------------- MODULE MetadataIndex ---------------------------
(***************************************************************************)
(* The attribute index of src/internal/index/metadata.go as operators on   *)
(* m.idx: the entries for each name and value. The attributes of an entry, *)
(* and the filters of a search, are a function from some names to values.  *)
(* A definition marked "Variant" is a plausible mistake in the definition  *)
(* after it and is used nowhere.                                           *)
(***************************************************************************)
EXTENDS Naturals

CONSTANTS
  Names,      \* the names of attributes as users spell them
  Values,     \* the values of attributes, likewise
  Blank,      \* the empty name
  Canonical,  \* Canonical[n]: n trimmed and in lower case, may be Blank
  Trimmed     \* Trimmed[v]: v without the space around it

ASSUME MetadataAssumption ==
  /\ Blank \notin Names
  /\ Canonical \in [Names -> Names \cup {Blank}]
  /\ Trimmed \in [Values -> Values]

NoAttributes == [n \in Names |-> [v \in Values |-> {}]]

\* Some name of md is spelled like n and has a value like v.
Has(md, n, v) ==
  \E m \in DOMAIN md : Canonical[m] = n /\ Trimmed[md[m]] = v

RemoveEntry(idx, i) == [n \in Names |-> [v \in Values |-> idx[n][v] \ {i}]]

\* Set: no entry is found under the empty name.
SetEntry(idx, i, md) ==
  [n \in Names |-> [v \in Values |->
     RemoveEntry(idx, i)[n][v] \cup (IF Has(md, n, v) THEN {i} ELSE {})]]

\* EncodeSnapshot and DecodeMetadataSnapshot: the entries of each name and value.
EncodedAttributes(idx) ==
  UNION {{<<n, v, i>> : i \in idx[n][v]} : n \in Names, v \in Values}

LoadedAttributes(file) ==
  [n \in Names |-> [v \in Values |-> {t[3] : t \in {u \in file : u[1] = n /\ u[2] = v}}]]

Posting(idx, n, v) == IF n = Blank THEN {} ELSE idx[n][v]

\* Variant: names are taken as they are spelled.
FoundSpelled(idx, filters, n) == Posting(idx, n, Trimmed[filters[n]])

\* The entries one filter finds.
Found(idx, filters, n) == Posting(idx, Canonical[n], Trimmed[filters[n]])

\* Match, for at least one filter: what all of them find.
Match(idx, filters) ==
  {i \in UNION {Found(idx, filters, n) : n \in DOMAIN filters} :
     \A n \in DOMAIN filters : i \in Found(idx, filters, n)}
=============================================================================
