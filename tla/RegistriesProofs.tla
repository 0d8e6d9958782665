-------------------------- MODULE RegistriesProofs --------------------------
(***************************************************************************)
(* Proofs about the registries of a client: Multicodecs, for every table   *)
(* of names and codes, and Multibases, for every table of bases, and any   *)
(* number of gets of each.                                                 *)
(***************************************************************************)
EXTENDS CodecRefinement, TLAPS

-----------------------------------------------------------------------------
(* Codecs and hashers.                                                     *)

\* A codec whose name and code belong together.
IsRow(c) == c \in Codec /\ c.code = CodeOf[c.name]

\* All codecs in the tables and in the hands of callers are rows.
RowsOnly ==
  /\ \A n \in Names : byName[n] # NoCodec => IsRow(byName[n])
  /\ \A k \in Codes : byCode[k] # NoCodec => IsRow(byCode[k])
  /\ \A g \in Gets : result[g] # NoCodec => IsRow(result[g])

\* TablesAgree alone is not inductive: removing a codec whose code is not that
\* of its name would leave half an entry of two others.
RegistryInv == TypeOK /\ RowsOnly /\ TablesAgree

\* The constructor leaves two tables that agree (multicodecs.ts, constructor).
LEMMA InitRegistry == Init => RegistryInv
<1> SUFFICES ASSUME Init PROVE RegistryInv
  OBVIOUS
<1>1. PICK given \in SUBSET (Names \ {Nameless}) :
        /\ byName = [n \in Names |-> IF n \in given THEN Row(n, Given) ELSE NoCodec]
        /\ byCode = [k \in Codes |->
                       IF \E n \in given : CodeOf[n] = k
                       THEN Row(CHOOSE n \in given : CodeOf[n] = k, Given) ELSE NoCodec]
  BY DEF Init
<1>2. \A n \in Names : Row(n, Given) \in Codec /\ IsRow(Row(n, Given))
  BY MulticodecsAssumption DEF Row, Codec, IsRow
<1>3. \A n \in given : byCode[CodeOf[n]] = Row(n, Given)
  <2>1. ASSUME NEW n \in given
        PROVE  (CHOOSE m \in given : CodeOf[m] = CodeOf[n]) = n
    BY MulticodecsAssumption
  <2> QED
    BY <1>1, <2>1, MulticodecsAssumption
<1>4. ASSUME NEW k \in Codes, byCode[k] # NoCodec
      PROVE  \E n \in given : CodeOf[n] = k /\ byCode[k] = Row(n, Given)
  <2>1. \E n \in given : CodeOf[n] = k
    BY <1>1, <1>4
  <2>2. PICK n \in given : n = (CHOOSE m \in given : CodeOf[m] = k) /\ CodeOf[n] = k
    BY <2>1
  <2> QED
    BY <1>1, <2>1, <2>2
<1>5. TypeOK
  BY <1>1, <1>2, <1>4 DEF Init, TypeOK
<1>6. RowsOnly
  BY <1>1, <1>2, <1>4 DEF Init, RowsOnly
<1>7. TablesAgree
  <2>1. \A n \in Names : byName[n] # NoCodec => n \in given /\ byName[n] = Row(n, Given)
    BY <1>1
  <2>2. \A n \in given : byName[n] = Row(n, Given)
    BY <1>1
  <2>3. ASSUME NEW n \in Names, byName[n] # NoCodec
        PROVE  byName[n].name = n /\ byCode[byName[n].code] = byName[n]
    <3>1. n \in given /\ byName[n] = Row(n, Given) /\ byCode[CodeOf[n]] = Row(n, Given)
      BY <2>1, <2>3, <1>3
    <3>2. Row(n, Given).name = n /\ Row(n, Given).code = CodeOf[n]
      BY DEF Row
    <3> QED
      BY <3>1, <3>2
  <2>4. ASSUME NEW k \in Codes, byCode[k] # NoCodec
        PROVE  byCode[k].code = k /\ byName[byCode[k].name] = byCode[k]
    <3>1. PICK n \in given : CodeOf[n] = k /\ byCode[k] = Row(n, Given)
      BY <2>4, <1>4
    <3>2. Row(n, Given).name = n /\ Row(n, Given).code = k
      BY <3>1 DEF Row
    <3> QED
      BY <3>1, <3>2, <2>2
  <2> QED
    BY <2>3, <2>4 DEF TablesAgree
<1> QED
  BY <1>5, <1>6, <1>7 DEF RegistryInv

\* addCodec of a row that is not taken keeps the tables one registry.
LEMMA AddKeeps ==
  ASSUME RegistryInv, NEW c \in Codec, IsRow(c), ~Taken(c), Add(c)
  PROVE  /\ byName' \in [Names -> Codec \cup {NoCodec}]
         /\ byCode' \in [Codes -> Codec \cup {NoCodec}]
         /\ \A n \in Names : byName'[n] # NoCodec => IsRow(byName'[n])
         /\ \A k \in Codes : byCode'[k] # NoCodec => IsRow(byCode'[k])
         /\ TablesAgree'
BY DEF RegistryInv, TypeOK, RowsOnly, TablesAgree, Taken, Add, Codec, IsRow

\* removeCodec of a row keeps them one registry, registered or not.
LEMMA RemoveKeeps ==
  ASSUME RegistryInv, NEW c \in Codec, IsRow(c),
         byName' = [byName EXCEPT ![c.name] = NoCodec],
         byCode' = [byCode EXCEPT ![c.code] = NoCodec]
  PROVE  /\ byName' \in [Names -> Codec \cup {NoCodec}]
         /\ byCode' \in [Codes -> Codec \cup {NoCodec}]
         /\ \A n \in Names : byName'[n] # NoCodec => IsRow(byName'[n])
         /\ \A k \in Codes : byCode'[k] # NoCodec => IsRow(byCode'[k])
         /\ TablesAgree'
<1>1. \A n \in Names : byName[n] # NoCodec /\ n # c.name => byName[n].code # c.code
  BY MulticodecsAssumption DEF RegistryInv, TypeOK, RowsOnly, TablesAgree, Codec, IsRow
<1>2. \A k \in Codes : byCode[k] # NoCodec /\ k # c.code => byCode[k].name # c.name
  BY MulticodecsAssumption DEF RegistryInv, TypeOK, RowsOnly, TablesAgree, Codec, IsRow
<1>3. TablesAgree'
  BY <1>1, <1>2 DEF RegistryInv, TypeOK, TablesAgree, Codec
<1> QED
  BY <1>3 DEF RegistryInv, TypeOK, RowsOnly, Codec

\* Whatever a loader resolves with is a row made for its get.
LEMMA LoadedIsRow ==
  ASSUME NEW g \in Gets, NEW c \in Loadable(g)
  PROVE  c \in Codec /\ IsRow(c)
BY MulticodecsAssumption DEF Loadable, Row, Codec, IsRow

\* Every step of a get, its loader and of removals keeps the registry in order.
LEMMA NextRegistry == RegistryInv /\ [Next]_vars => RegistryInv'
<1> SUFFICES ASSUME RegistryInv, [Next]_vars PROVE RegistryInv'
  OBVIOUS
<1>t. TypeOK /\ RowsOnly /\ TablesAgree
  BY DEF RegistryInv
<1>1. CASE UNCHANGED vars
  BY <1>1, <1>t DEF RegistryInv, TypeOK, RowsOnly, TablesAgree, vars, tables, gets
<1>2. ASSUME NEW g \in Gets, NEW k \in Keys, GetFinds(g, k) PROVE RegistryInv'
  <2>1. Lookup(k) \in Codec /\ IsRow(Lookup(k))
    BY <1>2, <1>t DEF GetFinds, Lookup, Keys, TypeOK, RowsOnly
  <2> QED
    BY <1>2, <2>1, <1>t DEF GetFinds, RegistryInv, TypeOK, RowsOnly, TablesAgree, tables
<1>3. ASSUME NEW g \in Gets, NEW k \in Keys, GetLoads(g, k) PROVE RegistryInv'
  BY <1>3, <1>t DEF GetLoads, RegistryInv, TypeOK, RowsOnly, TablesAgree, tables
<1>4. ASSUME NEW g \in Gets, LoadRejects(g) PROVE RegistryInv'
  BY <1>4, <1>t DEF LoadRejects, RegistryInv, TypeOK, RowsOnly, TablesAgree, tables
<1>5. ASSUME NEW g \in Gets, NEW c \in Loadable(g), LoadAdds(g, c) PROVE RegistryInv'
  <2>1. c \in Codec /\ IsRow(c) /\ ~Taken(c) /\ Add(c)
    BY <1>5, LoadedIsRow DEF LoadAdds
  <2>2. stage' \in [Gets -> {"idle", "loading", "found", "loaded", "rejected", "clashed"}]
    BY <1>5, <1>t DEF LoadAdds, TypeOK
  <2>3. /\ key' \in [Gets -> Keys \cup {NoCodec}]
        /\ result' \in [Gets -> Codec \cup {NoCodec}]
        /\ \A h \in Gets : result'[h] # NoCodec => IsRow(result'[h])
    BY <1>5, <2>1, <1>t DEF LoadAdds, TypeOK, RowsOnly
  <2> QED
    BY <2>1, <2>2, <2>3, AddKeeps DEF RegistryInv, TypeOK, RowsOnly
<1>6. ASSUME NEW g \in Gets, NEW c \in Loadable(g), LoadClashes(g, c) PROVE RegistryInv'
  BY <1>6, <1>t DEF LoadClashes, RegistryInv, TypeOK, RowsOnly, TablesAgree, tables
<1>7. ASSUME NEW g \in Gets, NEW c \in Loadable(g), LoadComesSecond(g, c) PROVE RegistryInv'
  <2>1. c \in Codec /\ IsRow(c)
    BY LoadedIsRow
  <2> QED
    BY <1>7, <2>1, <1>t DEF LoadComesSecond, RegistryInv, TypeOK, RowsOnly, TablesAgree, tables
<1>8. ASSUME NEW g \in Gets, AddCodec(g) PROVE RegistryInv'
  <2>1. result[g] \in Codec /\ IsRow(result[g]) /\ ~Taken(result[g]) /\ Add(result[g])
    BY <1>8, <1>t DEF AddCodec, TypeOK, RowsOnly
  <2>2. UNCHANGED gets
    BY <1>8 DEF AddCodec
  <2> QED
    BY <2>1, <2>2, <1>t, AddKeeps DEF RegistryInv, TypeOK, RowsOnly, gets
<1>9. ASSUME NEW g \in Gets, RemoveCodec(g) PROVE RegistryInv'
  <2>1. result[g] \in Codec /\ IsRow(result[g])
    BY <1>9, <1>t DEF RemoveCodec, TypeOK, RowsOnly
  <2>2. /\ byName' = [byName EXCEPT ![result[g].name] = NoCodec]
        /\ byCode' = [byCode EXCEPT ![result[g].code] = NoCodec]
        /\ UNCHANGED gets
    BY <1>9 DEF RemoveCodec
  <2> QED
    BY <2>1, <2>2, <1>t, RemoveKeeps DEF RegistryInv, TypeOK, RowsOnly, gets
<1> QED
  BY <1>1, <1>2, <1>3, <1>4, <1>5, <1>6, <1>7, <1>8, <1>9 DEF Next, Load

\* The strengthened invariant of the registry.
LEMMA RegistryInvariant == Spec => []RegistryInv
BY InitRegistry, NextRegistry, PTL DEF Spec

\* The two tables of a registry stay one registry, whatever gets, loaders and
\* removals of held codecs do, loaders of nameless codecs included.
THEOREM TablesCorrect == Spec => []TablesAgree
<1>1. RegistryInv => TablesAgree
  BY DEF RegistryInv
<1> QED
  BY <1>1, RegistryInvariant, PTL

\* No codec in use is ever displaced by another one.
THEOREM NeverDisplacedCorrect == Spec => NeverDisplaced
<1> DEFINE Kept ==
      /\ \A n \in Names : byName[n] # NoCodec => byName'[n] \in {byName[n], NoCodec}
      /\ \A k \in Codes : byCode[k] # NoCodec => byCode'[k] \in {byCode[k], NoCodec}
<1>1. ASSUME RegistryInv, [Next]_vars PROVE [Kept]_vars
  <2> USE <1>1 DEF RegistryInv, TypeOK
  <2>1. CASE UNCHANGED vars
    BY <2>1
  <2>2. ASSUME UNCHANGED tables PROVE Kept
    BY <2>2 DEF tables
  <2>3. ASSUME NEW c \in Codec, ~Taken(c), Add(c) PROVE Kept
    BY <2>3 DEF Taken, Add
  <2>4. ASSUME NEW g \in Gets, RemoveCodec(g) PROVE Kept
    BY <2>4 DEF RemoveCodec
  <2>5. ASSUME NEW g \in Gets, AddCodec(g) PROVE Kept
    BY <2>3, <2>5 DEF AddCodec
  <2>6. ASSUME NEW g \in Gets, NEW c \in Loadable(g), LoadAdds(g, c) PROVE Kept
    BY <2>3, <2>6, LoadedIsRow DEF LoadAdds
  <2>7. ASSUME NEW g \in Gets,
               \/ \E k \in Keys : GetFinds(g, k) \/ GetLoads(g, k)
               \/ LoadRejects(g)
               \/ \E c \in Loadable(g) : LoadClashes(g, c) \/ LoadComesSecond(g, c)
        PROVE  Kept
    <3>1. UNCHANGED tables
      BY <2>7 DEF GetFinds, GetLoads, LoadRejects, LoadClashes, LoadComesSecond, tables
    <3> QED
      BY <3>1, <2>2
  <2> QED
    BY <2>1, <2>4, <2>5, <2>6, <2>7 DEF Next, Load
<1> QED
  BY <1>1, RegistryInvariant, PTL DEF Spec, NeverDisplaced

\* A get that is out was given a key.
KeyGiven == \A g \in Gets : stage[g] = "loading" => key[g] \in Keys

\* A get keeps the key that it was given.
LEMMA NextKeepsKeyGiven ==
  ASSUME RegistryInv, KeyGiven, [Next]_vars
  PROVE  KeyGiven'
<1> USE DEF RegistryInv, TypeOK, KeyGiven
<1>1. CASE UNCHANGED vars
  BY <1>1 DEF vars, gets
<1>2. ASSUME NEW g \in Gets, NEW k \in Keys, GetFinds(g, k) \/ GetLoads(g, k) PROVE KeyGiven'
  BY <1>2 DEF GetFinds, GetLoads
<1>3. ASSUME NEW g \in Gets, LoadRejects(g) PROVE KeyGiven'
  BY <1>3 DEF LoadRejects
<1>4. ASSUME NEW g \in Gets, NEW c \in Loadable(g),
             LoadAdds(g, c) \/ LoadComesSecond(g, c) \/ LoadClashes(g, c)
      PROVE  KeyGiven'
  BY <1>4 DEF LoadAdds, LoadComesSecond, LoadClashes
<1>5. ASSUME NEW g \in Gets, AddCodec(g) \/ RemoveCodec(g) PROVE KeyGiven'
  BY <1>5 DEF AddCodec, RemoveCodec, gets
<1> QED
  BY <1>1, <1>2, <1>3, <1>4, <1>5 DEF Next, Load

\* A key that is free when the loader resolves means that the codec it stands
\* for is not taken under its other key either: only another codec is refused.
LEMMA NoClash ==
  ASSUME RegistryInv, KeyGiven, NEW g \in Gets, NEW c \in Loadable(g), LoadClashes(g, c)
  PROVE  c.name = Nameless
<1> SUFFICES ASSUME c.name # Nameless PROVE FALSE
  OBVIOUS
<1>1. PICK n \in Names : c = Row(n, g) /\ key[g] \in {n, CodeOf[n]}
  BY DEF Loadable, Row
<1>2. key[g] \in Keys /\ Lookup(key[g]) = NoCodec /\ Taken(c)
  BY DEF LoadClashes, KeyGiven
<1>3. byName[n] # NoCodec \/ byCode[CodeOf[n]] # NoCodec
  BY <1>1, <1>2 DEF Taken, Row
<1>4. byName[n] # NoCodec => byCode[CodeOf[n]] # NoCodec
  BY NoCodecAssumption, <1>1 DEF RegistryInv, RowsOnly, TablesAgree, IsRow
<1>5. byCode[CodeOf[n]] # NoCodec => byName[n] # NoCodec
  <2>1. ASSUME byCode[CodeOf[n]] # NoCodec PROVE byName[n] # NoCodec
    <3> DEFINE d == byCode[CodeOf[n]]
    <3>1. CodeOf[n] \in Codes
      BY MulticodecsAssumption
    <3>2. d \in Codec /\ d.code = CodeOf[n] /\ byName[d.name] = d /\ d.code = CodeOf[d.name]
      BY <2>1, <3>1 DEF RegistryInv, RowsOnly, TablesAgree, IsRow
    <3>3. d.name = n
      BY <3>2, MulticodecsAssumption DEF Codec
    <3> QED
      BY <3>2, <3>3, <2>1
  <2> QED
    BY <2>1
<1>6. Lookup(n) # NoCodec /\ Lookup(CodeOf[n]) # NoCodec
  BY <1>3, <1>4, <1>5, MulticodecsAssumption DEF Lookup
<1> QED
  BY <1>1, <1>2, <1>6

\* A get whose loader resolves with what was asked for is served, however gets
\* and removals overlap, for every multicodec table.
THEOREM ServedCorrect == Spec => []GetServed
<1>1. Init => KeyGiven
  BY DEF Init, KeyGiven
<1>2. RegistryInv /\ KeyGiven /\ [Next]_vars => KeyGiven'
  BY NextKeepsKeyGiven
<1>3. RegistryInv /\ KeyGiven =>
        [\A g \in Gets : \A c \in Loadable(g) : LoadClashes(g, c) => c.name = Nameless]_vars
  BY NoClash
<1> QED
  BY <1>1, <1>2, <1>3, RegistryInvariant, PTL DEF Spec, GetServed

-----------------------------------------------------------------------------
(* Bases, and both.                                                        *)

\* Each base is only under its own name and its own prefix.
UnderOwnKeys ==
  /\ \A n \in BaseNames : basesByName[n] # NoBase => basesByName[n].name = n
  /\ \A p \in Prefixes : basesByPrefix[p] # NoBase => basesByPrefix[p].prefix = p

BasesInv == BasesTypeOK /\ UnderOwnKeys

\* The constructor adds bases under their own names and prefixes.
LEMMA HoldingBases ==
  ASSUME NEW bases \in SUBSET Base, Holding(bases)
  PROVE  BasesInv
<1>1. \A b \in Base : b.name \in BaseNames /\ b.prefix \in Prefixes
  BY DEF Base
<1>2. ASSUME NEW n \in BaseNames, \E b \in bases : b.name = n
      PROVE  /\ (CHOOSE b \in bases : b.name = n) \in Base
             /\ (CHOOSE b \in bases : b.name = n).name = n
  BY <1>2
<1>3. ASSUME NEW p \in Prefixes, \E b \in bases : b.prefix = p
      PROVE  /\ (CHOOSE b \in bases : b.prefix = p) \in Base
             /\ (CHOOSE b \in bases : b.prefix = p).prefix = p
  BY <1>3
<1>4. \A n \in BaseNames : /\ basesByName[n] \in Base \cup {NoBase}
                           /\ basesByName[n] # NoBase => basesByName[n].name = n
  BY <1>2 DEF Holding
<1>5. \A p \in Prefixes : /\ basesByPrefix[p] \in Base \cup {NoBase}
                          /\ basesByPrefix[p] # NoBase => basesByPrefix[p].prefix = p
  BY <1>3 DEF Holding
<1>6. /\ basesByName \in [BaseNames -> Base \cup {NoBase}]
      /\ basesByPrefix \in [Prefixes -> Base \cup {NoBase}]
  BY <1>4, <1>5 DEF Holding
<1>7. /\ baseKey \in [BaseGets -> BaseNames \cup Prefixes \cup {NoBase}]
      /\ baseStage \in [BaseGets -> {"idle", "loading", "found", "loaded", "rejected"}]
      /\ baseResult \in [BaseGets -> Base \cup {NoBase}]
  BY DEF Holding
<1> QED
  BY <1>4, <1>5, <1>6, <1>7 DEF BasesInv, BasesTypeOK, UnderOwnKeys

\* A base that is put into the tables goes under its own name and prefix.
LEMMA PutKeepsBases ==
  ASSUME BasesInv, NEW b \in Base, Put(b) \/ UNCHANGED baseTables
  PROVE  /\ basesByName' \in [BaseNames -> Base \cup {NoBase}]
         /\ basesByPrefix' \in [Prefixes -> Base \cup {NoBase}]
         /\ UnderOwnKeys'
BY DEF BasesInv, BasesTypeOK, UnderOwnKeys, Put, Base, baseTables

\* Every step of a get, its loader, addBase and removals keeps the bases in order.
LEMMA NextKeepsBases ==
  ASSUME BasesInv, [BasesNext]_baseVars
  PROVE  BasesInv'
<1> USE DEF BasesInv, BasesTypeOK
<1>1. ASSUME NEW b \in Base, AddBase(b) PROVE BasesInv'
  <2>1. Put(b) /\ UNCHANGED baseGets
    BY <1>1 DEF AddBase
  <2> QED
    BY <2>1, PutKeepsBases DEF baseGets
<1>2. ASSUME NEW b \in Base, RemoveBase(b) PROVE BasesInv'
  BY <1>2, NoBaseAssumption DEF RemoveBase, Base, UnderOwnKeys, baseGets
<1>3. ASSUME NEW g \in BaseGets, NEW k \in BaseNames \cup Prefixes,
             GetBaseFinds(g, k) \/ GetBaseLoads(g, k)
      PROVE  BasesInv'
  <2>1. LookupBase(k) \in Base \cup {NoBase}
    BY DEF LookupBase
  <2> QED
    BY <1>3, <2>1 DEF GetBaseFinds, GetBaseLoads, UnderOwnKeys, baseTables
<1>4. ASSUME NEW g \in BaseGets, LoadBaseRejects(g) PROVE BasesInv'
  BY <1>4 DEF LoadBaseRejects, UnderOwnKeys, baseTables
<1>5. ASSUME NEW g \in BaseGets, NEW b \in Base, LoadBase(g, b) PROVE BasesInv'
  <2>1. Put(b) \/ UNCHANGED baseTables
    BY <1>5 DEF LoadBase
  <2> QED
    BY <1>5, <2>1, PutKeepsBases DEF LoadBase
<1>6. CASE UNCHANGED baseVars
  BY <1>6 DEF baseVars, baseTables, baseGets, UnderOwnKeys
<1> QED
  BY <1>1, <1>2, <1>3, <1>4, <1>5, <1>6 DEF BasesNext, LoadableBases

\* What the tables of a step displace: entries that another base takes over.
Displaced(table, later) ==
  {k \in DOMAIN table : table[k] # NoBase /\ later[k] \notin {table[k], NoBase}}

NamesDisplaced    == Displaced(basesByName, basesByName')
PrefixesDisplaced == Displaced(basesByPrefix, basesByPrefix')

\* Only addBase displaces a base, and then by its name or by its prefix alone.
LEMMA OnlyAddBaseDisplaces ==
  ASSUME BasesInv, [BasesNext]_baseVars
  PROVE  NamesDisplaced \cup PrefixesDisplaced # {} =>
           UNCHANGED baseGets /\ (NamesDisplaced = {} \/ PrefixesDisplaced = {})
<1> USE DEF BasesInv, BasesTypeOK, NamesDisplaced, PrefixesDisplaced, Displaced
<1>1. ASSUME NEW b \in Base, Put(b)
      PROVE  /\ basesByName[b.name] = NoBase => NamesDisplaced = {}
             /\ basesByPrefix[b.prefix] = NoBase => PrefixesDisplaced = {}
  BY <1>1 DEF Put, Base
<1>2. ASSUME NEW b \in Base, AddBase(b)
      PROVE  UNCHANGED baseGets /\ (NamesDisplaced = {} \/ PrefixesDisplaced = {})
  BY <1>1, <1>2 DEF AddBase, NameTaken, PrefixTaken
<1>3. ASSUME NEW b \in Base, RemoveBase(b)
      PROVE  NamesDisplaced = {} /\ PrefixesDisplaced = {}
  BY <1>3 DEF RemoveBase, Base
<1>4. ASSUME UNCHANGED baseTables
      PROVE  NamesDisplaced = {} /\ PrefixesDisplaced = {}
  BY <1>4 DEF baseTables
<1>5. ASSUME NEW g \in BaseGets, NEW b \in Base, LoadBase(g, b)
      PROVE  NamesDisplaced = {} /\ PrefixesDisplaced = {}
  <2>1. CASE basesByName[b.name] = NoBase /\ basesByPrefix[b.prefix] = NoBase
    <3>1. Put(b)
      BY <1>5, <2>1 DEF LoadBase, NameTaken, PrefixTaken
    <3> QED
      BY <1>1, <2>1, <3>1
  <2>2. CASE ~(basesByName[b.name] = NoBase /\ basesByPrefix[b.prefix] = NoBase)
    <3>1. UNCHANGED baseTables
      BY <1>5, <2>2 DEF LoadBase, NameTaken, PrefixTaken
    <3> QED
      BY <1>4, <3>1
  <2> QED
    BY <2>1, <2>2
<1>6. ASSUME NEW g \in BaseGets, NEW k \in BaseNames \cup Prefixes,
             GetBaseFinds(g, k) \/ GetBaseLoads(g, k)
      PROVE  UNCHANGED baseTables
  BY <1>6 DEF GetBaseFinds, GetBaseLoads
<1>7. ASSUME NEW g \in BaseGets, LoadBaseRejects(g)
      PROVE  UNCHANGED baseTables
  BY <1>7 DEF LoadBaseRejects
<1> QED
  BY <1>2, <1>3, <1>4, <1>5, <1>6, <1>7 DEF BasesNext, LoadableBases, baseVars

-----------------------------------------------------------------------------

\* The registry of codecs that is not run is empty, which is in order.
LEMMA UnusedRegistry == CodecsUnused => RegistryInv
BY DEF CodecsUnused, RegistryInv, TypeOK, RowsOnly, TablesAgree

ClientInv == RegistryInv /\ BasesInv /\ registry \in {"codecs", "bases"}

LEMMA ClientInvariant == RegistriesSpec => []ClientInv
<1>1. RegistriesInit => ClientInv
  <2>1. ASSUME NEW bases \in SUBSET RowsOf(Caller), Holding(bases) PROVE BasesInv
    BY <2>1, HoldingBases DEF RowsOf
  <2>2. Holding({}) => BasesInv
    BY HoldingBases
  <2> QED
    BY <2>1, <2>2, InitRegistry, UnusedRegistry DEF RegistriesInit, BasesInit, ClientInv
<1>2. ClientInv /\ [RegistriesNext]_<<registry, vars, baseVars>> => ClientInv'
  BY NextRegistry, NextKeepsBases DEF ClientInv, RegistriesNext
<1> QED
  BY <1>1, <1>2, PTL DEF RegistriesSpec

\* The tables of all registries and the gets in flight keep their types.
THEOREM TypesCorrect == RegistriesSpec => []TypesOK
<1>1. ClientInv => TypesOK
  BY DEF ClientInv, RegistryInv, BasesInv, TypesOK
<1> QED
  BY <1>1, ClientInvariant, PTL

\* No base in use is displaced by one that is loaded, and addBase displaces by
\* the name or by the prefix alone.
THEOREM BasesCorrect == RegistriesSpec => BasesKept
<1> DEFINE Kept ==
      /\ NamesDisplaced \cup PrefixesDisplaced # {} =>
           UNCHANGED baseGets /\ (NamesDisplaced = {} \/ PrefixesDisplaced = {})
      /\ \A n \in BaseNames : basesByName'[n] # NoBase => basesByName'[n].name = n
      /\ \A p \in Prefixes : basesByPrefix'[p] # NoBase => basesByPrefix'[p].prefix = p
<1>1. ClientInv /\ [RegistriesNext]_<<registry, vars, baseVars>> => [Kept]_baseVars
  <2> SUFFICES ASSUME ClientInv, [RegistriesNext]_<<registry, vars, baseVars>>
               PROVE  [Kept]_baseVars
    OBVIOUS
  <2>1. BasesInv /\ [BasesNext]_baseVars
    BY DEF ClientInv, RegistriesNext
  <2>2. BasesInv'
    BY <2>1, NextKeepsBases
  <2> QED
    BY <2>1, <2>2, OnlyAddBaseDisplaces DEF BasesInv, UnderOwnKeys
<1>2. [][Kept]_baseVars => BasesKept
  BY PTL DEF BasesKept, NamesDisplaced, PrefixesDisplaced, Displaced
<1> QED
  BY <1>1, <1>2, ClientInvariant, PTL DEF RegistriesSpec
-----------------------------------------------------------------------------
(* The codecs are one set.                                                 *)

\* The codecs of the set are those that the table of names has under their own.
LEMMA RegisteredIs ==
  ASSUME RegistryInv, NEW c
  PROVE  c \in registeredBar <=> c \in Codec /\ byName[c.name] = c
<1>1. c \in registeredBar => c \in Codec /\ byName[c.name] = c
  BY DEF registeredBar, RegistryInv, TypeOK, TablesAgree
<1>2. c \in Codec /\ byName[c.name] = c => c \in registeredBar
  BY NoCodecAssumption DEF registeredBar, Codec
<1> QED
  BY <1>1, <1>2

\* The table of codes is a way to look up a codec of the set, as is that of names.
LEMMA LookupIsUnder ==
  ASSUME RegistryInv, NEW k \in Keys
  PROVE  Codecs!Under(k) = IF Lookup(k) = NoCodec THEN {} ELSE {Lookup(k)}
<1> USE DEF RegistryInv, TypeOK
<1>1. ASSUME NEW c \in registeredBar
      PROVE  k \in {c.name, c.code} <=> Lookup(k) = c
  <2>1. c \in Codec /\ c # NoCodec /\ byName[c.name] = c /\ byCode[c.code] = c
    BY <1>1, RegisteredIs, NoCodecAssumption DEF TablesAgree, Codec
  <2>2. c.name \in Names /\ c.code \in Codes
    BY <2>1 DEF Codec
  <2>3. k \in {c.name, c.code} => Lookup(k) = c
    BY <2>1, <2>2, MulticodecsAssumption DEF Lookup
  <2>4. Lookup(k) = c => k \in {c.name, c.code}
    BY <2>1 DEF Lookup, Keys, TablesAgree
  <2> QED
    BY <2>3, <2>4
<1>2. ASSUME Lookup(k) # NoCodec PROVE Lookup(k) \in registeredBar
  <2>1. Lookup(k) \in Codec /\ byName[Lookup(k).name] = Lookup(k)
    BY <1>2 DEF Lookup, Keys, TablesAgree
  <2> QED
    BY <2>1, RegisteredIs
<1>3. NoCodec \notin registeredBar
  BY DEF registeredBar
<1> QED
  BY <1>1, <1>2, <1>3 DEF Codecs!Under

\* A codec that is not taken in either table is unlike all of the set.
LEMMA FreeIsNotTaken ==
  ASSUME RegistryInv, NEW c \in Codec
  PROVE  Codecs!Free(c) <=> ~Taken(c)
<1> USE DEF RegistryInv, TypeOK
<1>1. c.name \in Names /\ c.code \in Codes
  BY DEF Codec
<1>2. ASSUME byName[c.name] # NoCodec PROVE ~Codecs!Free(c)
  <2>1. byName[c.name] \in registeredBar /\ byName[c.name].name = c.name
    BY <1>1, <1>2 DEF registeredBar, TablesAgree
  <2> QED
    BY <2>1 DEF Codecs!Free, Codecs!Alike
<1>3. ASSUME byCode[c.code] # NoCodec PROVE ~Codecs!Free(c)
  <2> DEFINE d == byCode[c.code]
  <2>1. d \in Codec /\ d.code = c.code /\ byName[d.name] = d
    BY <1>1, <1>3 DEF TablesAgree
  <2>2. d \in registeredBar
    BY <2>1, RegisteredIs
  <2> QED
    BY <2>1, <2>2 DEF Codecs!Free, Codecs!Alike
<1>4. ASSUME ~Codecs!Free(c) PROVE Taken(c)
  <2>1. PICK d \in registeredBar : c.name = d.name \/ c.code = d.code
    BY <1>4 DEF Codecs!Free, Codecs!Alike
  <2>2. d # NoCodec /\ byName[d.name] = d /\ byCode[d.code] = d
    BY <2>1, RegisteredIs, NoCodecAssumption DEF TablesAgree, Codec
  <2> QED
    BY <2>1, <2>2 DEF Taken
<1> QED
  BY <1>2, <1>3, <1>4 DEF Taken

\* addCodec is what it is to a set.
LEMMA AddIsUnion ==
  ASSUME RegistryInv, NEW c \in Codec, ~Taken(c), Add(c)
  PROVE  Codecs!Free(c) /\ registeredBar' = registeredBar \cup {c}
<1>1. /\ c.name \in Names /\ byName[c.name] = NoCodec /\ c # NoCodec
      /\ byName \in [Names -> Codec \cup {NoCodec}] /\ byName' = [byName EXCEPT ![c.name] = c]
  BY NoCodecAssumption DEF Codec, Taken, Add, RegistryInv, TypeOK
<1>2. registeredBar' \subseteq registeredBar \cup {c}
  BY <1>1 DEF registeredBar
<1>3. \A n \in Names : byName[n] # NoCodec => byName'[n] = byName[n]
  BY <1>1
<1>4. registeredBar \cup {c} \subseteq registeredBar'
  BY <1>1, <1>3 DEF registeredBar
<1> QED
  BY <1>2, <1>4, FreeIsNotTaken

\* removeCodec takes out all that is like the codec, which is one codec at most.
LEMMA RemoveIsMinus ==
  ASSUME RegistryInv, NEW c \in Codec, IsRow(c), byName' = [byName EXCEPT ![c.name] = NoCodec]
  PROVE  registeredBar' = {d \in registeredBar : ~Codecs!Alike(c, d)}
<1>1. c.name \in Names /\ byName \in [Names -> Codec \cup {NoCodec}]
  BY DEF Codec, RegistryInv, TypeOK
<1>2. registeredBar' = {byName[n] : n \in Names \ {c.name}} \ {NoCodec}
  BY <1>1 DEF registeredBar
<1>3. ASSUME NEW n \in Names, byName[n] # NoCodec
      PROVE  Codecs!Alike(c, byName[n]) <=> n = c.name
  <2>1. byName[n].name = n /\ byName[n].code = CodeOf[n] /\ c.code = CodeOf[c.name]
    BY <1>3 DEF RegistryInv, RowsOnly, TablesAgree, IsRow
  <2> QED
    BY <1>1, <2>1, MulticodecsAssumption DEF Codecs!Alike
<1> QED
  BY <1>2, <1>3 DEF registeredBar

\* A step of a get on its way, as the set sees it.
LEMMA ProgressIs ==
  ASSUME TypeOK, NEW g \in Gets, NEW s, s # "idle",
         stage' = [stage EXCEPT ![g] = s]
  PROVE  progressBar' = [progressBar EXCEPT ![g] = IF s = "loading" THEN s ELSE "over"]
BY DEF TypeOK, progressBar

\* A get that asks finds the codec of the set, by whichever key, or there is none.
LEMMA AskRefines ==
  ASSUME RegistryInv, NEW g \in Gets, NEW k \in Keys, GetFinds(g, k) \/ GetLoads(g, k)
  PROVE  Codecs!Next
<1>1. progressBar[g] = "idle" /\ UNCHANGED registeredBar
  BY DEF GetFinds, GetLoads, progressBar, registeredBar, tables
<1>2. CASE GetFinds(g, k)
  <2>1. Lookup(k) \in Codecs!Under(k)
    BY <1>2, LookupIsUnder DEF GetFinds
  <2>2. progressBar' = [progressBar EXCEPT ![g] = "over"]
    BY <1>2, ProgressIs DEF GetFinds, RegistryInv
  <2>3. Codecs!Find(g, k)
    BY <1>1, <1>2, <2>1, <2>2 DEF GetFinds, Codecs!Find, Codecs!Ask
  <2> QED
    BY <2>3 DEF Codecs!Next
<1>3. CASE GetLoads(g, k)
  <2>1. Codecs!Under(k) = {}
    BY <1>3, LookupIsUnder DEF GetLoads
  <2>2. progressBar' = [progressBar EXCEPT ![g] = "loading"]
    BY <1>3, ProgressIs DEF GetLoads, RegistryInv
  <2>3. Codecs!Miss(g, k)
    BY <1>1, <1>3, <2>1, <2>2 DEF GetLoads, Codecs!Miss, Codecs!Ask
  <2> QED
    BY <2>3 DEF Codecs!Next
<1> QED
  BY <1>2, <1>3

\* What a loader brings is registered if the set still has nothing under the key.
LEMMA LoadRefines ==
  ASSUME RegistryInv, KeyGiven, NEW g \in Gets, Load(g)
  PROVE  Codecs!Next
<1> USE DEF RegistryInv
<1>1. stage[g] = "loading" /\ progressBar[g] = "loading" /\ key[g] \in Keys /\ UNCHANGED key
  BY DEF Load, LoadRejects, LoadAdds, LoadClashes, LoadComesSecond, progressBar, KeyGiven
<1>2. Codecs!Under(key[g]) = {} <=> Lookup(key[g]) = NoCodec
  BY <1>1, LookupIsUnder
<1>3. ASSUME LoadRejects(g) \/ \E c \in Loadable(g) : LoadClashes(g, c)
      PROVE  Codecs!Next
  <2>1. UNCHANGED <<registeredBar, result>>
    BY <1>3 DEF LoadRejects, LoadClashes, tables, registeredBar
  <2>2. progressBar' = [progressBar EXCEPT ![g] = "over"]
    <3>1. \/ stage' = [stage EXCEPT ![g] = "rejected"]
          \/ stage' = [stage EXCEPT ![g] = "clashed"]
      BY <1>3 DEF LoadRejects, LoadClashes
    <3> QED
      BY <3>1, ProgressIs
  <2> QED
    BY <1>1, <2>1, <2>2 DEF Codecs!Next, Codecs!GiveUp
<1>4. ASSUME NEW c \in Loadable(g), LoadAdds(g, c) \/ LoadComesSecond(g, c)
      PROVE  Codecs!Next
  <2>1. c \in Codec /\ c.by = g /\ result' = [result EXCEPT ![g] = c]
    BY <1>4, LoadedIsRow DEF Loadable, Row, LoadAdds, LoadComesSecond
  <2>2. progressBar' = [progressBar EXCEPT ![g] = "over"]
    <3>1. stage' = [stage EXCEPT ![g] = "loaded"]
      BY <1>4 DEF LoadAdds, LoadComesSecond
    <3> QED
      BY <3>1, ProgressIs
  <2>3. IF Codecs!Under(key[g]) = {}
        THEN Codecs!Free(c) /\ registeredBar' = registeredBar \cup {c}
        ELSE UNCHANGED registeredBar
    <3>1. CASE LoadAdds(g, c)
      BY <1>2, <2>1, <3>1, AddIsUnion DEF LoadAdds
    <3>2. CASE LoadComesSecond(g, c)
      BY <1>2, <3>2 DEF LoadComesSecond, tables, registeredBar
    <3> QED
      BY <1>4, <3>1, <3>2
  <2>4. Codecs!Bring(g)
    BY <1>1, <2>1, <2>2, <2>3 DEF Codecs!Bring
  <2> QED
    BY <2>4 DEF Codecs!Next
<1> QED
  BY <1>3, <1>4 DEF Load

\* Somebody who holds a codec adds it to the set or takes it out.
LEMMA HolderRefines ==
  ASSUME RegistryInv, NEW g \in Gets, AddCodec(g) \/ RemoveCodec(g)
  PROVE  Codecs!Next
<1>1. /\ result[g] # NoCodec /\ result[g] \in Codec /\ IsRow(result[g])
      /\ UNCHANGED <<key, progressBar, result>>
  BY DEF AddCodec, RemoveCodec, gets, progressBar, RegistryInv, TypeOK, RowsOnly
<1>2. CASE AddCodec(g)
  <2>1. Codecs!Add(result[g])
    BY <1>1, <1>2, AddIsUnion DEF AddCodec, Codecs!Add
  <2> QED
    BY <1>1, <2>1 DEF Codecs!Next
<1>3. CASE RemoveCodec(g)
  <2>1. Codecs!Remove(result[g])
    BY <1>1, <1>3, RemoveIsMinus DEF RemoveCodec, Codecs!Remove
  <2> QED
    BY <1>1, <2>1 DEF Codecs!Next
<1> QED
  BY <1>2, <1>3

\* A client is built with codecs of distinct names and codes, or is not built.
LEMMA InitRefines ==
  ASSUME Init \/ CodecsUnused
  PROVE  Codecs!Init
<1>1. RegistryInv
  BY InitRegistry, UnusedRegistry
<1>2. /\ key = [g \in Gets |-> NoCodec] /\ progressBar = [g \in Gets |-> "idle"]
      /\ result = [g \in Gets |-> NoCodec]
  BY DEF Init, CodecsUnused, progressBar
<1>3. registeredBar \in SUBSET Codec
  BY <1>1, RegisteredIs
<1>4. ASSUME NEW c \in registeredBar, NEW d \in registeredBar, Codecs!Alike(c, d)
      PROVE  c = d
  <2>1. /\ c \in Codec /\ c # NoCodec /\ byName[c.name] = c
        /\ d \in Codec /\ d # NoCodec /\ byName[d.name] = d
    BY <1>1, <1>4, RegisteredIs, NoCodecAssumption
  <2>2. byCode[c.code] = c /\ byCode[d.code] = d
    BY <1>1, <2>1 DEF RegistryInv, TablesAgree, Codec
  <2> QED
    BY <1>4, <2>1, <2>2 DEF Codecs!Alike
<1> QED
  BY <1>2, <1>3, <1>4 DEF Codecs!Init

\* The two tables of codecs, and those of hashers, are one set: every step of a
\* get, of a loader or of somebody who holds a codec is a step of it.
THEOREM OneRegistryCorrect == RegistriesSpec => OneRegistry
<1>1. RegistriesInit => Codecs!Init
  BY InitRefines DEF RegistriesInit, BasesInit
<1>2. RegistriesInit => KeyGiven
  BY DEF RegistriesInit, BasesInit, Init, CodecsUnused, KeyGiven
<1>3. ClientInv /\ KeyGiven /\ [RegistriesNext]_<<registry, vars, baseVars>> => KeyGiven'
  BY NextKeepsKeyGiven DEF ClientInv, RegistriesNext
<1>4. ClientInv /\ KeyGiven /\ [RegistriesNext]_<<registry, vars, baseVars>>
        => [Codecs!Next]_Codecs!registryVars
  <2> SUFFICES ASSUME RegistryInv, KeyGiven, [Next]_vars
               PROVE  [Codecs!Next]_Codecs!registryVars
    BY DEF ClientInv, RegistriesNext
  <2>1. CASE UNCHANGED vars
    BY <2>1 DEF vars, tables, gets, registeredBar, progressBar, Codecs!registryVars
  <2> QED
    BY <2>1, AskRefines, LoadRefines, HolderRefines DEF Next
<1> QED
  BY <1>1, <1>2, <1>3, <1>4, ClientInvariant, PTL DEF RegistriesSpec, OneRegistry, Codecs!Spec
=============================================================================
