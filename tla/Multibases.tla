------------------------------ MODULE Multibases ------------------------------
(***************************************************************************)
(* The registry of multibase codecs (lib/multibases.ts).  It differs from  *)
(* Multicodecs: addBase refuses a base only if both its name and its       *)
(* prefix are taken, and getBase looks in both tables, adds what its       *)
(* loader brings only if both are free, and never rejects on that account. *)
(***************************************************************************)
CONSTANTS
  BaseNames, Prefixes,
  PrefixOf,     \* the multibase table
  BaseGets,     \* identities of the calls of getBase
  Caller,       \* the maker of the bases of the options and of addBase
  NoBase

ASSUME MultibasesAssumption ==
  /\ PrefixOf \in [BaseNames -> Prefixes]
  /\ BaseNames \cap Prefixes = {}
  /\ Caller \notin BaseGets

VARIABLES
  basesByName,     \* _basesByName
  basesByPrefix,   \* _basesByPrefix
  baseKey,         \* the argument of each get
  baseStage,       \* how far each get is
  baseResult       \* what each get resolved with

baseTables == <<basesByName, basesByPrefix>>
baseGets   == <<baseKey, baseStage, baseResult>>
baseVars   == <<baseTables, baseGets>>

\* Any object with a name and a prefix will do; one of the table has its own.
Base      == [name : BaseNames, prefix : Prefixes, by : BaseGets \cup {Caller}]
RowsOf(b) == {c \in Base : c.by = b /\ c.prefix = PrefixOf[c.name]}

ASSUME NoBaseAssumption == NoBase \notin Base \cup BaseNames \cup Prefixes

\* The types of the tables (_basesByName, _basesByPrefix) and of the gets.
BasesTypeOK ==
  /\ basesByName \in [BaseNames -> Base \cup {NoBase}]
  /\ basesByPrefix \in [Prefixes -> Base \cup {NoBase}]
  /\ baseKey \in [BaseGets -> BaseNames \cup Prefixes \cup {NoBase}]
  /\ baseStage \in [BaseGets -> {"idle", "loading", "found", "loaded", "rejected"}]
  /\ baseResult \in [BaseGets -> Base \cup {NoBase}]

Holding(bases) ==
  /\ basesByName = [n \in BaseNames |->
       IF \E b \in bases : b.name = n THEN CHOOSE b \in bases : b.name = n ELSE NoBase]
  /\ basesByPrefix = [p \in Prefixes |->
       IF \E b \in bases : b.prefix = p THEN CHOOSE b \in bases : b.prefix = p ELSE NoBase]
  /\ baseKey = [g \in BaseGets |-> NoBase]
  /\ baseStage = [g \in BaseGets |-> "idle"]
  /\ baseResult = [g \in BaseGets |-> NoBase]

\* The client's own bases, which are rows of the table.
BasesInit == \E bases \in SUBSET RowsOf(Caller) : Holding(bases)

-----------------------------------------------------------------------------

NameTaken(b)   == basesByName[b.name] # NoBase
PrefixTaken(b) == basesByPrefix[b.prefix] # NoBase

Put(b) ==
  /\ basesByName' = [basesByName EXCEPT ![b.name] = b]
  /\ basesByPrefix' = [basesByPrefix EXCEPT ![b.prefix] = b]

\* addBase throws only if both are taken.
AddBase(b) ==
  /\ ~(NameTaken(b) /\ PrefixTaken(b))
  /\ Put(b)
  /\ UNCHANGED baseGets

RemoveBase(b) ==
  /\ basesByName' = [basesByName EXCEPT ![b.name] = NoBase]
  /\ basesByPrefix' = [basesByPrefix EXCEPT ![b.prefix] = NoBase]
  /\ UNCHANGED baseGets

\* A string is tried as a name, then as a prefix; the two never coincide.
LookupBase(k) == IF k \in BaseNames THEN basesByName[k] ELSE basesByPrefix[k]

GetBaseFinds(g, k) ==
  /\ baseStage[g] = "idle" /\ LookupBase(k) # NoBase
  /\ baseKey' = [baseKey EXCEPT ![g] = k]
  /\ baseStage' = [baseStage EXCEPT ![g] = "found"]
  /\ baseResult' = [baseResult EXCEPT ![g] = LookupBase(k)]
  /\ UNCHANGED baseTables

GetBaseLoads(g, k) ==
  /\ baseStage[g] = "idle" /\ LookupBase(k) = NoBase
  /\ baseKey' = [baseKey EXCEPT ![g] = k]
  /\ baseStage' = [baseStage EXCEPT ![g] = "loading"]
  /\ UNCHANGED <<baseTables, baseResult>>

LoadBaseRejects(g) ==
  /\ baseStage[g] = "loading"
  /\ baseStage' = [baseStage EXCEPT ![g] = "rejected"]
  /\ UNCHANGED <<baseTables, baseKey, baseResult>>

\* Mutant: what addBase does not throw for is added.
LoadBaseAdds(g, b) ==
  /\ baseStage[g] = "loading"
  /\ IF ~(NameTaken(b) /\ PrefixTaken(b)) THEN Put(b) ELSE UNCHANGED baseTables
  /\ baseStage' = [baseStage EXCEPT ![g] = "loaded"]
  /\ baseResult' = [baseResult EXCEPT ![g] = b]
  /\ UNCHANGED baseKey

\* What is loaded is added if name and prefix are free by now, and returned.
LoadBase(g, b) ==
  /\ baseStage[g] = "loading"
  /\ IF ~NameTaken(b) /\ ~PrefixTaken(b) THEN Put(b) ELSE UNCHANGED baseTables
  /\ baseStage' = [baseStage EXCEPT ![g] = "loaded"]
  /\ baseResult' = [baseResult EXCEPT ![g] = b]
  /\ UNCHANGED baseKey

\* A loader brings the base it was asked for, or one that shares what it was
\* asked by with it.
LoadableBases(g) == {b \in Base : b.by = g /\ baseKey[g] \in {b.name, b.prefix}}

BasesNext ==
  \/ \E b \in {c \in Base : c.by = Caller} : AddBase(b)
  \/ \E g \in BaseGets :
       \/ \E k \in BaseNames \cup Prefixes : GetBaseFinds(g, k) \/ GetBaseLoads(g, k)
       \/ LoadBaseRejects(g)
       \/ \E b \in LoadableBases(g) : LoadBase(g, b)
       \/ baseResult[g] # NoBase /\ RemoveBase(baseResult[g])

-----------------------------------------------------------------------------

\* A base in use is displaced by nobody but a caller of addBase whose base has
\* the name of one and the prefix of none, or the other way round; then one half
\* goes and the other stays.  A base that is loaded displaces none, however the
\* loads overlap, and each base is only ever under its own name and prefix.
BasesKept ==
  [][LET displaced(table, later) ==
           {k \in DOMAIN table : table[k] # NoBase /\ later[k] \notin {table[k], NoBase}}
         names    == displaced(basesByName, basesByName')
         prefixes == displaced(basesByPrefix, basesByPrefix')
     IN /\ names \cup prefixes # {} =>
             /\ UNCHANGED baseGets
             /\ names = {} \/ prefixes = {}
        /\ \A n \in BaseNames : basesByName'[n] # NoBase => basesByName'[n].name = n
        /\ \A p \in Prefixes : basesByPrefix'[p] # NoBase => basesByPrefix'[p].prefix = p]_baseVars
=============================================================================
