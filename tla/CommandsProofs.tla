---------------------------- MODULE CommandsProofs ----------------------------
(***************************************************************************)
(* Proofs about Commands, for every command of the client, a source of any *)
(* length and answers of any length.                                       *)
(*                                                                         *)
(* Every row of the table of commands fits one pattern (TableFits), which  *)
(* is all the rest needs to know of the commands.  The invariants of a     *)
(* call are then kept one by one, each by every action: the types, the     *)
(* connection and the signal, the count of values, how far the call is,    *)
(* the history of its requests and what their queries hold.                *)
(***************************************************************************)
EXTENDS Commands, InductionProofs, FiniteSetTheorems, TLAPS

\* The parameters that the search params treat apart, and no command adds.
Reserved == {"signal", "timeout", "mtimeNsecs"}

\* The argument lists of the commands; no argument has the name of a missing value.
ArgNames == {"address", "cid", "endpoint", "key", "name", "path", "peer", "profile", "topic",
             "value"}
ArgLists == {<<>>} \cup {<<a>> : a \in ArgNames} \cup {<<a, b>> : a, b \in ArgNames}
            \cup {<<a, b, c>> : a, b, c \in ArgNames}

\* What every row of the table has, and what its columns have to do with each
\* other: only an answer that comes line by line is asked for item by item, an
\* upload asks once, and only the one command that uploads bytes tries again.
Fits(c) ==
  /\ c.args \in ArgLists
  /\ c.body \in {"none", "bytes", "stream"}
  /\ c.each \in {"none", "one", "many"}
  /\ c.lines \subseteq LineKinds
  /\ c.each # "none" => c.reads = "ndjson" /\ c.body = "none"
  /\ c.reads = "unread" => c.body = "none" /\ c.each = "none"
  /\ c.retries => c.body = "bytes" /\ c.reads = "json"
  /\ c.return => c.body = "none" /\ c.each = "none"
  /\ \A name \in c.before \cup c.after : name \notin Reserved

Columns == {"to", "args", "sends", "before", "after", "body", "each", "checks", "reads", "lines",
            "last", "return", "retries", "swallows"}

\* A command that posts once and without a body.
Plain(c, reads) ==
  /\ c = [f \in Columns |-> c[f]] /\ c.args \in ArgLists
  /\ c.body = "none" /\ c.each = "none" /\ c.reads = reads /\ c.lines \subseteq LineKinds
  /\ c.return = FALSE /\ c.retries = FALSE
  /\ \A name \in c.before \cup c.after : name \notin Reserved

\* The argument lists in the table.
LEMMA ArgsListed ==
  /\ <<>> \in ArgLists /\ <<"address">> \in ArgLists
  /\ <<"cid">> \in ArgLists /\ <<"key">> \in ArgLists
  /\ <<"name">> \in ArgLists /\ <<"path">> \in ArgLists
  /\ <<"peer">> \in ArgLists /\ <<"profile">> \in ArgLists
  /\ <<"topic">> \in ArgLists /\ <<"cid", "cid">> \in ArgLists
  /\ <<"cid", "name">> \in ArgLists /\ <<"key", "value">> \in ArgLists
  /\ <<"name", "name">> \in ArgLists /\ <<"path", "path">> \in ArgLists
  /\ <<"cid", "name", "cid">> \in ArgLists /\ <<"name", "endpoint", "key">> \in ArgLists
BY DEF ArgLists, ArgNames

\* What the helpers of the table make.
LEMMA PlainHelpers ==
  ASSUME NEW to, NEW args \in ArgLists
  PROVE  /\ Plain(Json(to, args), "json") /\ Plain(Text(to, args), "text")
         /\ Plain(Unread(to, args), "unread") /\ Plain(Bytes(to, args), "bytes")
         /\ Plain(NdJson(to, args), "ndjson")
<1> USE DEF Plain, Columns, LineKinds
<1>1. Plain(Command(to, args), "json")
  BY DEF Command
<1>2. Plain(Json(to, args), "json")
  BY <1>1 DEF Json
<1>3. Plain(Text(to, args), "text")
  BY <1>1 DEF Text
<1>4. Plain(Unread(to, args), "unread")
  BY <1>1 DEF Unread
<1>5. Plain(Bytes(to, args), "bytes")
  BY <1>1 DEF Bytes
<1>6. Plain(NdJson(to, args), "ndjson")
  BY <1>1 DEF NdJson
<1> HIDE DEF Plain
<1> QED
  BY <1>2, <1>3, <1>4, <1>5, <1>6

\* Such a command fits, and so does what Remote makes of it.
LEMMA PlainFits ==
  ASSUME NEW c, NEW reads, Plain(c, reads)
  PROVE  Fits(c) /\ \A names : names \cap Reserved = {} => Plain(Remote(c, names), reads)
<1>1. Fits(c)
  BY DEF Plain, Fits
<1>2. ASSUME NEW names, names \cap Reserved = {} PROVE Plain(Remote(c, names), reads)
  <2>1. c = [f \in Columns |-> c[f]]
    BY DEF Plain
  <2> QED
    BY <1>2, <2>1 DEF Plain, Remote, Columns
<1> QED
  BY <1>1, <1>2

\* The commands of client.bitswap fit.
LEMMA BitswapRows == \A c \in BitswapAPI : Fits(c)
<1>1. Fits(BitswapStat) /\ Fits(BitswapWantlist)
  BY ArgsListed, PlainHelpers, PlainFits DEF BitswapStat, BitswapWantlist
<1>2. Plain(Json("bitswap/wantlist", <<>>), "json")
  BY ArgsListed, PlainHelpers
<1> USE DEF Plain, Columns, Fits, LineKinds, Reserved
<1>3. Fits(BitswapWantlistForPeer)
  BY <1>2 DEF BitswapWantlistForPeer
<1> HIDE DEF Fits
<1> QED
  BY <1>1, <1>3 DEF BitswapAPI

\* The commands of client.block fit.
LEMMA BlockRows == \A c \in BlockAPI : Fits(c)
<1>1. Fits(BlockStat)
  BY ArgsListed, PlainHelpers, PlainFits DEF BlockStat
<1>2. /\ Plain(Json("block/get", <<"cid">>), "json")
      /\ Plain(Json("block/put", <<>>), "json")
      /\ Plain(NdJson("block/rm", <<"cid", "cid">>), "ndjson")
  BY ArgsListed, PlainHelpers
<1> USE DEF Plain, Columns, Fits, LineKinds, Reserved
<1>3. Fits(BlockGet)
  BY <1>2 DEF BlockGet
<1>4. Fits(BlockPut)
  BY <1>2 DEF BlockPut
<1>5. Fits(BlockRm)
  BY <1>2 DEF BlockRm
<1> HIDE DEF Fits
<1> QED
  BY <1>1, <1>3, <1>4, <1>5 DEF BlockAPI

\* The commands of client.bootstrap fit.
LEMMA BootstrapRows == \A c \in BootstrapAPI : Fits(c)
<1>1. Fits(BootstrapAdd) /\ Fits(BootstrapRm) /\ Fits(BootstrapList)
  BY ArgsListed, PlainHelpers, PlainFits DEF BootstrapAdd, BootstrapRm, BootstrapList
<1> QED
  BY <1>1 DEF BootstrapAPI

\* The commands of client.config.profiles fit.
LEMMA ProfilesRows == \A c \in ProfilesAPI : Fits(c)
<1>1. Fits(ProfilesApply)
  BY ArgsListed, PlainHelpers, PlainFits DEF ProfilesApply
<1> QED
  BY <1>1 DEF ProfilesAPI

\* The commands of client.config fit.
LEMMA ConfigRows == \A c \in ConfigAPI : Fits(c)
<1>1. Fits(ConfigGetAll)
  BY ArgsListed, PlainHelpers, PlainFits DEF ConfigGetAll
<1>2. /\ Plain(Json("config", <<"key">>), "json")
      /\ Plain(Text("config", <<"key", "value">>), "text")
      /\ Plain(Text("config/replace", <<>>), "text")
  BY ArgsListed, PlainHelpers
<1> USE DEF Plain, Columns, Fits, LineKinds, Reserved
<1>3. Fits(ConfigGet)
  BY <1>2 DEF ConfigGet
<1>4. Fits(ConfigSet)
  BY <1>2 DEF ConfigSet
<1>5. Fits(ConfigReplace)
  BY <1>2 DEF ConfigReplace
<1> HIDE DEF Fits
<1> QED
  BY <1>1, <1>3, <1>4, <1>5, ProfilesRows DEF ConfigAPI

\* The commands of client.dag fit.
LEMMA DAGRows == \A c \in DAGAPI : Fits(c)
<1>1. Fits(DagResolve)
  BY ArgsListed, PlainHelpers, PlainFits DEF DagResolve
<1>2. /\ Plain(Bytes("dag/export", <<"cid">>), "bytes")
      /\ Plain(NdJson("dag/import", <<>>), "ndjson")
      /\ Plain(Json("dag/put", <<>>), "json")
      /\ Plain(Json("block/get", <<"cid">>), "json")
  BY ArgsListed, PlainHelpers
<1> USE DEF Plain, Columns, Fits, LineKinds, Reserved
<1>3. Fits(DagExport)
  BY <1>2 DEF DagExport
<1>4. Fits(DagImport)
  BY <1>2 DEF DagImport
<1>5. Fits(DagPut)
  BY <1>2 DEF DagPut
<1>6. Fits(BlockGet)
  BY <1>2 DEF BlockGet
<1> HIDE DEF Fits
<1> QED
  BY <1>1, <1>3, <1>4, <1>5, <1>6 DEF DAGAPI

\* The commands of client.dht fit.
LEMMA DHTRows == \A c \in DHTAPI : Fits(c)
<1>1. Fits(DhtQuery)
  BY ArgsListed, PlainHelpers, PlainFits DEF DhtQuery
<1> QED
  BY <1>1 DEF DHTAPI

\* The commands of client.diag fit.
LEMMA DiagRows == \A c \in DiagAPI : Fits(c)
<1>1. Fits(DiagCmds) /\ Fits(DiagNet) /\ Fits(DiagSys)
  BY ArgsListed, PlainHelpers, PlainFits DEF DiagCmds, DiagNet, DiagSys
<1> QED
  BY <1>1 DEF DiagAPI

\* The commands of client.files fit.
LEMMA FilesRows == \A c \in FilesAPI : Fits(c)
<1>1. Fits(FilesCp) /\ Fits(FilesMkdir) /\ Fits(FilesMv) /\ Fits(FilesStat)
  BY ArgsListed, PlainHelpers, PlainFits DEF FilesCp, FilesMkdir, FilesMv, FilesStat
<1>2. /\ Plain(Json("files/flush", <<"path">>), "json")
      /\ Plain(NdJson("files/ls", <<"path">>), "ndjson")
      /\ Plain(Bytes("files/read", <<"path">>), "bytes")
      /\ Plain(Text("files/rm", <<"path">>), "text")
      /\ Plain(Text("files/write", <<"path">>), "text")
  BY ArgsListed, PlainHelpers
<1> USE DEF Plain, Columns, Fits, LineKinds, Reserved
<1>3. Fits(FilesFlush)
  BY <1>2 DEF FilesFlush
<1>4. Fits(FilesLs)
  BY <1>2 DEF FilesLs
<1>5. Fits(FilesRead)
  BY <1>2 DEF FilesRead
<1>6. Fits(FilesRm)
  BY <1>2 DEF FilesRm
<1>7. Fits(FilesWrite)
  BY <1>2 DEF FilesWrite
<1> HIDE DEF Fits
<1> QED
  BY <1>1, <1>3, <1>4, <1>5, <1>6, <1>7 DEF FilesAPI

\* The commands of client.key fit.
LEMMA KeyRows == \A c \in KeyAPI : Fits(c)
<1>1. Fits(KeyGen) /\ Fits(KeyList) /\ Fits(KeyRename) /\ Fits(KeyRm)
  BY ArgsListed, PlainHelpers, PlainFits DEF KeyGen, KeyList, KeyRename, KeyRm
<1>2. Plain(Json("key/import", <<"name">>), "json")
  BY ArgsListed, PlainHelpers
<1> USE DEF Plain, Columns, Fits, LineKinds, Reserved
<1>3. Fits(KeyImport)
  BY <1>2 DEF KeyImport
<1> HIDE DEF Fits
<1> QED
  BY <1>1, <1>3 DEF KeyAPI

\* The commands of client.log fit.
LEMMA LogRows == \A c \in LogAPI : Fits(c)
<1>1. Fits(LogLevel) /\ Fits(LogLs) /\ Fits(LogTail)
  BY ArgsListed, PlainHelpers, PlainFits DEF LogLevel, LogLs, LogTail
<1> QED
  BY <1>1 DEF LogAPI

\* The commands of client.name.pubsub fit.
LEMMA NamePubsubRows == \A c \in NamePubsubAPI : Fits(c)
<1>1. Fits(NameCancel) /\ Fits(NameState) /\ Fits(NameSubs)
  BY ArgsListed, PlainHelpers, PlainFits DEF NameCancel, NameState, NameSubs
<1> QED
  BY <1>1 DEF NamePubsubAPI

\* The commands of client.name fit.
LEMMA NameRows == \A c \in NameAPI : Fits(c)
<1>1. Fits(NamePublish)
  BY ArgsListed, PlainHelpers, PlainFits DEF NamePublish
<1>2. Plain(NdJson("name/resolve", <<"path">>), "ndjson")
  BY ArgsListed, PlainHelpers
<1> USE DEF Plain, Columns, Fits, LineKinds, Reserved
<1>3. Fits(NameResolve)
  BY <1>2 DEF NameResolve
<1> HIDE DEF Fits
<1> QED
  BY <1>1, <1>3, NamePubsubRows DEF NameAPI

\* The commands of client.object.patch fit.
LEMMA PatchRows == \A c \in PatchAPI : Fits(c)
<1>1. Fits(AddLink) /\ Fits(RmLink)
  BY ArgsListed, PlainHelpers, PlainFits DEF AddLink, RmLink
<1> QED
  BY <1>1 DEF PatchAPI

\* The commands of client.object fit.
LEMMA ObjectRows == \A c \in ObjectAPI : Fits(c)
BY PatchRows DEF ObjectAPI

\* The commands of client.pin.remote.service fit.
LEMMA ServiceRows == \A c \in ServiceAPI : Fits(c)
<1>1. Fits(ServiceAdd)
  BY ArgsListed, PlainHelpers, PlainFits DEF ServiceAdd
<1>2. /\ Plain(Json("pin/remote/service/ls", <<>>), "json")
      /\ Plain(Unread("pin/remote/service/rm", <<"name">>), "unread")
  BY ArgsListed, PlainHelpers
<1> USE DEF Plain, Columns, Fits, LineKinds, Reserved
<1>3. Fits(ServiceLs)
  BY <1>2 DEF ServiceLs
<1>4. Fits(ServiceRm)
  BY <1>2 DEF ServiceRm
<1> HIDE DEF Fits
<1> QED
  BY <1>1, <1>3, <1>4 DEF ServiceAPI

\* The commands of client.pin.remote fit.
LEMMA RemoteRows == \A c \in RemoteAPI : Fits(c)
<1>1. {"service", "name", "background", "origin"} \cap Reserved = {}
      /\ {"service", "name", "cid", "status"} \cap Reserved = {}
  BY DEF Reserved
<1>2. /\ Plain(Json("pin/remote/add", <<"cid">>), "json")
      /\ Plain(NdJson("pin/remote/ls", <<>>), "ndjson")
      /\ Plain(Unread("pin/remote/rm", <<>>), "unread")
  BY ArgsListed, PlainHelpers
<1>3. Fits(RemoteAdd) /\ Fits(RemoteLs) /\ Plain(RemoteRm, "unread")
  BY <1>1, <1>2, PlainFits DEF RemoteAdd, RemoteLs, RemoteRm
<1>4. (RemoteRm.after \cup {"force"}) \cap Reserved = {}
  BY <1>3 DEF Plain, Reserved
<1>5. Fits(RemoteRm) /\ Fits(RemoteRmAll)
  BY <1>3, <1>4, PlainFits DEF RemoteRmAll
<1> QED
  BY <1>3, <1>5, ServiceRows DEF RemoteAPI

\* The commands of client.pin fit.
LEMMA PinRows == \A c \in PinAPI : Fits(c)
<1> DEFINE PerItem(c) == /\ c = [f \in Columns |-> c[f]] /\ c.args \in ArgLists
                         /\ c.each \in {"one", "many"}
                         /\ c.body = "none" /\ c.reads = "ndjson" /\ c.lines \subseteq LineKinds
                         /\ c.return = FALSE /\ c.retries = FALSE
                         /\ \A name \in c.before \cup c.after : name \notin Reserved
<1>1. Fits(PinUpdate)
  BY ArgsListed, PlainHelpers, PlainFits DEF PinUpdate
<1>2. /\ Plain(NdJson("pin/add", <<"path">>), "ndjson")
      /\ Plain(NdJson("pin/ls", <<"path">>), "ndjson")
  BY ArgsListed, PlainHelpers
<1>3. PerItem(PinAddAll)
  BY <1>2 DEF PinAddAll, Plain, Columns, LineKinds, Reserved
<1>4. PerItem(PinAdd)
  BY <1>3 DEF PinAdd, Columns
<1>5. PerItem(PinRmAll)
  BY <1>3 DEF PinRmAll, Columns, Reserved
<1>6. PerItem(PinRm)
  BY <1>5 DEF PinRm, Columns
<1>7. Fits(PinLs)
  BY <1>2 DEF PinLs, Plain, Columns, Fits, LineKinds, Reserved
<1>8. \A c : PerItem(c) => Fits(c)
  BY DEF Fits
<1> HIDE DEF PerItem
<1> QED
  BY <1>1, <1>3, <1>4, <1>5, <1>6, <1>7, <1>8, RemoteRows DEF PinAPI

\* The commands of client.provide fit.
LEMMA ProvideRows == \A c \in ProvideAPI : Fits(c)
<1>1. Fits(ProvideStat)
  BY ArgsListed, PlainHelpers, PlainFits DEF ProvideStat
<1> QED
  BY <1>1 DEF ProvideAPI

\* The commands of client.pubsub fit.
LEMMA PubsubRows == \A c \in PubsubAPI : Fits(c)
<1>1. Fits(PubsubLs) /\ Fits(PubsubPeers)
  BY ArgsListed, PlainHelpers, PlainFits DEF PubsubLs, PubsubPeers
<1>2. Plain(Text("pubsub/pub", <<"topic">>), "text")
  BY ArgsListed, PlainHelpers
<1> USE DEF Plain, Columns, Fits, LineKinds, Reserved
<1>3. Fits(PubsubPublish)
  BY <1>2 DEF PubsubPublish
<1> HIDE DEF Fits
<1> QED
  BY <1>1, <1>3 DEF PubsubAPI

\* The commands of client.refs fit.
LEMMA RefsRows == \A c \in RefsAPI : Fits(c)
<1>1. Fits(Refs) /\ Fits(RefsLocal)
  BY ArgsListed, PlainHelpers, PlainFits DEF Refs, RefsLocal
<1> QED
  BY <1>1 DEF RefsAPI

\* The commands of client.repo fit.
LEMMA RepoRows == \A c \in RepoAPI : Fits(c)
<1>1. Fits(RepoGc) /\ Fits(RepoStat) /\ Fits(RepoVersion)
  BY ArgsListed, PlainHelpers, PlainFits DEF RepoGc, RepoStat, RepoVersion
<1> QED
  BY <1>1 DEF RepoAPI

\* The commands of client.routing fit.
LEMMA RoutingRows == \A c \in RoutingAPI : Fits(c)
<1>1. Fits(RoutingFindProvs) /\ Fits(RoutingGet) /\ Fits(RoutingProvide)
  BY ArgsListed, PlainHelpers, PlainFits DEF RoutingFindProvs, RoutingGet, RoutingProvide
<1>2. /\ Plain(NdJson("routing/findpeer", <<"peer">>), "ndjson")
      /\ Plain(NdJson("routing/put", <<"key">>), "ndjson")
  BY ArgsListed, PlainHelpers
<1> USE DEF Plain, Columns, Fits, LineKinds, Reserved
<1>3. Fits(RoutingFindPeer)
  BY <1>2 DEF RoutingFindPeer
<1>4. Fits(RoutingPut)
  BY <1>2 DEF RoutingPut
<1> HIDE DEF Fits
<1> QED
  BY <1>1, <1>3, <1>4 DEF RoutingAPI

\* The commands of client.stats fit.
LEMMA StatsRows == \A c \in StatsAPI : Fits(c)
<1>1. Fits(BitswapStat) /\ Fits(RepoStat) /\ Fits(StatsBw)
  BY ArgsListed, PlainHelpers, PlainFits DEF BitswapStat, RepoStat, StatsBw
<1> QED
  BY <1>1 DEF StatsAPI

\* The commands of client.swarm fit.
LEMMA SwarmRows == \A c \in SwarmAPI : Fits(c)
<1>1. Fits(SwarmAddrs) /\ Fits(SwarmConnect) /\ Fits(SwarmDisconnect)
     /\ Fits(SwarmLocalAddrs) /\ Fits(SwarmPeers)
  BY ArgsListed, PlainHelpers, PlainFits DEF SwarmAddrs, SwarmConnect, SwarmDisconnect, SwarmLocalAddrs,
     SwarmPeers
<1> QED
  BY <1>1 DEF SwarmAPI

\* The commands of the client itself fit.
LEMMA RootRows ==
  \A c \in {RootAddAll, RootAdd, Cat, CommandsList, Get, Id, IsOnline, Mount, Ping, Resolve,
            Stop, Version} : Fits(c)
<1>1. /\ Fits(Cat) /\ Fits(CommandsList) /\ Fits(Get) /\ Fits(Id) /\ Fits(Mount) /\ Fits(Ping)
      /\ Fits(Resolve) /\ Fits(Stop) /\ Fits(Version)
  BY ArgsListed, PlainHelpers, PlainFits DEF Cat, CommandsList, Get, Id, Mount, Ping, Resolve, Stop,
     Version
<1>2. Plain(NdJson("add", <<>>), "ndjson") /\ Plain(Id, "json")
  BY ArgsListed, PlainHelpers DEF Id
<1> USE DEF Plain, Columns, Fits, LineKinds, Reserved
<1>3. /\ RootAddAll = [f \in Columns |-> RootAddAll[f]] /\ RootAddAll.args \in ArgLists
      /\ RootAddAll.body = "stream" /\ RootAddAll.each = "none" /\ RootAddAll.reads = "ndjson"
      /\ RootAddAll.lines \subseteq LineKinds
      /\ RootAddAll.return = FALSE /\ RootAddAll.retries = FALSE
      /\ \A name \in RootAddAll.before \cup RootAddAll.after : name \notin Reserved
  BY <1>2 DEF RootAddAll
<1>4. Fits(RootAddAll)
  BY <1>3
<1>5. Fits(RootAdd)
  BY <1>3 DEF RootAdd
<1>6. Fits(IsOnline)
  BY <1>2 DEF IsOnline
<1> HIDE DEF Fits
<1> QED
  BY <1>1, <1>4, <1>5, <1>6

\* Every command of the client fits.
LEMMA TableFits == \A c \in KuboRPCClient : Fits(c)
<1> DEFINE roots == {RootAddAll, RootAdd, Cat, CommandsList, Get, Id, IsOnline, Mount, Ping,
                     Resolve, Stop, Version}
           APIs == {BitswapAPI, BlockAPI, BootstrapAPI, ConfigAPI, DAGAPI, DHTAPI, DiagAPI,
                    FilesAPI, KeyAPI, LogAPI, NameAPI, ObjectAPI, PinAPI, ProvideAPI, PubsubAPI,
                    RefsAPI, RepoAPI, RoutingAPI, StatsAPI, SwarmAPI, roots}
<1>1. KuboRPCClient = UNION APIs
  BY DEF KuboRPCClient
<1>2. ASSUME NEW api \in APIs PROVE \A c \in api : Fits(c)
  <2>1. CASE api \in {BitswapAPI, BlockAPI, BootstrapAPI, ConfigAPI, DAGAPI, DHTAPI, DiagAPI}
    BY <2>1, BitswapRows, BlockRows, BootstrapRows, ConfigRows, DAGRows, DHTRows, DiagRows
  <2>2. CASE api \in {FilesAPI, KeyAPI, LogAPI, NameAPI, ObjectAPI, PinAPI, ProvideAPI}
    BY <2>2, FilesRows, KeyRows, LogRows, NameRows, ObjectRows, PinRows, ProvideRows
  <2>3. CASE api \in {PubsubAPI, RefsAPI, RepoAPI, RoutingAPI, StatsAPI, SwarmAPI, roots}
    BY <2>3, PubsubRows, RefsRows, RepoRows, RoutingRows, StatsRows, SwarmRows, RootRows
  <2> QED
    BY <2>1, <2>2, <2>3
<1> HIDE DEF APIs
<1> QED
  BY <1>1, <1>2
-----------------------------------------------------------------------------

\* The requests that went out are a sequence, and values are counted from zero.
TypeInv == TypeOK /\ (\E S : sent \in Seq(S)) /\ gave \in Nat

\* A source is pulled by the commands that send a request per item, a body is
\* looked at by the uploads.
Places ==
  /\ op = "pulling" => cmd.each # "none"
  /\ op = "peeking" => cmd.each = "none" /\ Streams

\* What is known of a source by the columns of its command.
LEMMA SourceFits ==
  ASSUME TypeOK
  PROVE  /\ Fits(cmd)
         /\ source.items \in Nat /\ source.fails \in {"never", "next", "content"}
         /\ cmd.each = "none" => source.items = 1
         /\ cmd.each = "one" => source.fails = "never"
         /\ cmd.each = "none" /\ cmd.body = "none" => source.fails = "never"
         /\ source.fails = "content" => cmd.each = "none" /\ cmd.body = "stream"
<1>1. Fits(cmd)
  BY TableFits DEF TypeOK
<1> QED
  BY <1>1, CommandsAssumption DEF TypeOK, Sources, Fits

\* Types of what a call that fails or settles assigns.
LEMMA FailType ==
  ASSUME TypeInv, Fail
  PROVE  /\ op' \in {"peeking"} \cup Settled
         /\ op' = "peeking" => cmd.retries
         /\ format' \in Formats \cup {Fallback[f] : f \in DOMAIN Fallback}
         /\ asked' \in {asked, 0}
         /\ aborted' = aborted /\ combined' \in BOOLEAN /\ listening' \in BOOLEAN
BY DEF Fail, Settle, Settled, TypeInv, TypeOK, Formats

-----------------------------------------------------------------------------
\* The type invariant in the parts that steps touch.
CallOK ==
  /\ cmd \in KuboRPCClient /\ options \in OptionChoices /\ words \in SUBSET (1..Len(cmd.args))
  /\ source \in Sources(cmd) /\ iterable \in BOOLEAN

ControlOK ==
  /\ op \in {"idle", "pulling", "peeking", "posting", "waiting", "reading"} \cup Settled
  /\ format \in Formats \cup {Fallback[f] : f \in DOMAIN Fallback}
  /\ asked \in 0..source.items
  /\ aborted \in BOOLEAN /\ combined \in BOOLEAN /\ listening \in BOOLEAN
  /\ Places

SentOK ==
  /\ \E S : sent \in Seq(S)
  /\ \A i \in 1..Len(sent) : sent[i].item \in 0..source.items

AnswerOK ==
  /\ conn \in {"none", "open", "dead"}
  /\ upload \in {"none", "open", "whole", "failed"}
  /\ head \in {"none", "ok", "error"}
  /\ ending \in {"open", "whole", "trailer", "lost"}

ReadOK ==
  /\ wrote \in Seq(LineKinds) /\ taken \in 0..Len(wrote)
  /\ due \in 0..2 /\ gave \in Nat /\ gave + due \in 0..2 * taken

\* No step changes the call or its source.
LEMMA CallStays == [Next]_vars => UNCHANGED call
BY DEF Next, Client, Network, Call, CallRefused, Peek, Pull, PullEnds, PullFails, Post, PeekFails,
   PostAborted, FetchRejects, ReadBreaks, TakeBad, FetchResolves, ReadEnds, ReturnEarly,
   ConsumerStops, ReadWhole, TakeLine, YieldValue, BodySent, BodyFails, AbortSignal,
   DaemonAnswers, DaemonWrites, DaemonEnds, ConnectionBreaks, vars

\* Only Post sends.
LEMMA OnlyPostSends == [Next]_vars => Post \/ UNCHANGED sent
BY DEF request, response, Next, Client, Network, Call, CallRefused, Peek, Pull, PullEnds,
   PullFails, PeekFails, PostAborted, FetchRejects, ReadBreaks, TakeBad, FetchResolves,
   ReadEnds, ReturnEarly, ConsumerStops, ReadWhole, TakeLine, YieldValue, BodySent, BodyFails,
   AbortSignal, DaemonAnswers, DaemonWrites, DaemonEnds, ConnectionBreaks, vars

\* What a request leaves in the history of the call.
LEMMA Posted ==
  ASSUME TypeInv, Post
  PROVE  /\ \E S : sent' \in Seq(S)
         /\ Len(sent) \in Nat /\ Len(sent') = Len(sent) + 1
         /\ sent'[Len(sent')].item = asked /\ sent'[Len(sent')].format = format
         /\ sent'[Len(sent')].query = Query
         /\ \A i \in 1..Len(sent) : sent'[i] = sent[i]
<1> DEFINE new == [item |-> asked, format |-> format, query |-> Query]
<1>1. PICK S : sent \in Seq(S)
  BY DEF TypeInv
<1>2. sent' = Append(sent, new) /\ new.item = asked /\ new.format = format /\ new.query = Query
  BY DEF Post
<1> HIDE DEF new
<1>3. sent' \in Seq(S \cup {new})
  BY <1>1, <1>2
<1> QED
  BY <1>1, <1>2, <1>3

\* The reading of an answer stays within what was written.
LEMMA NextKeepsRead ==
  ASSUME TypeInv, [Next]_vars
  PROVE ReadOK'
<1> USE DEF reading, response, ReadOK, TypeInv, TypeOK
<1>1. CASE UNCHANGED <<wrote, reading>>
  BY <1>1
<1>2. CASE Post
  BY <1>2 DEF Post
<1>3. CASE TakeLine
  <2>1. /\ due = 0 /\ taken < Len(wrote) /\ taken' = taken + 1
        /\ UNCHANGED <<wrote, gave>>
        /\ due' \in 0..2
    <3>1. wrote[taken + 1] \in LineKinds
      BY <1>3 DEF TakeLine
    <3>2. wrote[taken + 1] = "batch" \/ wrote[taken + 1] = "value" \/ wrote[taken + 1] = "other"
      BY <1>3, <3>1 DEF TakeLine, LineKinds
    <3>3. due' \in 0..2
      BY <1>3, <3>2 DEF TakeLine
    <3> HIDE DEF TypeInv
    <3> QED
      BY <1>3, <3>3 DEF TakeLine, Awaits
  <2>2. wrote \in Seq(LineKinds) /\ taken \in Nat /\ gave \in Nat /\ gave + due \in 0..2 * taken
        /\ Len(wrote) \in Nat
    BY LenProperties
  <2>3. taken' \in 0..Len(wrote)
    BY ONLY <2>1, <2>2
  <2>4. gave + due' \in 0..2 * taken'
    <3> DEFINE most == 2 * taken
               more == due'
    <3>1. gave \in Nat /\ most \in Nat /\ gave + 0 \in 0..most /\ more \in 0..2
      BY <2>1, <2>2
    <3>2. 2 * (taken + 1) = most + 2
      BY <2>2
    <3> HIDE DEF most, more
    <3>3. gave + more \in 0..most + 2
      BY ONLY <3>1
    <3> QED
      BY <2>1, <3>2, <3>3 DEF more
  <2> QED
    BY <2>1, <2>2, <2>3, <2>4
<1>4. CASE YieldValue
  BY <1>4 DEF YieldValue
<1>5. ASSUME NEW line \in cmd.lines, DaemonWrites(line) PROVE ReadOK'
  <2>1. line \in LineKinds
    BY SourceFits DEF Fits
  <2> QED
    BY <1>5, <2>1 DEF DaemonWrites
<1> QED
  BY <1>1, <1>2, <1>3, <1>4, <1>5
     DEF Next, Client, Network, Call, CallRefused, Peek, Pull, PullEnds, PullFails, PeekFails,
         PostAborted, FetchRejects, ReadBreaks, TakeBad, FetchResolves, ReadEnds, ReturnEarly,
         ConsumerStops, ReadWhole, BodySent, BodyFails, AbortSignal, DaemonAnswers, DaemonEnds,
         ConnectionBreaks, vars

\* The connection, the streamed body and the answer have the states they can have.
LEMMA NextKeepsAnswer ==
  ASSUME TypeInv, [Next]_vars
  PROVE AnswerOK'
BY DEF AnswerOK, TypeInv, TypeOK, Hangup, LeaveBody, request, response, Next, Client, Network,
   Call, CallRefused, Peek, Pull, PullEnds, PullFails, Post, PeekFails, PostAborted,
   FetchRejects, ReadBreaks, TakeBad, FetchResolves, ReadEnds, ReturnEarly, ConsumerStops,
   ReadWhole, TakeLine, YieldValue, BodySent, BodyFails, AbortSignal, DaemonAnswers,
   DaemonWrites, DaemonEnds, ConnectionBreaks, vars

\* Every request is for an item of the source.
LEMMA NextKeepsSent ==
  ASSUME TypeInv, [Next]_vars
  PROVE  SentOK'
<1> USE DEF SentOK, call
<1>1. /\ UNCHANGED call /\ source.items \in Nat /\ \E S : sent \in Seq(S)
      /\ asked \in 0..source.items /\ \A i \in 1..Len(sent) : sent[i].item \in 0..source.items
  BY CallStays, SourceFits DEF TypeInv, TypeOK
<1>2. CASE Post
  BY <1>1, <1>2, Posted
<1>3. CASE UNCHANGED sent
  BY <1>1, <1>3
<1> QED
  BY <1>2, <1>3, OnlyPostSends

\* The place of a call, its source and its signal have the states they can have.
LEMMA NextKeepsControl ==
  ASSUME TypeInv, Places, [Next]_vars
  PROVE ControlOK'
<1> USE DEF ControlOK, TypeInv, TypeOK, Places, call, signals, Settled, Streams
<1>f. /\ source.items \in Nat
      /\ cmd.each = "none" => source.items = 1
      /\ cmd.retries => cmd.each = "none" /\ cmd.body # "none"
      /\ cmd.lines \subseteq LineKinds
      /\ UNCHANGED call
  BY SourceFits, CallStays DEF Fits
<1>1. CASE UNCHANGED <<op, format, asked, signals>>
  BY <1>f, <1>1
<1>2. CASE Call
  BY <1>f, <1>2 DEF Call
<1>3. ASSUME NEW how, how \in Settled, Settle(how) PROVE ControlOK'
  BY <1>f, <1>3 DEF Settle
<1>4. CASE Fail
  BY <1>f, <1>4, FailType
<1>5. CASE Peek \/ Pull \/ Post
  BY <1>f, <1>5 DEF Peek, Pull, Post
<1>6. CASE AbortSignal \/ BodyFails
  BY <1>f, <1>6 DEF AbortSignal, BodyFails
<1>7. CASE FetchResolves
  BY <1>f, <1>3, <1>7 DEF FetchResolves
<1>8. CASE ReadEnds
  BY <1>f, <1>3, <1>8 DEF ReadEnds
<1>9. CASE CallRefused \/ PullEnds \/ PullFails \/ ReturnEarly \/ ConsumerStops
  BY <1>f, <1>3, <1>9 DEF CallRefused, PullEnds, PullFails, ReturnEarly, ConsumerStops
<1>10. CASE PeekFails \/ PostAborted \/ FetchRejects \/ ReadBreaks \/ TakeBad
  BY <1>4, <1>10 DEF PeekFails, PostAborted, FetchRejects, ReadBreaks, TakeBad
<1>11. CASE ReadWhole
  BY <1>3, <1>4, <1>11 DEF ReadWhole
<1> QED
  BY <1>1, <1>2, <1>5, <1>6, <1>7, <1>8, <1>9, <1>10, <1>11
     DEF Next, Client, Network, TakeLine, YieldValue, BodySent, DaemonAnswers, DaemonWrites,
         DaemonEnds, ConnectionBreaks, vars

-----------------------------------------------------------------------------

\* Between two requests there is no connection, nor after an answer is over.
Hung ==
  /\ op = "idle" => conn = "none"
  /\ op \in {"pulling", "peeking", "posting"} => conn # "open"
  /\ ending # "open" => conn # "open"

\* Every way out of a request gives up its connection or has seen it end.
LEMMA NextKeepsHung ==
  ASSUME TypeInv, Places, Hung, Released, [Next]_vars
  PROVE  Hung' /\ Released'
<1> USE DEF TypeInv, TypeOK, Hung, Released, call, request, response, reading, signals, Settled
<1>1. cmd.retries => AtOnce
  BY SourceFits DEF Fits, AtOnce
<1>2. UNCHANGED call
  BY CallStays
<1>3. CASE UNCHANGED <<op, conn, ending, listening>>
  BY <1>2, <1>3
<1>4. ASSUME NEW how \in Settled, Settle(how), UNCHANGED ending,
             conn' \in {conn, "dead"},
             conn' # "open" \/ cmd.reads = "unread" \/ ~iterable
      PROVE  Hung' /\ Released'
  BY <1>2, <1>4 DEF Settle
<1>5. ASSUME Fail, UNCHANGED ending, conn' \in {conn, "dead"},
             conn' # "open" \/ (~iterable /\ ~AtOnce)
      PROVE  Hung' /\ Released'
  BY <1>1, <1>2, <1>4, <1>5 DEF Fail
<1>6. CASE Call \/ Peek \/ Pull \/ Post \/ FetchResolves
  BY <1>2, <1>4, <1>6 DEF Call, Peek, Pull, Post, FetchResolves
<1>7. CASE CallRefused \/ PullEnds \/ PullFails
  BY <1>4, <1>7 DEF CallRefused, PullEnds, PullFails
<1>8. CASE PeekFails \/ PostAborted
  BY <1>5, <1>8 DEF PeekFails, PostAborted
<1>9. CASE FetchRejects \/ ReadBreaks \/ TakeBad
  BY <1>5, <1>9 DEF FetchRejects, ReadBreaks, TakeBad, Hangup, LeaveBody
<1>10. CASE ReadEnds
  BY <1>2, <1>4, <1>10 DEF ReadEnds
<1>11. CASE ReadWhole
  BY <1>4, <1>5, <1>11 DEF ReadWhole
<1>12. CASE ReturnEarly \/ ConsumerStops
  BY <1>4, <1>12 DEF ReturnEarly, ConsumerStops, Hangup, LeaveBody
<1>13. CASE AbortSignal \/ BodyFails
  BY <1>2, <1>13 DEF AbortSignal, BodyFails, Hangup
<1>14. ASSUME NEW how, DaemonEnds(how) PROVE Hung' /\ Released'
  BY <1>2, <1>14 DEF DaemonEnds
<1>15. CASE ConnectionBreaks
  BY <1>2, <1>15 DEF ConnectionBreaks
<1> QED
  BY <1>3, <1>6, <1>7, <1>8, <1>9, <1>10, <1>11, <1>12, <1>13, <1>14, <1>15
     DEF Next, Client, Network, TakeLine, YieldValue, BodySent, DaemonAnswers, DaemonWrites, vars

-----------------------------------------------------------------------------

\* The lines of a kind among the first n.
Among(lines, n, kind) == {i \in 1..n : lines[i] = kind}

\* What was given and what is still due are the values of the lines taken.
Tally ==
  gave + due = Cardinality(Among(wrote, taken, "value"))
               + 2 * Cardinality(Among(wrote, taken, "batch"))

\* A line more is a value more, a batch more or neither.
LEMMA OneMore ==
  ASSUME NEW lines, NEW n \in Nat, NEW kind
  PROVE  /\ Cardinality(Among(lines, n, kind)) \in Nat
         /\ Cardinality(Among(lines, n + 1, kind)) =
              Cardinality(Among(lines, n, kind)) + IF lines[n + 1] = kind THEN 1 ELSE 0
<1> DEFINE few == Among(lines, n, kind)
           more == Among(lines, n + 1, kind)
<1>1. IsFiniteSet(few) /\ n + 1 \notin few
  <2>1. few \subseteq 1..n /\ IsFiniteSet(1..n)
    BY FS_Interval DEF Among
  <2> QED
    BY <2>1, FS_Subset
<1>2. more = IF lines[n + 1] = kind THEN few \cup {n + 1} ELSE few
  BY DEF Among
<1> HIDE DEF few, more
<1>3. Cardinality(few) \in Nat
  BY <1>1, FS_CardinalityType
<1>4. Cardinality(more) = Cardinality(few) + IF lines[n + 1] = kind THEN 1 ELSE 0
  BY <1>1, <1>2, <1>3, FS_AddElement
<1> QED
  BY <1>3, <1>4 DEF few, more

\* Lines that come later do not count yet.
LEMMA SameAmong ==
  ASSUME NEW lines, NEW later, NEW n \in Nat, \A i \in 1..n : later[i] = lines[i], NEW kind
  PROVE  Among(later, n, kind) = Among(lines, n, kind)
BY DEF Among

\* Taking a line makes its values due, and giving them makes them given.
LEMMA NextKeepsTally ==
  ASSUME TypeInv, Tally, [Next]_vars
  PROVE  Tally'
<1> USE DEF Tally, response, reading
<1>n. taken \in Nat
  BY DEF TypeInv, TypeOK
<1>0. /\ gave \in Nat /\ due \in Nat
      /\ wrote \in Seq(LineKinds) /\ taken <= Len(wrote)
  BY DEF TypeInv, TypeOK
<1>1. CASE UNCHANGED <<wrote, reading>>
  BY <1>1
<1>2. CASE Post
  <2>1. taken' = 0 /\ due' = 0 /\ gave' = 0
    BY <1>2 DEF Post
  <2>2. ASSUME NEW kind PROVE Cardinality(Among(wrote', 0, kind)) = 0
    <3>1. Among(wrote', 0, kind) = {}
      BY DEF Among
    <3> QED
      BY <3>1, FS_EmptySet
  <2> QED
    BY <2>1, <2>2
<1>3. CASE TakeLine
  <2>1. /\ wrote[taken + 1] \in LineKinds \ {"bad"} /\ taken' = taken + 1
        /\ UNCHANGED <<wrote, gave>> /\ due = 0
    BY <1>n, <1>0, <1>3 DEF TakeLine, Awaits
  <2>2. due' = IF wrote[taken + 1] = "batch" THEN 2
               ELSE IF wrote[taken + 1] = "value" THEN 1 ELSE 0
    BY <1>3, <2>1 DEF TakeLine, LineKinds
  <2>3. ASSUME NEW kind
        PROVE  /\ Cardinality(Among(wrote, taken, kind)) \in Nat
               /\ Cardinality(Among(wrote, taken + 1, kind)) =
                    Cardinality(Among(wrote, taken, kind))
                    + IF wrote[taken + 1] = kind THEN 1 ELSE 0
    BY <1>n, OneMore
  <2> DEFINE values == Cardinality(Among(wrote, taken, "value"))
             batches == Cardinality(Among(wrote, taken, "batch"))
             more == Cardinality(Among(wrote, taken + 1, "value"))
             moreBatches == Cardinality(Among(wrote, taken + 1, "batch"))
  <2>4. /\ values \in Nat /\ batches \in Nat
        /\ more = values + IF wrote[taken + 1] = "value" THEN 1 ELSE 0
        /\ moreBatches = batches + IF wrote[taken + 1] = "batch" THEN 1 ELSE 0
    BY <2>3
  <2>5. gave + due = values + 2 * batches
    BY DEF Tally
  <2> HIDE DEF values, batches, more, moreBatches
  <2>6. gave \in Nat /\ due' \in Nat /\ gave + due' = more + 2 * moreBatches
    BY <1>0, <2>1, <2>2, <2>4, <2>5
  <2>7. gave' + due' = Cardinality(Among(wrote', taken', "value"))
                       + 2 * Cardinality(Among(wrote', taken', "batch"))
    BY <2>1, <2>6 DEF more, moreBatches
  <2> QED
    BY <2>7 DEF Tally
<1>4. CASE YieldValue
  BY <1>n, <1>0, <1>4 DEF YieldValue
<1>5. ASSUME NEW line \in cmd.lines, DaemonWrites(line) PROVE Tally'
  <2>1. \A i \in 1..taken : wrote'[i] = wrote[i]
    BY <1>n, <1>0, <1>5 DEF DaemonWrites
  <2>2. \A kind : Among(wrote', taken, kind) = Among(wrote, taken, kind)
    BY <1>n, <2>1, SameAmong
  <2> QED
    BY <1>5, <2>2 DEF DaemonWrites
<1> QED
  BY <1>1, <1>2, <1>3, <1>4, <1>5
     DEF Next, Client, Network, Call, CallRefused, Peek, Pull, PullEnds, PullFails, PeekFails,
     PostAborted, FetchRejects, ReadBreaks, TakeBad, FetchResolves, ReadEnds, ReturnEarly,
     ConsumerStops, ReadWhole, BodySent, BodyFails, AbortSignal, DaemonAnswers, DaemonEnds,
     ConnectionBreaks, vars

-----------------------------------------------------------------------------

\* The answer to the current request was read to its end.
ReadOut == ending \in {"whole", "trailer"} /\ (~AtOnce => taken = Len(wrote) /\ due = 0)

\* How far the requests of a call are when it is at a place: it waits and reads
\* after a request, and pulls the next item when the last one is answered.
Asked ==
  /\ op = "idle" => asked = 0 /\ sent = <<>>
  /\ op \in {"waiting", "reading"} => sent # <<>>
  /\ op = "reading" => head = "ok"
  /\ op = "pulling" => asked = 0 \/ sent # <<>>
  /\ op = "pulling" /\ sent # <<>> => head = "ok" /\ ReadOut

\* A source that throws is found out: at once, or by a body that is never whole.
Thrown ==
  /\ op \in {"posting", "waiting", "reading"} /\ Streams => source.fails # "next"
  /\ source.fails = "content" => upload # "whole" /\ ending # "whole"

\* What DoneIsAnswered says, before the values are counted.
Answered ==
  op = "done" =>
    /\ source.fails # "never" => ending = "trailer"
    /\ cmd.each # "none" => asked = source.items
    /\ sent = <<>> => source.items = 0
    /\ sent # <<>> => /\ head = "ok"
                      /\ cmd.reads = "unread" \/ LoopLeft \/ ReadOut

\* A call goes on to read an answer it has got, and to pull after it was read.
LEMMA NextKeepsAsked ==
  ASSUME TypeInv, Places, Hung, Asked, [Next]_vars
  PROVE  Asked'
<1> USE DEF Asked, call, request, response, reading, signals, Settled
<1>0. /\ conn \in {"none", "open", "dead"} /\ UNCHANGED call
      /\ asked \in Nat
  BY CallStays, SourceFits DEF TypeInv, TypeOK
<1>1. cmd.retries => AtOnce /\ cmd.each = "none"
  BY SourceFits DEF Fits, AtOnce, TypeInv
<1>2. CASE UNCHANGED <<op, asked, sent, head, wrote, ending, taken, due>>
  BY <1>0, <1>2 DEF ReadOut, AtOnce
<1>3. ASSUME NEW how \in Settled, Settle(how) PROVE Asked'
  BY <1>3 DEF Settle
<1>4. CASE Fail
  BY <1>3, <1>4 DEF Fail
<1>5. CASE Call \/ Peek \/ Pull
  BY <1>0, <1>5 DEF Call, Peek, Pull, ReadOut, AtOnce
<1>6. CASE Post
  <2>1. sent' # <<>>
    BY <1>6, Posted
  <2> QED
    BY <1>6, <2>1 DEF Post
<1>7. CASE FetchResolves
  BY <1>3, <1>7 DEF FetchResolves
<1>8. CASE ReadEnds
  <2>1. CASE op' = "pulling"
    BY <1>0, <1>8, <2>1 DEF ReadEnds, Awaits, ReadOut, AtOnce
  <2> QED
    BY <1>3, <1>8, <2>1 DEF ReadEnds
<1>9. CASE CallRefused \/ PullEnds \/ PullFails \/ ReturnEarly \/ ConsumerStops
  BY <1>3, <1>9 DEF CallRefused, PullEnds, PullFails, ReturnEarly, ConsumerStops
<1>10. CASE PeekFails \/ PostAborted \/ FetchRejects \/ ReadBreaks \/ TakeBad
  BY <1>4, <1>10 DEF PeekFails, PostAborted, FetchRejects, ReadBreaks, TakeBad
<1>11. CASE ReadWhole
  BY <1>3, <1>4, <1>11 DEF ReadWhole
<1>12. CASE TakeLine \/ YieldValue
  BY <1>12 DEF TakeLine, YieldValue, Awaits
<1>13. CASE BodySent \/ BodyFails \/ AbortSignal
  BY <1>0, <1>13 DEF BodySent, BodyFails, AbortSignal, ReadOut, AtOnce
<1>14. CASE Network
  <2>1. op # "pulling" \/ conn # "open"
    BY DEF Hung
  <2> QED
    BY <1>14, <2>1 DEF Network, DaemonAnswers, DaemonWrites, DaemonEnds, ConnectionBreaks
<1> QED
  BY <1>2, <1>3, <1>4, <1>5, <1>6, <1>7, <1>8, <1>9, <1>10, <1>11, <1>12, <1>13, <1>14
     DEF Next, Client, vars

\* A source that throws lets no upload through.
LEMMA NextKeepsThrown ==
  ASSUME TypeInv, Places, Thrown, [Next]_vars
  PROVE  Thrown'
<1> USE DEF Thrown, call, request, response, reading, signals, Settled, Streams
<1>1. /\ UNCHANGED call /\ Fits(cmd)
      /\ source.fails = "content" => cmd.each = "none" /\ cmd.body = "stream"
  BY CallStays, SourceFits DEF TypeInv
<1>2. CASE UNCHANGED <<op, upload, ending>>
  BY <1>1, <1>2
<1>3. ASSUME NEW how \in Settled, Settle(how), UNCHANGED <<upload, ending>> PROVE Thrown'
  BY <1>1, <1>3 DEF Settle
<1>4. ASSUME Fail, UNCHANGED <<upload, ending>> PROVE Thrown'
  BY <1>1, <1>3, <1>4 DEF Fail
<1>5. CASE Call \/ Peek \/ Pull \/ Post
  BY <1>1, <1>5 DEF Call, Peek, Pull, Post, Places, Fits
<1>6. CASE FetchResolves \/ ReadEnds
  BY <1>1, <1>3, <1>6 DEF FetchResolves, ReadEnds, Awaits
<1>7. CASE CallRefused \/ PullEnds \/ PullFails \/ ReturnEarly \/ ConsumerStops
  BY <1>3, <1>7 DEF CallRefused, PullEnds, PullFails, ReturnEarly, ConsumerStops
<1>8. CASE PeekFails \/ PostAborted \/ FetchRejects \/ ReadBreaks \/ TakeBad
  BY <1>4, <1>8 DEF PeekFails, PostAborted, FetchRejects, ReadBreaks, TakeBad
<1>9. CASE ReadWhole
  BY <1>3, <1>4, <1>9 DEF ReadWhole
<1>10. CASE BodySent \/ BodyFails
  BY <1>1, <1>10 DEF BodySent, BodyFails
<1>11. ASSUME NEW how, DaemonEnds(how) PROVE Thrown'
  BY <1>1, <1>11 DEF DaemonEnds
<1>12. CASE ConnectionBreaks
  BY <1>1, <1>12 DEF ConnectionBreaks
<1> QED
  BY <1>2, <1>5, <1>6, <1>7, <1>8, <1>9, <1>10, <1>11, <1>12
     DEF Next, Client, Network, TakeLine, YieldValue, AbortSignal, DaemonAnswers, DaemonWrites, vars

\* What a done call knows, the daemon can add to but not undo.
LEMMA NextKeepsAnswered ==
  ASSUME TypeInv, Places, Hung, Asked, Thrown, Answered, [Next]_vars
  PROVE  Answered'
<1> USE DEF Answered, call, request, response, reading, signals, Settled
<1>0. /\ UNCHANGED call /\ Fits(cmd)
      /\ source.fails \in {"never", "next", "content"}
      /\ cmd.each = "none" => source.items = 1
      /\ cmd.each = "none" /\ cmd.body = "none" => source.fails = "never"
      /\ source.fails = "content" => cmd.each = "none" /\ cmd.body = "stream"
  BY CallStays, SourceFits DEF TypeInv
<1>1. cmd.each # "none" => ~AtOnce /\ ~cmd.return
  BY <1>0 DEF Fits, AtOnce
<1>2. CASE UNCHANGED <<op, asked, sent, head, wrote, ending, taken, due>>
  BY <1>0, <1>2 DEF ReadOut, AtOnce, LoopLeft
<1>3. ASSUME NEW how \in Settled, Settle(how), how # "done" PROVE Answered'
  BY <1>3 DEF Settle
<1>4. CASE Fail
  BY <1>3, <1>4 DEF Fail
<1>5. CASE Call \/ Peek \/ Pull \/ Post
  BY <1>5 DEF Call, Peek, Pull, Post
<1>6. CASE FetchResolves
  BY <1>0, <1>6 DEF FetchResolves, Settle, Fits, Asked
<1>7. CASE PullEnds
  BY <1>0, <1>7 DEF PullEnds, Settle, Asked, ReadOut, AtOnce, LoopLeft
<1>8. op = "reading" => /\ head = "ok" /\ sent # <<>>
                        /\ cmd.each = "none" /\ source.fails # "never" => ending # "whole"
  BY <1>0 DEF Asked, Thrown, Streams
<1>9. CASE ReadEnds
  BY <1>0, <1>8, <1>9 DEF ReadEnds, Settle, Awaits, ReadOut, AtOnce
<1>10. CASE ReadWhole
  <2>1. ASSUME Settle("done") PROVE Answered'
    BY <1>0, <1>1, <1>8, <1>10, <2>1 DEF ReadWhole, Settle, Awaits, ReadOut, AtOnce
  <2> QED
    BY <1>3, <1>4, <1>10, <2>1 DEF ReadWhole
<1>11. CASE ReturnEarly
  BY <1>0, <1>1, <1>8, <1>11 DEF ReturnEarly, Settle, LoopLeft, Fits
<1>12. CASE CallRefused \/ PullFails \/ ConsumerStops
  BY <1>3, <1>12 DEF CallRefused, PullFails, ConsumerStops
<1>13. CASE PeekFails \/ PostAborted \/ FetchRejects \/ ReadBreaks \/ TakeBad
  BY <1>4, <1>13 DEF PeekFails, PostAborted, FetchRejects, ReadBreaks, TakeBad
<1>14. CASE TakeLine \/ YieldValue
  BY <1>14 DEF TakeLine, YieldValue, Awaits
<1>15. ASSUME NEW status, DaemonAnswers(status) PROVE Answered'
  BY <1>0, <1>15 DEF DaemonAnswers, ReadOut, AtOnce, LoopLeft
<1>16. ASSUME NEW line \in cmd.lines, DaemonWrites(line) PROVE Answered'
  <2>1. LoopLeft => LoopLeft'
    BY <1>0, <1>16 DEF DaemonWrites, LoopLeft, TypeInv, TypeOK
  <2>2. ending = "open"
    BY <1>16 DEF Hung, DaemonWrites, TypeInv, TypeOK
  <2> QED
    BY <1>0, <1>16, <2>1, <2>2 DEF DaemonWrites, ReadOut
<1>17. CASE ConnectionBreaks \/ \E how \in {"whole", "trailer"} : DaemonEnds(how)
  <2>1. ending = "open"
    BY <1>17 DEF Hung, DaemonEnds, ConnectionBreaks
  <2> QED
    BY <1>0, <1>17, <2>1 DEF DaemonEnds, ConnectionBreaks, ReadOut, LoopLeft
<1> QED
  BY <1>2, <1>4, <1>5, <1>6, <1>7, <1>9, <1>10, <1>11, <1>12, <1>13, <1>14, <1>15, <1>16, <1>17
     DEF Next, Client, Network, BodySent, BodyFails, AbortSignal, vars

\* The count of a call that read everything is the count of the whole answer.
LEMMA AnsweredIsDone ==
  ASSUME TypeInv, Tally, Answered
  PROVE  DoneIsAnswered
<1>1. ASSUME taken = Len(wrote), due = 0
      PROVE  gave = Count("value") + 2 * Count("batch")
  <2>1. ASSUME NEW kind PROVE Count(kind) = Cardinality(Among(wrote, taken, kind))
    <3>1. Among(wrote, taken, kind) = {i \in 1..Len(wrote) : wrote[i] = kind}
      BY <1>1 DEF Among
    <3> QED
      BY <3>1 DEF Count
  <2>2. gave \in Nat
    BY DEF TypeInv
  <2> QED
    BY <1>1, <2>1, <2>2 DEF Tally
<1> QED
  BY <1>1 DEF Answered, DoneIsAnswered, ReadOut

-----------------------------------------------------------------------------

\* A signal that is aborted is the caller's, and an upload that has begun has
\* been told or listens.
Active == {"pulling", "peeking", "posting", "waiting", "reading"}
Told ==
  /\ aborted => HasSignal
  /\ op \in Active /\ Streams /\ HasSignal => IF aborted THEN combined ELSE listening

\* The request of a call whose signal is aborted is cut wherever the call is.
LEMMA NextKeepsTold ==
  ASSUME TypeInv, Told, [Next]_vars
  PROVE  Told'
<1> USE DEF Told, call, request, response, reading, signals, Settled, Active
<1>0. UNCHANGED <<call, HasSignal, Streams>> /\ aborted \in BOOLEAN /\ combined \in BOOLEAN
      /\ listening \in BOOLEAN
  BY CallStays DEF HasSignal, Streams, TypeInv, TypeOK
<1>1. CASE UNCHANGED signals /\ (op' \in Active => op \in Active)
  BY <1>0, <1>1
<1>2. ASSUME NEW how \in Settled, Settle(how) PROVE Told'
  BY <1>0, <1>2 DEF Settle
<1>3. CASE Fail
  <2>1. ASSUME combined' = aborted, listening' = (HasSignal /\ ~aborted), UNCHANGED aborted
        PROVE  Told'
    BY <1>0, <2>1
  <2> QED
    BY <1>2, <1>3, <2>1 DEF Fail
<1>4. CASE Call
  BY <1>0, <1>4 DEF Call
<1>5. CASE AbortSignal \/ BodyFails
  BY <1>0, <1>5 DEF AbortSignal, BodyFails
<1>6. CASE CallRefused \/ PullEnds \/ PullFails \/ ReturnEarly \/ ConsumerStops
  BY <1>2, <1>6 DEF CallRefused, PullEnds, PullFails, ReturnEarly, ConsumerStops
<1>7. CASE PeekFails \/ PostAborted \/ FetchRejects \/ ReadBreaks \/ TakeBad
  BY <1>3, <1>7 DEF PeekFails, PostAborted, FetchRejects, ReadBreaks, TakeBad
<1>8. CASE ReadWhole \/ FetchResolves \/ ReadEnds
  BY <1>1, <1>2, <1>3, <1>8 DEF ReadWhole, FetchResolves, ReadEnds, Awaits
<1> QED
  BY <1>1, <1>4, <1>5, <1>6, <1>7, <1>8
     DEF Next, Client, Network, Peek, Pull, Post, TakeLine, YieldValue, BodySent,
         DaemonAnswers, DaemonWrites, DaemonEnds, ConnectionBreaks, vars

-----------------------------------------------------------------------------

\* The value under which an option or a parameter is merged.
Value(before, passed, after, x) ==
  IF x \in after \/ (x \in before /\ (x \notin Options \/ passed[x] = "undefined"))
  THEN "text" ELSE passed[x]

\* The options and parameters of which something is sent.
Live(before, passed, after) ==
  {x \in Options \cup before \cup after :
     x # "signal" /\ Value(before, passed, after, x) \notin Absent}

\* An option is absent, or a timeout that is a number or a duration, or a text.
LEMMA OptionValues ==
  ASSUME NEW passed \in OptionChoices
  PROVE  /\ passed["timeout"] \in {"undefined", "null", "number", "duration"}
         /\ \A o \in Options \ {"timeout"} : passed[o] \in {"undefined", "null", "text"}
BY DEF OptionChoices, Options

\* The pairs of an option are told by cases.
LEMMA PairsByName ==
  ASSUME NEW o, NEW value, NEW pair
  PROVE  pair \in PairsOf(o, value) <=>
           \/ o = "hashAlg" /\ pair = <<"hash", value>>
           \/ o = "mtime" /\ pair \in {<<"mtime", value>>, <<"mtimeNsecs", value>>}
           \/ o = "timeout" /\ pair = <<"timeout", TimeoutOf(value)>>
           \/ o \notin {"hashAlg", "mtime", "timeout"} /\ pair = <<o, value>>
BY DEF PairsOf

\* Which pairs survive the two filters.
Passes(pair) ==
  /\ pair[2] \notin Absent /\ pair[1] # "signal"
  /\ pair[1] = "timeout" => pair[2] = "duration"

\* The value with which a live option is sent.
SentAs(x) == IF x = "timeout" THEN "duration" ELSE "text"

\* A live option is sent under each of its names, and one that is not is not sent.
LEMMA PairsThatPass ==
  ASSUME NEW before, NEW after, NEW passed \in OptionChoices,
         \A name \in before \cup after : name \notin Reserved,
         NEW x \in Options \cup before \cup after
  PROVE  LET value == Value(before, passed, after, x)
         IN /\ x \in Live(before, passed, after) =>
                 \A pair \in PairsOf(x, value) : Passes(pair) /\ pair[2] = SentAs(x)
            /\ x \notin Live(before, passed, after) =>
                 \A pair \in PairsOf(x, value) : ~Passes(pair)
<1> DEFINE value == Value(before, passed, after, x)
<1>1. /\ x = "timeout" => value \in {"undefined", "null", "number", "duration"}
      /\ x # "timeout" => value \in {"undefined", "null", "text"}
      /\ x = "signal" => x \notin before \cup after
  BY OptionValues DEF Value, Reserved, Options
<1>2. /\ value = "number" => TimeoutOf(value) = "duration"
      /\ value = "null" => TimeoutOf(value) = "no duration"
      /\ value \in {"duration", "undefined"} => TimeoutOf(value) = value
  BY DEF TimeoutOf
<1>3. x \in Live(before, passed, after) <=> x # "signal" /\ value \notin Absent
  BY DEF Live
<1> HIDE DEF value
<1>4. ASSUME NEW pair \in PairsOf(x, value)
      PROVE  /\ x \in Live(before, passed, after) => Passes(pair) /\ pair[2] = SentAs(x)
             /\ x \notin Live(before, passed, after) => ~Passes(pair)
  <2>1. CASE x = "timeout"
    <3>1. pair[1] = "timeout" /\ pair[2] = TimeoutOf(value)
      BY <1>4, <2>1, PairsByName
    <3> QED
      BY <1>1, <1>2, <1>3, <2>1, <3>1 DEF Passes, SentAs, Absent
  <2>2. CASE x # "timeout"
    <3>1. pair[2] = value /\ pair[1] # "timeout" /\ (pair[1] = "signal" <=> x = "signal")
      BY <1>4, <2>2, PairsByName
    <3> QED
      BY <1>1, <1>3, <2>2, <3>1 DEF Passes, SentAs, Absent
  <2> QED
    BY <2>1, <2>2
<1> QED
  BY <1>4 DEF value

\* On the wire the pairs of an option have its names.
LEMMA WiredNames ==
  ASSUME NEW x, NEW value, x \notin {"signal", "mtimeNsecs"}
  PROVE  {KebabCase(pair[1]) : pair \in PairsOf(x, value)} = WireNames(x)
<1>1. /\ KebabCase("hash") = "hash" /\ KebabCase("mtime") = "mtime"
      /\ KebabCase("mtimeNsecs") = "mtime-nsecs" /\ KebabCase("timeout") = "timeout"
      /\ KebabCase("cidVersion") = "cid-version"
  BY DEF KebabCase
<1>2. x \notin {"mtimeNsecs", "cidVersion"} => KebabCase(x) = x
  BY DEF KebabCase
<1>3. CASE x = "hashAlg"
  BY <1>1, <1>3 DEF PairsOf, WireNames
<1>4. CASE x = "mtime"
  BY <1>1, <1>4 DEF PairsOf, WireNames
<1>5. CASE x = "timeout"
  BY <1>1, <1>5 DEF PairsOf, WireNames
<1>6. CASE x = "cidVersion"
  BY <1>1, <1>6 DEF PairsOf, WireNames
<1>7. CASE x \notin {"hashAlg", "mtime", "timeout", "cidVersion"}
  <2>1. PairsOf(x, value) = {<<x, value>>} /\ WireNames(x) = {x}
    BY <1>7 DEF PairsOf, WireNames
  <2> QED
    BY <1>2, <1>7, <2>1
<1> QED
  BY <1>3, <1>4, <1>5, <1>6, <1>7

\* A search query names what is live, and no other value than a text or a duration.
LEMMA LiveIsSent ==
  ASSUME NEW before, NEW after, NEW passed \in OptionChoices, NEW arg,
         \A name \in before \cup after : name \notin Reserved
  PROVE  LET pairs == TransformSearchParams(
                        ToUrlSearchParams(arg, Merged(before, passed, after))).pairs
         IN /\ {p[1] : p \in pairs} = UNION {WireNames(x) : x \in Live(before, passed, after)}
            /\ \A p \in pairs : p[2] \in {"text", "duration"}
<1> DEFINE merged == Merged(before, passed, after)
           url == ToUrlSearchParams(arg, merged)
           pairs == TransformSearchParams(url).pairs
           names == Options \cup before \cup after
           live == Live(before, passed, after)
           PairsFor(x) == PairsOf(x, Value(before, passed, after, x))
<1>1. /\ DOMAIN merged = names
      /\ \A x \in names : PairsOf(x, merged[x]) = PairsFor(x)
  BY DEF Merged, Value
<1>2. \A pair : pair \in url.pairs <=>
        pair[2] \notin Absent /\ \E x \in names : pair \in PairsFor(x)
  BY <1>1 DEF ToUrlSearchParams
<1>3. pairs = {<<KebabCase(p[1]), p[2]>> : p \in {q \in url.pairs : Passes(q)}}
  BY DEF TransformSearchParams, Passes
<1>4. \A pair : pair \in url.pairs /\ Passes(pair) <=> \E x \in live : pair \in PairsFor(x)
  <2>1. live \subseteq names
    BY DEF Live
  <2> QED
    BY <1>2, <2>1, PairsThatPass DEF Passes
<1>5. \A x \in live : x \notin {"signal", "mtimeNsecs"}
  BY DEF Live, Reserved, Options
<1>6. ASSUME NEW x \in live
      PROVE  /\ \A pair \in PairsFor(x) : pair[2] \in {"text", "duration"}
             /\ {KebabCase(pair[1]) : pair \in PairsFor(x)} = WireNames(x)
  BY <1>5, WiredNames, PairsThatPass DEF Live, SentAs
<1> HIDE DEF pairs, url, names, live, PairsFor
<1>7. \A p : p \in pairs <=>
        \E x \in live : \E pair \in PairsFor(x) : p = <<KebabCase(pair[1]), pair[2]>>
  BY <1>3, <1>4
<1>8. {p[1] : p \in pairs} = UNION {WireNames(x) : x \in live}
  <2>1. ASSUME NEW p \in pairs PROVE \E x \in live : p[1] \in WireNames(x)
    <3>1. PICK x \in live : \E pair \in PairsFor(x) : p = <<KebabCase(pair[1]), pair[2]>>
      BY <1>7
    <3>2. p[1] \in {KebabCase(pair[1]) : pair \in PairsFor(x)}
      BY <3>1
    <3> QED
      BY <1>6, <3>2
  <2>2. ASSUME NEW x \in live, NEW name \in WireNames(x) PROVE \E p \in pairs : p[1] = name
    <3>1. PICK pair \in PairsFor(x) : name = KebabCase(pair[1])
      BY <1>6
    <3>2. <<name, pair[2]>> \in pairs
      BY <1>7, <3>1
    <3> QED
      BY <3>2
  <2> QED
    BY <2>1, <2>2
<1>9. \A p \in pairs : p[2] \in {"text", "duration"}
  BY <1>6, <1>7
<1> QED
  BY <1>8, <1>9 DEF pairs, url, live

-----------------------------------------------------------------------------

\* The requests that went out are for items before the one at hand, or the
\* first try in the other format.
Once == IF Streams THEN 1 ELSE 0
Fresh ==
  /\ cmd.each # "none" =>
       \A i \in 1..Len(sent) : /\ sent[i].item <= asked
                               /\ op = "posting" => sent[i].item < asked
  /\ cmd.each = "none" =>
       /\ op \in {"posting", "waiting", "reading"} => asked = Once
       /\ \A i \in 1..Len(sent) :
            /\ sent[i].item = Once
            /\ op \in {"idle", "pulling", "peeking", "posting"} =>
                 sent[i].format \in DOMAIN Fallback /\ format \notin DOMAIN Fallback
            /\ format \in DOMAIN Fallback => sent[i].format \in DOMAIN Fallback

\* A request is for the next item or in the next format.
LEMMA NextKeepsFresh ==
  ASSUME TypeInv, Places, Asked, Fresh, [Next]_vars
  PROVE  Fresh'
<1> USE DEF Fresh, call, request, response, reading, signals, Settled, Fallback
<1>0. /\ UNCHANGED <<call, Once, Streams>> /\ asked \in Nat
      /\ cmd.each # "none" => ~Streams
      /\ cmd.retries => cmd.each = "none" /\ Streams
      /\ source.items \in Nat
      /\ \A i \in 1..Len(sent) : sent[i].item \in Nat
  BY CallStays, SourceFits DEF Once, Streams, Fits, TypeInv, TypeOK
<1>1. CASE UNCHANGED <<op, format, asked, sent>>
  BY <1>0, <1>1
<1>2. ASSUME NEW how \in Settled, Settle(how), UNCHANGED sent PROVE Fresh'
  BY <1>0, <1>2 DEF Settle
<1>3. CASE Fail /\ UNCHANGED sent
  <2>1. ASSUME cmd.retries, format \in DOMAIN Fallback, op' = "peeking",
               format' = Fallback[format], asked' = 0
        PROVE  Fresh'
    BY <1>0, <1>3, <2>1
  <2> QED
    BY <1>2, <1>3, <2>1 DEF Fail
<1>4. CASE Call
  BY <1>0, <1>4 DEF Call, Asked, Once
<1>5. CASE Peek
  BY <1>0, <1>5 DEF Peek, Places, Once
<1>6. CASE Pull
  BY <1>0, <1>6 DEF Pull, Places
<1>7. CASE Post
  BY <1>0, <1>7, Posted DEF Post
<1>8. CASE ReadWhole \/ FetchResolves
  BY <1>0, <1>2, <1>3, <1>8 DEF ReadWhole, FetchResolves, Awaits
<1>9. CASE ReadEnds
  BY <1>0, <1>2, <1>9 DEF ReadEnds, Awaits
<1>10. CASE CallRefused \/ PullEnds \/ PullFails \/ ReturnEarly \/ ConsumerStops
  BY <1>2, <1>10 DEF CallRefused, PullEnds, PullFails, ReturnEarly, ConsumerStops
<1>11. CASE PeekFails \/ PostAborted \/ FetchRejects \/ ReadBreaks \/ TakeBad
  BY <1>3, <1>11 DEF PeekFails, PostAborted, FetchRejects, ReadBreaks, TakeBad
<1> QED
  BY <1>1, <1>4, <1>5, <1>6, <1>7, <1>8, <1>9, <1>10, <1>11
     DEF Next, Client, Network, TakeLine, YieldValue, BodySent, BodyFails, AbortSignal,
         DaemonAnswers, DaemonWrites, DaemonEnds, ConnectionBreaks, vars

\* The step of OnlyFreshRequests.
NewRequest ==
  sent' # sent =>
    /\ ~aborted
    /\ \A i \in 1..Len(sent) :
         LET last == sent'[Len(sent')]
         IN /\ last.item >= sent[i].item
            /\ last.item = sent[i].item => last.format # sent[i].format

\* A step that sends sends something new.
LEMMA NextIsFresh ==
  ASSUME TypeInv, Told, Fresh, [Next]_vars
  PROVE  NewRequest
<1>1. Post \/ UNCHANGED sent
  BY OnlyPostSends
<1>2. CASE Post
  <2>1. ~aborted
    BY <1>2 DEF Post, Cut, Told, Active
  <2>2. \A i \in 1..Len(sent) :
          /\ sent[i].item \in Nat /\ asked >= sent[i].item
          /\ asked = sent[i].item => format # sent[i].format
    BY <1>2 DEF Post, Fresh, TypeInv, TypeOK
  <2> QED
    BY <1>2, <2>1, <2>2, Posted DEF NewRequest
<1> QED
  BY <1>1, <1>2 DEF NewRequest

-----------------------------------------------------------------------------

\* What the query of a command is made of fits.
LEMMA QueryParameters ==
  ASSUME TypeInv
  PROVE  ParametersFit(Query)
<1> DEFINE own == cmd.after \cup {n \in cmd.before : n \in Options => Passed[n] = "undefined"}
           given == IF cmd.sends = "own" THEN {} ELSE {o \in Options : Given(o)}
           live == Live(cmd.before, Passed, cmd.after)
<1>1. Passed \in OptionChoices /\ \A name \in cmd.before \cup cmd.after : name \notin Reserved
  <2>1. options \in OptionChoices /\ [o \in Options |-> "undefined"] \in OptionChoices
    BY DEF TypeInv, TypeOK, OptionChoices
  <2> QED
    BY <2>1, SourceFits DEF Passed, Fits, TypeInv
<1>2. \A o \in Options : o \in given <=> Passed[o] \notin Absent
  <2>1. CASE cmd.sends = "own"
    BY <2>1 DEF Passed, Absent
  <2>2. CASE cmd.sends # "own"
    BY <1>1, <2>2, OptionValues DEF Passed, Given, Absent
  <2> QED
    BY <2>1, <2>2
<1>3. given \subseteq Options
  OBVIOUS
<1> HIDE DEF given
<1>4. \A x : x \in live <=> x \in own \cup given /\ x # "signal"
  <2>1. \A n \in own : n # "signal" /\ Value(cmd.before, Passed, cmd.after, n) = "text"
    BY <1>1 DEF Value, Reserved
  <2>2. \A n : n \in Options \cup cmd.before \cup cmd.after /\ n \notin own =>
                n \in Options /\ Value(cmd.before, Passed, cmd.after, n) = Passed[n]
    BY DEF Value
  <2> HIDE DEF own
  <2>3. own \subseteq cmd.before \cup cmd.after
    BY DEF own
  <2>4. ASSUME NEW x \in own PROVE x \in live /\ x # "signal"
    BY <2>1, <2>3 DEF Live, Absent
  <2>5. ASSUME NEW x, x \notin own
        PROVE  x \in live <=> x \in given /\ x # "signal"
    BY <1>2, <1>3, <2>2, <2>5 DEF Live
  <2> QED
    BY <2>4, <2>5
<1>5. WireNames("signal") = {}
  BY DEF WireNames
<1> HIDE DEF own, live
<1>6. UNION {WireNames(x) : x \in live} = UNION {WireNames(o) : o \in own \cup given}
  BY <1>4, <1>5
<1>7. /\ {p[1] : p \in Query.pairs} = UNION {WireNames(x) : x \in live}
      /\ \A p \in Query.pairs : p[2] \in {"text", "duration"}
  BY <1>1, LiveIsSent DEF Query, live
<1> QED
  BY <1>6, <1>7 DEF ParametersFit, own, given

\* Unless an argument is a word for a missing value, a query holds all of them.
LEMMA QueryArguments ==
  ASSUME TypeInv, words = {}
  PROVE  Query.arg = cmd.args
<1> DEFINE given == [i \in 1..Len(cmd.args) |-> IF i \in words THEN "null" ELSE cmd.args[i]]
<1>1. cmd.args \in Seq(ArgNames)
  <2>1. cmd.args \in ArgLists
    BY TableFits DEF TypeInv, TypeOK, Fits
  <2>2. \A a, b, c \in ArgNames : /\ <<a>> \in Seq(ArgNames) /\ <<a, b>> \in Seq(ArgNames)
                                 /\ <<a, b, c>> \in Seq(ArgNames)
    OBVIOUS
  <2>3. <<>> \in Seq(ArgNames)
    OBVIOUS
  <2>4. ASSUME NEW list \in ArgLists PROVE list \in Seq(ArgNames)
    <3>1. CASE list = <<>>
      BY <2>3, <3>1
    <3>2. CASE \E a \in ArgNames : list = <<a>>
      BY <2>2, <3>2
    <3>3. CASE \E a, b \in ArgNames : list = <<a, b>>
      BY <2>2, <3>3
    <3>4. CASE \E a, b, c \in ArgNames : list = <<a, b, c>>
      BY <2>2, <3>4
    <3> QED
      BY <3>1, <3>2, <3>3, <3>4 DEF ArgLists
  <2> QED
    BY <2>1, <2>4
<1>2. given = cmd.args
  BY <1>1
<1>3. Query.arg = Without(given, Absent)
  BY DEF Query, TransformSearchParams, ToUrlSearchParams
<1>4. ArgNames \cap Absent = {}
  BY DEF ArgNames, Absent
<1> QED
  BY <1>1, <1>2, <1>3, <1>4, WithoutNothing

\* Every query that went out fits.
Fitting == \A i \in 1..Len(sent) : ParametersFit(sent[i].query)

\* A query that fits keeps fitting, and each new one fits.
LEMMA NextKeepsFitting ==
  ASSUME TypeInv, Fitting, [Next]_vars
  PROVE  Fitting'
<1>1. UNCHANGED <<cmd, options>>
  BY CallStays DEF call
<1>2. \A query : ParametersFit(query)' <=> ParametersFit(query)
  BY <1>1 DEF ParametersFit, Passed, Given
<1>3. CASE Post
  BY <1>2, <1>3, Posted, QueryParameters DEF Fitting
<1>4. CASE UNCHANGED sent
  BY <1>2, <1>4 DEF Fitting
<1> QED
  BY <1>3, <1>4, OnlyPostSends

-----------------------------------------------------------------------------

\* Only arguments that can be such words are taken for them, and every query
\* that went out without one holds the arguments of the call.
Complete ==
  /\ \A i \in words : cmd.args[i] \in Wordy
  /\ words = {} => \A i \in 1..Len(sent) : sent[i].query.arg = cmd.args

\* What is complete stays so, and so is each new query.
LEMMA NextKeepsComplete ==
  ASSUME TypeInv, Complete, [Next]_vars
  PROVE  Complete'
<1>1. UNCHANGED <<cmd, words>>
  BY CallStays DEF call
<1>2. CASE Post
  BY <1>1, <1>2, Posted, QueryArguments DEF Complete
<1>3. CASE UNCHANGED sent
  BY <1>1, <1>3 DEF Complete
<1> QED
  BY <1>2, <1>3, OnlyPostSends

-----------------------------------------------------------------------------

\* The inductive invariant: the parts that speak of one another.
IInv == TypeInv /\ Places /\ Hung /\ Released /\ Tally /\ Asked /\ Thrown /\ Answered /\ Told
        /\ Fresh /\ Fitting /\ Complete

\* A call begins with nothing asked, sent or read.
LEMMA InitMakes == Init => IInv
<1> SUFFICES ASSUME Init PROVE IInv
  OBVIOUS
<1> USE DEF Init, NoRequest, Settled
<1>1. sent = <<>> /\ sent \in Seq({}) /\ Len(sent) = 0 /\ wrote = <<>> /\ Len(wrote) = 0
  OBVIOUS
<1>2. wrote \in Seq(LineKinds)
  BY <1>1
<1>3. words \in SUBSET (1..Len(cmd.args))
  OBVIOUS
<1>4. format \in Formats
  BY DEF Formats
<1>5. source.items \in Nat
  BY CommandsAssumption DEF Sources
<1>6. TypeInv
  <2>1. CallOK /\ AnswerOK
    BY <1>3 DEF CallOK, AnswerOK
  <2>2. ControlOK
    <3>1. asked \in 0..source.items
      BY <1>5
    <3>2. op = "idle" /\ aborted = FALSE /\ combined = FALSE /\ listening = FALSE
      OBVIOUS
    <3> QED
      BY ONLY <1>4, <3>1, <3>2 DEF ControlOK, Places
  <2>3. SentOK /\ ReadOK
    BY <1>1, <1>2 DEF SentOK, ReadOK
  <2> QED
    BY <2>1, <2>2, <2>3 DEF CallOK, ControlOK, SentOK, AnswerOK, ReadOK, TypeInv, TypeOK
<1>7. Tally
  <2>1. ASSUME NEW kind PROVE Cardinality(Among(wrote, 0, kind)) = 0
    <3>1. Among(wrote, 0, kind) = {}
      BY DEF Among
    <3> QED
      BY <3>1, FS_EmptySet
  <2>2. taken = 0 /\ gave = 0 /\ due = 0
    OBVIOUS
  <2> QED
    BY <2>1, <2>2 DEF Tally
<1>8. source.items = 0 \/ op # "done"
  OBVIOUS
<1>9. Places /\ Hung /\ Released /\ Asked /\ Answered
  BY <1>1 DEF Places, Hung, Released, Asked, Answered
<1>10. Thrown /\ Told /\ Fresh /\ Fitting
  BY <1>1 DEF Thrown, Told, Active, Fresh, Fitting
<1>11. Complete
  BY <1>1 DEF Complete
<1> QED
  BY <1>6, <1>7, <1>9, <1>10, <1>11 DEF IInv

\* The parts of the type invariant make it up.
LEMMA NextKeepsTypes ==
  ASSUME TypeInv, Places, [Next]_vars
  PROVE  TypeInv' /\ Places'
<1>1. CallOK'
  BY CallStays DEF CallOK, TypeInv, TypeOK, call
<1>2. ControlOK' /\ SentOK' /\ AnswerOK' /\ ReadOK'
  BY NextKeepsControl, NextKeepsSent, NextKeepsAnswer, NextKeepsRead
<1> QED
  BY <1>1, <1>2 DEF CallOK, ControlOK, SentOK, AnswerOK, ReadOK, TypeInv, TypeOK

\* Every step keeps the inductive invariant.
LEMMA NextKeeps == IInv /\ [Next]_vars => IInv'
<1> SUFFICES ASSUME IInv, [Next]_vars PROVE IInv'
  OBVIOUS
<1>1. TypeInv' /\ Places'
  BY NextKeepsTypes DEF IInv
<1>2. Hung' /\ Released' /\ Tally'
  BY NextKeepsHung, NextKeepsTally DEF IInv
<1>3. Asked' /\ Thrown' /\ Answered'
  BY NextKeepsAsked, NextKeepsThrown, NextKeepsAnswered DEF IInv
<1>4. Told' /\ Fresh' /\ Fitting' /\ Complete'
  BY NextKeepsTold, NextKeepsFresh, NextKeepsFitting, NextKeepsComplete DEF IInv
<1> QED
  BY <1>1, <1>2, <1>3, <1>4 DEF IInv

\* So it holds in every reachable state.
LEMMA Invariant == Spec => []IInv
<1>1. Init => IInv
  BY InitMakes
<1>2. IInv /\ [Next]_vars => IInv'
  BY NextKeeps
<1> QED
  BY <1>1, <1>2, PTL DEF Spec

\* TypeOK, for every command, every source and answers of any length: a call
\* has read no more than was written and given no more than it read.
THEOREM TypeCorrect == Spec => []TypeOK
<1>1. IInv => TypeOK
  BY DEF IInv, TypeInv
<1> QED
  BY <1>1, Invariant, PTL

\* Released: however a call of any command ends, it listens to no signal, and it
\* holds a connection only if it never reads its answer or cannot cancel it.
THEOREM ReleasedCorrect == Spec => []Released
<1>1. IInv => Released
  BY DEF IInv
<1> QED
  BY <1>1, Invariant, PTL

\* DoneIsAnswered: a call that ends normally gave its caller the whole answer to
\* the whole of a source that did not throw, or met an error in a trailer.
THEOREM DoneCorrect == Spec => []DoneIsAnswered
<1>1. IInv => DoneIsAnswered
  BY AnsweredIsDone DEF IInv
<1> QED
  BY <1>1, Invariant, PTL

\* OnlyFreshRequests: no command posts once its signal is aborted, and none posts
\* the same twice, whatever it retries and however many items its source has.
THEOREM FreshCorrect == Spec => OnlyFreshRequests
<1>1. IInv /\ [Next]_vars => [NewRequest]_vars
  BY NextIsFresh DEF IInv
<1> QED
  BY <1>1, Invariant, PTL DEF Spec, OnlyFreshRequests, NewRequest

\* The options and parameters of QueryFits, whatever words the arguments are: a
\* request carries what was given and what the command adds under their own
\* names, and no stand-in for a value that is not there.
THEOREM ParametersCorrect == Spec => [](\A i \in 1..Len(sent) : ParametersFit(sent[i].query))
<1>1. IInv => \A i \in 1..Len(sent) : ParametersFit(sent[i].query)
  BY DEF IInv, Fitting
<1> QED
  BY <1>1, Invariant, PTL

\* QueryFits, where no argument is a word for a missing value: a request carries
\* the arguments of the call, all and in order, and its options.
THEOREM QueryCorrect == ASSUME Wordy = {} PROVE Spec => []QueryFits
<1>1. IInv => QueryFits
  BY DEF IInv, Fitting, Complete, QueryFits
<1> QED
  BY <1>1, Invariant, PTL
==============================================================================
