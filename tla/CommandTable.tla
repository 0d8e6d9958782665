----------------------------- MODULE CommandTable -----------------------------
(***************************************************************************)
(* The commands of the client, one definition per create...() function, in *)
(* the groups in which createKuboRPCClient() wires them: which endpoint a  *)
(* command posts to, with which arguments and parameters of its own, with  *)
(* which body, and how it reads the answer.  Commands gives the life of a  *)
(* call of any of them.                                                    *)
(***************************************************************************)

\* args     the arguments it sends, as many as it can be given
\* sends    the caller's options are spread into the search params, or it
\*          sends only its "own" parameters
\* before   its own parameters that an option of that name overrides,
\* after    and those that override the option; by their names on the wire
\* body     "none", "bytes" in memory, or a "stream" from the caller's source
\* each     one request per item of a source of "one" or "many" items
\* checks   it may throw before it does anything
\* reads    the answer as a whole ("json", "text", "buffer", "empty": a text
\*          that is an error unless empty), as it comes ("ndjson", "bytes")
\*          or not at all ("unread")
\* lines    what the answer is made of: values, a batch of values, lines that
\*          are not results, and bad ones that make the mapping throw
\* last     only the last value is returned
\* return   it leaves its loop after the first batch
\* retries  a failure is answered with a request for another format
\* swallows an error becomes a result
Command(to, args) ==
  [to |-> to, args |-> args, sends |-> "options", before |-> {}, after |-> {},
   body |-> "none", each |-> "none", checks |-> FALSE,
   reads |-> "json", lines |-> {"value", "bad"}, last |-> FALSE, return |-> FALSE,
   retries |-> FALSE, swallows |-> FALSE]

Json(to, args)   == Command(to, args)
Text(to, args)   == [Command(to, args) EXCEPT !.reads = "text", !.lines = {"value"}]
Unread(to, args) == [Command(to, args) EXCEPT !.reads = "unread", !.lines = {"value"}]
Bytes(to, args)  == [Command(to, args) EXCEPT !.reads = "bytes", !.lines = {"value"}]
NdJson(to, args) == [Command(to, args) EXCEPT !.reads = "ndjson"]

-----------------------------------------------------------------------------
(* client.bitswap, client.block and client.bootstrap                       *)

BitswapStat            == Json("bitswap/stat", <<>>)
BitswapWantlist        == Json("bitswap/wantlist", <<>>)
BitswapWantlistForPeer == [Json("bitswap/wantlist", <<>>) EXCEPT !.after = {"peer"}]
BitswapAPI == {BitswapStat, BitswapWantlist, BitswapWantlistForPeer}

BlockGet  == [Json("block/get", <<"cid">>) EXCEPT !.reads = "buffer", !.lines = {"value"}]
BlockPut  == [Json("block/put", <<>>) EXCEPT !.body = "bytes", !.retries = TRUE]
BlockRm   == [NdJson("block/rm", <<"cid", "cid">>) EXCEPT !.before = {"stream-channels"}]
BlockStat == Json("block/stat", <<"cid">>)
BlockAPI  == {BlockGet, BlockPut, BlockRm, BlockStat}

BootstrapAdd  == Json("bootstrap/add", <<"address">>)
BootstrapRm   == Json("bootstrap/rm", <<"address">>)
BootstrapList == Json("bootstrap/list", <<>>)
BootstrapAPI  == {BootstrapAdd, BootstrapRm, BootstrapList}

-----------------------------------------------------------------------------
(* client.config                                                           *)

ConfigGetAll  == Json("config/show", <<>>)
ConfigGet     == [Json("config", <<"key">>) EXCEPT !.checks = TRUE]
\* By the type of its value config.set sends json, bool or neither: "json" stands
\* for all three.
ConfigSet     == [Text("config", <<"key", "value">>) EXCEPT !.checks = TRUE, !.after = {"json"}]
ConfigReplace == [Text("config/replace", <<>>) EXCEPT !.body = "bytes"]
ProfilesApply == Json("config/profile/apply", <<"profile">>)
ProfilesAPI   == {ProfilesApply}
ConfigAPI     == {ConfigGetAll, ConfigGet, ConfigSet, ConfigReplace} \cup ProfilesAPI

-----------------------------------------------------------------------------
(* client.dag (dag.get asks for blocks only), client.dht and client.diag   *)

DagExport  == [Bytes("dag/export", <<"cid">>) EXCEPT !.sends = "own"]
DagImport  == [NdJson("dag/import", <<>>) EXCEPT !.sends = "own", !.after = {"pin-roots"},
                 !.body = "stream", !.lines = {"value", "bad", "other"}]
DagPut     == [Json("dag/put", <<>>) EXCEPT !.checks = TRUE, !.body = "bytes",
                 !.before = {"store-codec", "hashAlg"}, !.after = {"input-codec"}]
DagResolve == Json("dag/resolve", <<"path">>)
DAGAPI     == {DagExport, DagImport, DagPut, DagResolve, BlockGet}

DhtQuery == NdJson("dht/query", <<"peer">>)
DHTAPI   == {DhtQuery}

DiagCmds == Json("diag/cmds", <<>>)
DiagNet  == Json("diag/net", <<>>)
DiagSys  == Json("diag/sys", <<>>)
DiagAPI  == {DiagCmds, DiagNet, DiagSys}

-----------------------------------------------------------------------------
(* client.files                                                            *)

FilesCp    == Text("files/cp", <<"path", "path">>)
FilesFlush == [Json("files/flush", <<"path">>) EXCEPT !.checks = TRUE]
FilesLs    == [NdJson("files/ls", <<"path">>) EXCEPT !.checks = TRUE, !.before = {"long"},
                 !.after = {"stream"}, !.lines = {"value", "bad", "batch"}]
FilesMkdir == Text("files/mkdir", <<"path">>)
FilesMv    == Text("files/mv", <<"path", "path">>)
FilesRead  == [Bytes("files/read", <<"path">>) EXCEPT !.before = {"count"}]
FilesRm    == [Text("files/rm", <<"path">>) EXCEPT !.reads = "empty"]
FilesStat  == Json("files/stat", <<"path">>)
FilesWrite == [Text("files/write", <<"path">>) EXCEPT !.body = "stream",
                 !.before = {"stream-channels", "count"}]
FilesAPI   == {FilesCp, FilesFlush, FilesLs, FilesMkdir, FilesMv, FilesRead, FilesRm,
               FilesStat, FilesWrite}

-----------------------------------------------------------------------------
(* client.key, client.log, client.name and client.object                   *)

KeyGen    == Json("key/gen", <<"name">>)
KeyImport == [Json("key/import", <<"name">>) EXCEPT !.before = {"pem", "password"}]
KeyList   == Json("key/list", <<>>)
KeyRename == Json("key/rename", <<"name", "name">>)
KeyRm     == Json("key/rm", <<"name">>)
KeyAPI    == {KeyGen, KeyImport, KeyList, KeyRename, KeyRm}

LogLevel == Json("log/level", <<"name", "name">>)
LogLs    == Json("log/ls", <<>>)
LogTail  == NdJson("log/tail", <<>>)
LogAPI   == {LogLevel, LogLs, LogTail}

NamePublish   == Json("name/publish", <<"path">>)
NameResolve   == [NdJson("name/resolve", <<"path">>) EXCEPT !.before = {"stream"}]
NameCancel    == Json("name/pubsub/cancel", <<"name">>)
NameState     == Json("name/pubsub/state", <<>>)
NameSubs      == Json("name/pubsub/subs", <<>>)
NamePubsubAPI == {NameCancel, NameState, NameSubs}
NameAPI       == {NamePublish, NameResolve} \cup NamePubsubAPI

AddLink   == Json("object/patch/add-link", <<"cid", "name", "cid">>)
RmLink    == Json("object/patch/rm-link", <<"cid", "name">>)
PatchAPI  == {AddLink, RmLink}
ObjectAPI == PatchAPI

-----------------------------------------------------------------------------
(* client.pin                                                              *)

PinAddAll == [NdJson("pin/add", <<"path">>) EXCEPT !.each = "many",
                !.after = {"recursive", "stream"}, !.lines = {"value", "bad", "batch"}]
PinAdd    == [PinAddAll EXCEPT !.each = "one", !.last = TRUE, !.checks = TRUE]
PinLs     == [NdJson("pin/ls", <<"path">>) EXCEPT !.checks = TRUE, !.after = {"names", "stream"},
                !.lines = {"value", "bad", "batch"}, !.return = TRUE]
PinRmAll  == [PinAddAll EXCEPT !.to = "pin/rm", !.after = {"recursive"}]
PinRm     == [PinRmAll EXCEPT !.each = "one", !.last = TRUE, !.checks = TRUE]
PinUpdate == Json("pin/update", <<"cid", "cid">>)

\* They give timeout to HTTP.fetch, which does not use it, and not to the daemon.
Remote(c, names) == [c EXCEPT !.sends = "own", !.after = names, !.checks = TRUE]

RemoteAdd   == Remote(Json("pin/remote/add", <<"cid">>), {"service", "name", "background", "origin"})
RemoteLs    == Remote(NdJson("pin/remote/ls", <<>>), {"service", "name", "cid", "status"})
RemoteRm    == Remote(Unread("pin/remote/rm", <<>>), {"service", "name", "cid", "status"})
RemoteRmAll == Remote(RemoteRm, RemoteRm.after \cup {"force"})

ServiceAdd == Remote(Unread("pin/remote/service/add", <<"name", "endpoint", "key">>), {})
ServiceLs  == [Json("pin/remote/service/ls", <<>>) EXCEPT !.sends = "own", !.after = {"stat"}]
ServiceRm  == [Unread("pin/remote/service/rm", <<"name">>) EXCEPT !.sends = "own"]
ServiceAPI == {ServiceAdd, ServiceLs, ServiceRm}
RemoteAPI  == {RemoteAdd, RemoteLs, RemoteRm, RemoteRmAll} \cup ServiceAPI
PinAPI     == {PinAddAll, PinAdd, PinLs, PinRmAll, PinRm, PinUpdate} \cup RemoteAPI

-----------------------------------------------------------------------------
(* client.provide, client.pubsub (subscribe is Pubsub's), client.refs and  *)
(* client.repo                                                             *)

ProvideStat == Json("provide/stat", <<>>)
ProvideAPI  == {ProvideStat}

PubsubLs      == Json("pubsub/ls", <<>>)
PubsubPeers   == Json("pubsub/peers", <<"topic">>)
PubsubPublish == [Text("pubsub/pub", <<"topic">>) EXCEPT !.body = "bytes"]
PubsubAPI     == {PubsubLs, PubsubPeers, PubsubPublish}

Refs      == NdJson("refs", <<"path", "path">>)
RefsLocal == NdJson("refs/local", <<>>)
RefsAPI   == {Refs, RefsLocal}

RepoGc      == NdJson("repo/gc", <<>>)
RepoStat    == Json("repo/stat", <<>>)
RepoVersion == Json("repo/version", <<>>)
RepoAPI     == {RepoGc, RepoStat, RepoVersion}

-----------------------------------------------------------------------------
(* client.routing, client.stats and client.swarm                           *)

RoutingFindPeer  == [NdJson("routing/findpeer", <<"peer">>) EXCEPT !.before = {"stream"}]
RoutingFindProvs == NdJson("routing/findprovs", <<"cid">>)
RoutingGet       == NdJson("routing/get", <<"key">>)
RoutingProvide   == NdJson("routing/provide", <<"cid", "cid">>)
RoutingPut       == [NdJson("routing/put", <<"key">>) EXCEPT !.body = "bytes",
                       !.before = {"stream"}]
RoutingAPI == {RoutingFindPeer, RoutingFindProvs, RoutingGet, RoutingProvide, RoutingPut}

StatsBw  == NdJson("stats/bw", <<>>)
StatsAPI == {BitswapStat, RepoStat, StatsBw}

SwarmAddrs      == Json("swarm/addrs", <<>>)
SwarmConnect    == Json("swarm/connect", <<"address">>)
SwarmDisconnect == Json("swarm/disconnect", <<"address">>)
SwarmLocalAddrs == Json("swarm/addrs/local", <<>>)
SwarmPeers      == Json("swarm/peers", <<>>)
SwarmAPI == {SwarmAddrs, SwarmConnect, SwarmDisconnect, SwarmLocalAddrs, SwarmPeers}

-----------------------------------------------------------------------------
(* The commands of the client itself; ls has a module of its own (Reads).  *)

\* AddAll has their uploads in detail.
RootAddAll == [NdJson("add", <<>>) EXCEPT !.body = "stream", !.before = {"stream-channels"},
                 !.after = {"progress"}, !.lines = {"value", "bad", "other"}]
RootAdd    == [RootAddAll EXCEPT !.last = TRUE]
Cat        == Bytes("cat", <<"path">>)
CommandsList == Json("commands", <<>>)
Get        == Bytes("get", <<"path">>)
Id         == Json("id", <<"peer">>)
IsOnline   == [Id EXCEPT !.swallows = TRUE]
Mount      == Json("dns", <<>>)
Ping       == NdJson("ping", <<"peer">>)
Resolve    == Json("resolve", <<"path">>)
Stop       == Text("shutdown", <<>>)
Version    == Json("version", <<>>)

KuboRPCClient ==
  UNION {BitswapAPI, BlockAPI, BootstrapAPI, ConfigAPI, DAGAPI, DHTAPI, DiagAPI, FilesAPI,
         KeyAPI, LogAPI, NameAPI, ObjectAPI, PinAPI, ProvideAPI, PubsubAPI, RefsAPI, RepoAPI,
         RoutingAPI, StatsAPI, SwarmAPI,
         {RootAddAll, RootAdd, Cat, CommandsList, Get, Id, IsOnline, Mount, Ping, Resolve,
          Stop, Version}}
=============================================================================
