---------------------------------- MODULE Ls ----------------------------------
(***************************************************************************)
(* One call of ls(): the daemon's listing is read line by line, and for    *)
(* every link whose hash is a path a stat request is made, all those of a  *)
(* line at once and without the caller's signal; the entries are given in  *)
(* order, each when its promise is awaited.                                *)
(***************************************************************************)
EXTENDS Naturals, Sequences

CONSTANTS
  MaxLinks,      \* most links of a line
  MaxListings    \* most lines of a listing

ASSUME LsAssumption == MaxLinks \in Nat /\ MaxListings \in Nat

\* The hash of a link is a CID, a path, or does not parse.
Hashes == {"cid", "path", "bad"}

\* A line without .Objects[0].Links; a file, which is listed itself; a directory.
Listings ==
  [is : {"malformed"}, links : {<<>>}] \cup [is : {"file"}, links : [1..1 -> Hashes]]
  \cup [is : {"directory"}, links : UNION {[1..n -> Hashes] : n \in 1..MaxLinks}]

VARIABLES
  ls,        \* the generator
  listing,   \* the lines the daemon wrote
  lsEnding,  \* how the response body ended
  line,      \* the line whose links are given, 0 before the first
  promises,  \* what became of mapLink() for each of its links
  next,      \* the link that is awaited
  entries    \* the entries the caller got: line, link

lsVars == <<ls, listing, lsEnding, line, promises, next, entries>>

\* The types of ls: while a line is given, each of its links has its promise.
LsTypeOK ==
  /\ ls \in {"unused", "reading", "giving", "done", "thrown", "stopped"}
  /\ listing \in Seq(Listings)
  /\ lsEnding \in {"open", "whole", "trailer", "lost"}
  /\ line \in 0..Len(listing)
  /\ promises \in Seq({"asked", "fulfilled", "rejected"})
  /\ ls = "giving" => Len(promises) = Len(listing[line].links)
  /\ next \in 1..Len(promises) + 1

LsStart(state) ==
  /\ ls = state
  /\ listing = <<>> /\ lsEnding = "open"
  /\ line = 0 /\ promises = <<>> /\ next = 1
  /\ entries = <<>>

LsInit == LsStart("reading")

-----------------------------------------------------------------------------

\* Mutant: only the links that need a request are mapped.
MapPaths ==
  /\ ls = "reading" /\ line < Len(listing)
  /\ listing[line + 1].is # "malformed"
  /\ ls' = "giving"
  /\ line' = line + 1
  /\ LET paths == SelectSeq(listing[line + 1].links, LAMBDA l : l = "path")
     IN promises' = [i \in 1..Len(paths) |-> "asked"]
  /\ next' = 1
  /\ UNCHANGED <<listing, lsEnding, entries>>

\* mapLink is called for every link of the line before any is awaited.
MapLinks ==
  /\ ls = "reading" /\ line < Len(listing)
  /\ listing[line + 1].is # "malformed"
  /\ ls' = "giving"
  /\ line' = line + 1
  /\ promises' = [i \in 1..Len(listing[line + 1].links) |->
                    CASE listing[line + 1].links[i] = "cid"  -> "fulfilled"
                      [] listing[line + 1].links[i] = "path" -> "asked"
                      [] listing[line + 1].links[i] = "bad"  -> "rejected"]
  /\ next' = 1
  /\ UNCHANGED <<listing, lsEnding, entries>>

Malformed ==
  /\ ls = "reading" /\ line < Len(listing)
  /\ listing[line + 1].is = "malformed"
  /\ ls' = "thrown"
  /\ UNCHANGED <<listing, lsEnding, line, promises, next, entries>>

\* The stat requests go on when the listing is over, whatever ended it.
StatAnswers(i) ==
  /\ promises[i] = "asked"
  /\ promises' = [promises EXCEPT ![i] = "fulfilled"]
  /\ UNCHANGED <<ls, listing, lsEnding, line, next, entries>>

StatFails(i) ==
  /\ promises[i] = "asked"
  /\ promises' = [promises EXCEPT ![i] = "rejected"]
  /\ UNCHANGED <<ls, listing, lsEnding, line, next, entries>>

\* Mutant: an entry is given as soon as it is there.
GiveAny ==
  /\ ls = "giving" /\ next <= Len(promises)
  /\ \E i \in next..Len(promises) :
       /\ promises[i] = "fulfilled"
       /\ entries' = Append(entries, <<line, i>>)
  /\ next' = next + 1
  /\ UNCHANGED <<ls, listing, lsEnding, line, promises>>

GiveEntry ==
  /\ ls = "giving" /\ next <= Len(promises)
  /\ promises[next] = "fulfilled"
  /\ entries' = Append(entries, <<line, next>>)
  /\ next' = next + 1
  /\ UNCHANGED <<ls, listing, lsEnding, line, promises>>

GiveFails ==
  /\ ls = "giving" /\ next <= Len(promises)
  /\ promises[next] = "rejected"
  /\ ls' = "thrown"
  /\ UNCHANGED <<listing, lsEnding, line, promises, next, entries>>

\* All of the line is given; a file has no other lines.
LineGiven ==
  /\ ls = "giving" /\ next > Len(promises)
  /\ ls' = IF listing[line].is = "file" THEN "done" ELSE "reading"
  /\ UNCHANGED <<listing, lsEnding, line, promises, next, entries>>

ListingEnds ==
  /\ ls = "reading" /\ line = Len(listing)
  /\ lsEnding \in {"whole", "trailer"}
  /\ ls' = "done"
  /\ UNCHANGED <<listing, lsEnding, line, promises, next, entries>>

\* By an abort of the caller's signal, too; lines not read yet are gone.
ListingBreaks ==
  /\ ls = "reading" /\ lsEnding = "lost"
  /\ ls' = "thrown"
  /\ UNCHANGED <<listing, lsEnding, line, promises, next, entries>>

LsConsumerStops ==
  /\ ls = "giving" /\ entries # <<>>
  /\ ls' = "stopped"
  /\ UNCHANGED <<listing, lsEnding, line, promises, next, entries>>

DaemonLists(l) ==
  /\ ls \in {"reading", "giving"} /\ lsEnding = "open" /\ Len(listing) < MaxListings
  /\ listing' = Append(listing, l)
  /\ UNCHANGED <<ls, lsEnding, line, promises, next, entries>>

BodyEnds(how) ==
  /\ ls \in {"reading", "giving"} /\ lsEnding = "open"
  /\ lsEnding' = how
  /\ UNCHANGED <<ls, listing, line, promises, next, entries>>

LsNext ==
  \/ MapLinks \/ Malformed \/ GiveEntry \/ GiveFails \/ LineGiven
  \/ ListingEnds \/ ListingBreaks \/ LsConsumerStops
  \/ \E i \in 1..Len(promises) : StatAnswers(i) \/ StatFails(i)
  \/ \E l \in Listings : DaemonLists(l)
  \/ \E how \in {"whole", "trailer", "lost"} : BodyEnds(how)

-----------------------------------------------------------------------------

\* The links of the first n lines of a listing, in order.
LinksOf(lines, n) ==
  LET Up[i \in 0..n] ==
        IF i = 0 THEN <<>>
        ELSE Up[i - 1] \o [j \in 1..Len(lines[i].links) |-> <<i, j>>]
  IN Up[n]

\* In whatever order the stat requests of a line are answered, the caller gets
\* the links in the order in which the daemon listed them, none twice and none
\* left out; one that failed is not passed over, and a listing that ends
\* normally was given as a whole.
EntriesInOrder ==
  /\ entries = SubSeq(LinksOf(listing, line), 1, Len(entries))
  /\ line > 0 => Len(entries) >= Len(LinksOf(listing, line - 1))
  /\ ls = "done" =>
       /\ entries = LinksOf(listing, line)
       /\ \A i \in 1..Len(promises) : promises[i] = "fulfilled"
       /\ line = Len(listing) \/ listing[line].is = "file"
=============================================================================
