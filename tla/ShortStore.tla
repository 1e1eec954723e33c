----------------------------- MODULE ShortStore -----------------------------
(***************************************************************************)
(* ShortStore of sublink.rs: the short links the WebUI and the public      *)
(* converter hand out, the file that keeps them, and the end and restart   *)
(* of the process around it.                                               *)
(*                                                                         *)
(* A mutex serialises the calls and none of them awaits while it holds it, *)
(* so a call is one step, but for the save at its end: persist truncates   *)
(* the file and writes it in place, and the disk can be full or the        *)
(* process die with a part of it written.                                  *)
(* Times are kept as the seconds left; Expired is what has none.           *)
(***************************************************************************)
EXTENDS Integers, Sequences, FiniteSets

CONSTANTS
    UserCodes,       \* stable_code of a user's HY2 link: permanent links
    ConverterCodes,  \* stable_code of a converter query, which is all it can mean
    RequestedCodes,  \* codes that callers of shorten ask for or draw
    Queries,         \* what users and callers of shorten store
    Limit,           \* MAX_SHORT_LINKS
    Ttl,             \* SHORT_LINK_TTL_SECONDS
    NoLink, Unreadable

ASSUME ShortStoreAssumption ==
    /\ Limit \in Nat \ {0} /\ Ttl \in Nat \ {0}
    /\ UserCodes \cap ConverterCodes = {}
    /\ IsFiniteSet(ConverterCodes)

Permanent == -1   \* expires_at_unix is None
Expired   == 0

\* Converter codes are digests: the code stands for the query.
Links == [query : Queries \cup ConverterCodes, left : Permanent .. Ttl]
StoredCodes == UserCodes \cup ConverterCodes
Tables == [StoredCodes -> Links \cup {NoLink}]
NoLinks == [c \in StoredCodes |-> NoLink]
ASSUME NoLinkAssumption == NoLink \notin Links

\* ShortEntry, the link of a caller of shorten.
Entries == [code : RequestedCodes, query : Queries, left : Expired .. Ttl]

VARIABLES
    up,         \* yes; saving: persist has truncated the file; no
    entries,    \* ShortStore.entries: memory only, the newest first
    permanent,  \* ShortStore.permanent: a code at most once, the order is left out
    file,       \* hy2-short-links.toml; Unreadable when from_env cannot parse it
    target,     \* code of the call that is saving
    acked,      \* the query of each user's link as last answered; NoLink when it was
                \* never answered, a later call for it failed, or a process has
                \* started from a part of the links since
    written,    \* history: all, when the last save that opened the file completed;
                \* part from its opening on
    loads       \* history: all, while every process loaded a complete save; part

vars == <<up, entries, permanent, file, target, acked, written, loads>>

TypeOK ==
    /\ up \in {"yes", "saving", "no"}
    /\ entries \in Seq(Entries)
    /\ permanent \in Tables
    /\ file \in Tables \cup {Unreadable}
    /\ target \in StoredCodes \cup {NoLink}
    /\ acked \in [UserCodes -> Queries \cup {NoLink}]
    /\ written \in {"all", "part"} /\ loads \in {"all", "part"}

\* from_env finds no file, which counts as one without links.
Init ==
    /\ up = "yes" /\ entries = <<>>
    /\ permanent = NoLinks /\ file = NoLinks
    /\ target = NoLink
    /\ acked = [u \in UserCodes |-> NoLink]
    /\ written = "all" /\ loads = "all"

----------------------------------------------------------------------------
(* Calls of SublinkService.                                                 *)

\* VecDeque::retain, and remove of the one entry a code has: what s has of the
\* entries that stay, in its order.
Retain(s, stay) ==
    LET upTo[n \in 0 .. Len(s)] ==
          IF n = 0 THEN <<>>
          ELSE IF s[n] \in stay THEN Append(upTo[n - 1], s[n]) ELSE upTo[n - 1]
    IN  upTo[Len(s)]

Fresh(e) == e.left > Expired
Pruned == Retain(entries, {e \in Entries : Fresh(e)})

\* What push_front leaves room for: pop_back removes the oldest.
Kept(s) == SubSeq(s, 1, IF Len(s) < Limit THEN Len(s) ELSE Limit - 1)

\* shorten: put prunes, replaces a link of the same code, and keeps to the limit.
Shorten(c, q) ==
    /\ up = "yes"
    /\ entries' = <<[code |-> c, query |-> q, left |-> Ttl]>>
                    \o Kept(Retain(Pruned, {e \in Entries : e.code # c}))
    /\ UNCHANGED <<up, permanent, file, target, acked, written, loads>>

\* redirect, resolve and auto look a code up; get prunes as it does.
Lookup ==
    /\ up = "yes"
    /\ entries' = Pruned
    /\ UNCHANGED <<up, permanent, file, target, acked, written, loads>>

\* persist: open truncates the file, or fails and the call with it.
Persist(c, links) ==
    /\ permanent' = links
    /\ \/ up' = "saving" /\ file' = Unreadable /\ target' = c /\ written' = "part"
          /\ UNCHANGED acked
       \/ UNCHANGED <<up, file, target, written>>
          /\ acked' = IF c \in UserCodes THEN [acked EXCEPT ![c] = NoLink] ELSE acked
    /\ UNCHANGED <<entries, loads>>

\* shorten_hy2 and put_permanent.
ShortenHy2(c, q) ==
    /\ up = "yes"
    /\ Persist(c, [permanent EXCEPT ![c] = [query |-> q, left |-> Permanent]])

Expiring(links) == {c \in StoredCodes : links[c] # NoLink /\ links[c].left # Permanent}
\* Mutant of Unexpired: links without an expiry are taken for expired ones.
HarshUnexpired(links) ==
    [c \in StoredCodes |->
        IF links[c] # NoLink /\ links[c].left <= Expired THEN NoLink ELSE links[c]]

\* put_persisted_expiring forgets what has expired,
Unexpired(links) ==
    [c \in StoredCodes |->
        IF links[c] # NoLink /\ links[c].left = Expired THEN NoLink ELSE links[c]]

\* How many of n expiring links stay when one more is to be stored.
Room(n) == IF n < Limit THEN n ELSE Limit - 1
Without(links, gone) == [c \in StoredCodes |-> IF c \in gone THEN NoLink ELSE links[c]]

\* Mutants of Evicted: one link too many is kept; the freshest links go.
LateEvicted(links) ==
    LET all == Expiring(links)
    IN  {Without(links, gone) : gone \in
           {g \in SUBSET all :
              /\ Cardinality(all \ g) = IF Cardinality(all) > Limit THEN Limit ELSE Cardinality(all)
              /\ \A c \in g, d \in all \ g : links[c].left <= links[d].left}}
FreshEvicted(links) ==
    LET all == Expiring(links)
    IN  {Without(links, gone) : gone \in
           {g \in SUBSET all :
              /\ Cardinality(all \ g) = Room(Cardinality(all))
              /\ \A c \in g, d \in all \ g : links[c].left >= links[d].left}}

\* and evicts, one after the other, links that expire first until there is room.
Evicted(links) ==
    LET all == Expiring(links)
    IN  {Without(links, gone) : gone \in
           {g \in SUBSET all :
              /\ Cardinality(all \ g) = Room(Cardinality(all))
              /\ \A c \in g, d \in all \ g : links[c].left <= links[d].left}}

\* The link shorten_auto stores, or refreshes when it has it already.
Converted(c) == [query |-> c, left |-> Ttl]

\* shorten_auto and put_persisted_expiring.
ShortenAuto(c) ==
    /\ up = "yes"
    /\ LET known == Unexpired(permanent)
       IN  \E kept \in (IF known[c] # NoLink THEN {known} ELSE Evicted(known)) :
             Persist(c, [kept EXCEPT ![c] = Converted(c)])

\* The rest of persist.  A link that is cut behind its query has lost its expiry, if
\* it had one, and one that is cut within the digits of it expired long ago.
CutTimes(left) == IF left = Permanent THEN {Permanent} ELSE {left, Permanent, Expired}

\* A part of the links is written.  One that ends between two links, or behind a
\* query, can be parsed; an empty one cannot: it has no links.  (The order of the
\* links is left out: any of them can be the ones that were written first.)
PersistCut ==
    /\ up = "saving" /\ file = Unreadable
    /\ \E last \in {c \in StoredCodes : permanent[c] # NoLink} :
       \E before \in SUBSET (StoredCodes \ {last}), left \in CutTimes(permanent[last].left) :
         file' = [c \in StoredCodes |->
                    CASE c = last -> [permanent[c] EXCEPT !.left = left]
                      [] c \in before -> permanent[c]
                      [] OTHER -> NoLink]
    /\ UNCHANGED <<up, entries, permanent, target, acked, written, loads>>

\* All links are written and the call is answered,
PersistDone ==
    /\ up = "saving"
    /\ up' = "yes" /\ file' = permanent /\ target' = NoLink /\ written' = "all"
    /\ acked' = IF target \in UserCodes
                  THEN [acked EXCEPT ![target] = permanent[target].query]
                  ELSE acked
    /\ UNCHANGED <<entries, permanent, loads>>

\* or the write fails, and the file stays as it is then.
PersistFails ==
    /\ up = "saving"
    /\ up' = "yes" /\ target' = NoLink
    /\ acked' = IF target \in UserCodes THEN [acked EXCEPT ![target] = NoLink] ELSE acked
    /\ UNCHANGED <<entries, permanent, file, written, loads>>

----------------------------------------------------------------------------
(* Time and the process.                                                    *)

Older(n) == IF n > Expired THEN n - 1 ELSE n
OlderLinks(links) ==
    [c \in StoredCodes |->
        IF links[c] = NoLink THEN NoLink ELSE [links[c] EXCEPT !.left = Older(@)]]

\* A second passes; no call takes that long.
Tick ==
    /\ up # "saving"
    /\ entries' = [i \in DOMAIN entries |-> [entries[i] EXCEPT !.left = Older(@)]]
    /\ permanent' = OlderLinks(permanent)
    /\ file' = IF file = Unreadable THEN Unreadable ELSE OlderLinks(file)
    /\ UNCHANGED <<up, target, acked, written, loads>>

\* The process ends; a call that is saving is never answered.
Crash ==
    /\ up # "no"
    /\ up' = "no" /\ entries' = <<>> /\ permanent' = NoLinks /\ target' = NoLink
    /\ acked' = IF target \in UserCodes THEN [acked EXCEPT ![target] = NoLink] ELSE acked
    /\ UNCHANGED <<file, written, loads>>

\* from_env: the process does not start with a file it cannot parse.
Start ==
    /\ up = "no" /\ file # Unreadable
    /\ up' = "yes" /\ permanent' = file
    /\ \/ written = "all" /\ UNCHANGED <<acked, loads>>
       \/ written = "part" /\ acked' = [u \in UserCodes |-> NoLink] /\ loads' = "part"
    /\ UNCHANGED <<entries, file, target, written>>

Next ==
    \/ \E c \in RequestedCodes, q \in Queries : Shorten(c, q)
    \/ \E c \in UserCodes, q \in Queries : ShortenHy2(c, q)
    \/ \E c \in ConverterCodes : ShortenAuto(c)
    \/ Lookup \/ PersistCut \/ PersistDone \/ PersistFails
    \/ Tick \/ Crash \/ Start

Spec == Init /\ [][Next]_vars

----------------------------------------------------------------------------
(* Properties.                                                              *)

\* What get answers for a code: persisted links come before those in memory.
Found(c) ==
    LET stored == c \in StoredCodes /\ permanent[c] # NoLink /\ permanent[c].left # Expired
        hits   == {i \in DOMAIN entries : entries[i].code = c /\ Fresh(entries[i])}
    IN  CASE stored -> permanent[c].query
          [] ~stored /\ hits # {} -> entries[CHOOSE i \in hits : \A j \in hits : i <= j].query
          [] OTHER -> NoLink

\* "Bounded by the configured capacity": neither the links in memory nor the
\* converter links that are saved outgrow it, whatever expires and returns.  (Not
\* so after a start from a part of a save: a converter link that had lost its
\* expiry there was not counted, and gets one back when it is refreshed.)
Bounded ==
    /\ Len(entries) <= Limit
    /\ loads = "all" => Cardinality(Expiring(permanent)) <= Limit

\* "User links are permanent": while the service runs, a user's link that was
\* answered leads to the query stored for it last, whatever expires, is evicted,
\* is asked for under the same code or fails to be saved, and also after the
\* restarts from a save that completed.  What a start from a part of a save loses
\* is the subject of LinksSurvive; links answered after it are served again.
UserLinksServed ==
    up = "yes" => \A u \in UserCodes : acked[u] # NoLink => Found(u) = acked[u]

\* A converter link that is lost before its time is one that would have expired
\* no later than every one that stays.
FresherKept ==
    [][up' # "no" =>
         \A c \in Expiring(permanent) :
             permanent[c].left > Expired /\ permanent'[c] = NoLink =>
                 \A d \in Expiring(permanent') : permanent'[d].left >= permanent[c].left]_vars

\* "So they survive process restarts": a new process can read the file and finds the
\* links that were answered there.  The code does not have this property: a later
\* save that does not complete takes them along.
LinksSurvive ==
    up = "no" => \A u \in UserCodes :
                    acked[u] # NoLink => file # Unreadable /\ file[u] # NoLink
=============================================================================
