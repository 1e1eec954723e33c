-------------------------- MODULE ShortStoreProofs --------------------------
(***************************************************************************)
(* Proofs about ShortStore for any number of users, codes and queries, any *)
(* capacity and any time to live.                                          *)
(*                                                                         *)
(* Retain is a recursive function, so what it returns is shown by          *)
(* induction: over the naturals, in the form of a minimal element of a set *)
(* (WFMin), which unlike NatInduction has no operator as a parameter.      *)
(***************************************************************************)
EXTENDS ShortStore, FiniteSetTheorems, WellFoundedInduction, TLAPS

----------------------------------------------------------------------------
(* Retain.                                                                  *)

\* Induction over the naturals, for a set.
LEMMA SetInduction ==
    ASSUME NEW S, 0 \in S, \A n \in Nat : n \in S => n + 1 \in S
    PROVE  Nat \subseteq S
  <1> SUFFICES ASSUME Nat \ S # {} PROVE FALSE
    OBVIOUS
  <1>1. PICK x \in Nat \ S : \A y \in Nat \ S : <<y, x>> \notin OpToRel(<, Nat)
    BY WFMin, NatLessThanWellFounded
  <1>2. x - 1 \in Nat /\ x - 1 \notin S
    OBVIOUS
  <1>3. <<x - 1, x>> \in OpToRel(<, Nat)
    BY <1>2 DEF OpToRel
  <1> QED BY <1>1, <1>2, <1>3

\* The function upTo of Retain, on the first m entries.
Row(f, s, stay, m) ==
    f = [n \in 0 .. m |-> IF n = 0 THEN <<>>
                          ELSE IF s[n] \in stay THEN Append(f[n - 1], s[n]) ELSE f[n - 1]]

\* The recursion of Retain defines a function.
LEMMA RowExists ==
    ASSUME NEW s, NEW stay
    PROVE  \A m \in Nat : \E f : Row(f, s, stay, m)
  <1> DEFINE S == {m \in Nat : \E f : Row(f, s, stay, m)}
  <1>1. 0 \in S
    <2> DEFINE f == [n \in 0 .. 0 |-> <<>>]
    <2>1. Row(f, s, stay, 0)
      BY DEF Row
    <2> QED BY <2>1
  <1>2. ASSUME NEW m \in Nat, m \in S PROVE m + 1 \in S
    <2>1. PICK f : Row(f, s, stay, m)
      BY <1>2
    <2> DEFINE last == IF s[m + 1] \in stay THEN Append(f[m], s[m + 1]) ELSE f[m]
               g    == [n \in 0 .. m + 1 |-> IF n = m + 1 THEN last ELSE f[n]]
    <2>2. \A n \in 0 .. m : g[n] = f[n]
      OBVIOUS
    <2>3. \A n \in 0 .. m :
            f[n] = IF n = 0 THEN <<>>
                   ELSE IF s[n] \in stay THEN Append(f[n - 1], s[n]) ELSE f[n - 1]
      BY <2>1 DEF Row
    <2>4. g[m + 1] = last
      OBVIOUS
    <2>5. DOMAIN g = 0 .. m + 1 /\ g = [n \in 0 .. m + 1 |-> g[n]]
      OBVIOUS
    <2> HIDE DEF g
    <2>6. \A n \in 0 .. m + 1 :
            g[n] = IF n = 0 THEN <<>>
                   ELSE IF s[n] \in stay THEN Append(g[n - 1], s[n]) ELSE g[n - 1]
      <3> SUFFICES ASSUME NEW n \in 0 .. m + 1
                   PROVE  g[n] = IF n = 0 THEN <<>>
                                 ELSE IF s[n] \in stay THEN Append(g[n - 1], s[n]) ELSE g[n - 1]
        OBVIOUS
      <3>1. CASE n = m + 1
        <4>1. g[n - 1] = f[m] /\ n # 0
          BY <2>2, <3>1
        <4> QED BY <2>4, <3>1, <4>1
      <3>2. CASE n \in 0 .. m
        <4>1. n # 0 => n - 1 \in 0 .. m
          BY <3>2
        <4> QED BY <2>2, <2>3, <3>2, <4>1
      <3> QED BY <3>1, <3>2
    <2>7. Row(g, s, stay, m + 1)
      BY <2>5, <2>6 DEF Row
    <2> QED BY <2>7
  <1>3. Nat \subseteq S
    <2> HIDE DEF S
    <2> QED BY <1>1, <1>2, SetInduction
  <1> QED BY <1>3

\* retain leaves a sequence of entries that is no longer than it was.
LEMMA RetainShortens ==
    ASSUME NEW E, NEW s \in Seq(E), NEW stay
    PROVE  Retain(s, stay) \in Seq(E) /\ Len(Retain(s, stay)) <= Len(s)
  <1>1. PICK f : Row(f, s, stay, Len(s)) /\ Retain(s, stay) = f[Len(s)]
    <2> DEFINE chosen == CHOOSE f : Row(f, s, stay, Len(s))
    <2>1. Row(chosen, s, stay, Len(s))
      BY RowExists
    <2>2. Retain(s, stay) = chosen[Len(s)]
      BY DEF Retain, Row
    <2> QED BY <2>1, <2>2
  <1> DEFINE S == {n \in Nat : n <= Len(s) => f[n] \in Seq(E) /\ Len(f[n]) <= n}
  <1>3. \A n \in 0 .. Len(s) :
          f[n] = IF n = 0 THEN <<>>
                 ELSE IF s[n] \in stay THEN Append(f[n - 1], s[n]) ELSE f[n - 1]
    BY <1>1 DEF Row
  <1>4. 0 \in S
    <2>1. f[0] = <<>>
      BY <1>3
    <2>2. <<>> \in Seq(E) /\ Len(<<>>) = 0
      OBVIOUS
    <2>3. f[0] \in Seq(E) /\ Len(f[0]) <= 0
      BY <2>1, <2>2
    <2> QED BY <2>3
  <1>5. ASSUME NEW n \in Nat, n \in S PROVE n + 1 \in S
    <2> SUFFICES ASSUME n + 1 <= Len(s)
                 PROVE  f[n + 1] \in Seq(E) /\ Len(f[n + 1]) <= n + 1
      OBVIOUS
    <2>1. f[n] \in Seq(E) /\ Len(f[n]) <= n /\ s[n + 1] \in E
      BY <1>5
    <2>2. f[n + 1] = Append(f[n], s[n + 1]) \/ f[n + 1] = f[n]
      <3>1. n + 1 \in 0 .. Len(s) /\ n + 1 # 0 /\ (n + 1) - 1 = n
        OBVIOUS
      <3> QED BY <1>3, <3>1
    <2>3. Append(f[n], s[n + 1]) \in Seq(E) /\ Len(Append(f[n], s[n + 1])) = Len(f[n]) + 1
      BY <2>1
    <2>4. Len(f[n]) \in Nat
      BY <2>1
    <2>5. CASE f[n + 1] = Append(f[n], s[n + 1])
      BY <2>1, <2>3, <2>4, <2>5
    <2>6. CASE f[n + 1] = f[n]
      BY <2>1, <2>4, <2>6
    <2> QED BY <2>2, <2>5, <2>6
  <1>6. Nat \subseteq S
    <2> HIDE DEF S
    <2> QED BY <1>4, <1>5, SetInduction
  <1> QED BY <1>1, <1>6

----------------------------------------------------------------------------
(* Types, and whose link is where.                                          *)

\* The link of a user who stored q.
UserLink(q) == [query |-> q, left |-> Permanent]

\* The links of users have no expiry.
Sorted(links) ==
    \A u \in UserCodes : links[u] # NoLink => \E q \in Queries : links[u] = UserLink(q)

\* Those of the converter have one: true until one is cut off.
Timed(links) == \A c \in ConverterCodes : links[c] # NoLink => links[c].left # Permanent

\* The inductive invariant of the store: memory and a readable file are sorted,
\* a call that is saving has stored its link and has not completed its save, and
\* what a user was answered last is in the file, if the last save completed, and
\* in memory, unless the process is down or a call for this very user is saving.
StoreInv ==
    /\ Sorted(permanent) /\ (file # Unreadable => Sorted(file))
    /\ up = "no" => permanent = NoLinks
    /\ up = "saving" =>
         target \in StoredCodes /\ permanent[target] # NoLink /\ written = "part"
    /\ \A u \in UserCodes : acked[u] # NoLink =>
         /\ up = "no" \/ (up = "saving" /\ target = u) \/ permanent[u] = UserLink(acked[u])
         /\ written = "all" => file[u] = UserLink(acked[u])

\* A user's link never expires.
LEMMA UserLinkStays ==
    ASSUME NEW links, Sorted(links), NEW u \in UserCodes, links[u] # NoLink
    PROVE  u \in StoredCodes /\ links[u].left = Permanent
  <1>1. PICK q \in Queries : links[u] = UserLink(q)
    BY DEF Sorted
  <1> QED BY <1>1 DEF UserLink, StoredCodes

\* Aging changes no link of a user, forgets none and makes none permanent.
LEMMA OlderKeeps ==
    ASSUME NEW links \in Tables
    PROVE  /\ OlderLinks(links) \in Tables
           /\ \A c \in StoredCodes : OlderLinks(links)[c] = NoLink <=> links[c] = NoLink
           /\ \A c \in StoredCodes : links[c] # NoLink =>
                /\ OlderLinks(links)[c].left = Permanent <=> links[c].left = Permanent
                /\ links[c].left = Permanent => OlderLinks(links)[c] = links[c]
           /\ Sorted(links) => Sorted(OlderLinks(links))
           /\ Timed(links) => Timed(OlderLinks(links))
  <1> USE ShortStoreAssumption, NoLinkAssumption DEF ShortStoreAssumption, NoLinkAssumption
  <1>1. ASSUME NEW c \in StoredCodes, links[c] # NoLink
        PROVE  /\ OlderLinks(links)[c] \in Links /\ OlderLinks(links)[c] # NoLink
               /\ OlderLinks(links)[c].left = Permanent <=> links[c].left = Permanent
               /\ links[c].left = Permanent => OlderLinks(links)[c] = links[c]
    <2>1. links[c] \in Links
      BY <1>1 DEF Tables
    <2>2. OlderLinks(links)[c] = [links[c] EXCEPT !.left = Older(@)]
      BY <1>1 DEF OlderLinks
    <2>3. Older(links[c].left) \in Permanent .. Ttl
      BY <2>1 DEF Links, Older, Permanent, Expired
    <2>4. Older(links[c].left) = Permanent <=> links[c].left = Permanent
      BY <2>1 DEF Links, Older, Permanent, Expired
    <2>5. OlderLinks(links)[c] \in Links
      BY <2>1, <2>2, <2>3 DEF Links
    <2>6. OlderLinks(links)[c].left = Older(links[c].left)
      BY <2>1, <2>2 DEF Links
    <2>7. Older(links[c].left) = links[c].left => OlderLinks(links)[c] = links[c]
      BY <2>1, <2>2 DEF Links
    <2> QED BY <2>4, <2>5, <2>6, <2>7
  <1>2. \A c \in StoredCodes : links[c] = NoLink => OlderLinks(links)[c] = NoLink
    BY DEF OlderLinks
  <1>3. OlderLinks(links) \in Tables
    <2>1. OlderLinks(links) = [c \in StoredCodes |-> OlderLinks(links)[c]]
      BY DEF OlderLinks
    <2>2. \A c \in StoredCodes : OlderLinks(links)[c] \in Links \cup {NoLink}
      BY <1>1, <1>2
    <2> QED BY <2>1, <2>2 DEF Tables
  <1>4. ASSUME Sorted(links) PROVE Sorted(OlderLinks(links))
    <2>1. ASSUME NEW u \in UserCodes, OlderLinks(links)[u] # NoLink
          PROVE  \E q \in Queries : OlderLinks(links)[u] = UserLink(q)
      <3>1. u \in StoredCodes /\ links[u] # NoLink
        BY <1>2, <2>1 DEF StoredCodes
      <3>2. PICK q \in Queries : links[u] = UserLink(q)
        BY <1>4, <3>1 DEF Sorted
      <3> QED BY <1>1, <3>1, <3>2 DEF UserLink
    <2> QED BY <2>1 DEF Sorted
  <1>5. ASSUME Timed(links) PROVE Timed(OlderLinks(links))
    <2>2. ASSUME NEW c \in ConverterCodes, OlderLinks(links)[c] # NoLink
          PROVE  OlderLinks(links)[c].left # Permanent
      <3>1. c \in StoredCodes /\ links[c] # NoLink
        BY <1>2, <2>2 DEF StoredCodes
      <3> QED BY <1>1, <1>5, <3>1 DEF Timed
    <2> QED BY <2>2 DEF Timed
  <1> QED BY <1>1, <1>2, <1>3, <1>4, <1>5

\* What shorten_auto stores for c, with everything it forgets for it.
Stored(c, links) ==
    \E kept \in (IF Unexpired(permanent)[c] # NoLink THEN {Unexpired(permanent)}
                                                   ELSE Evicted(Unexpired(permanent))) :
        links = [kept EXCEPT ![c] = Converted(c)]

\* What is left of a table without some of its links.
LEMMA WithoutSome ==
    ASSUME NEW links \in Tables, NEW gone
    PROVE  /\ Without(links, gone) \in Tables
           /\ \A d \in StoredCodes :
                Without(links, gone)[d] = IF d \in gone THEN NoLink ELSE links[d]
  BY DEF Without, Tables

\* It forgets no link of a user, and the table stays sorted and timed.
LEMMA AutoKeepsUsers ==
    ASSUME permanent \in Tables, Sorted(permanent), NEW c \in ConverterCodes,
           NEW links, Stored(c, links)
    PROVE  /\ links \in Tables /\ Sorted(links)
           /\ \A u \in UserCodes : links[u] = permanent[u]
           /\ links[c] # NoLink
           /\ Timed(permanent) => Timed(links)
  <1> USE ShortStoreAssumption, NoLinkAssumption DEF ShortStoreAssumption, NoLinkAssumption
  <1> DEFINE known == Unexpired(permanent)
  <1>1. /\ known \in Tables
        /\ \A d \in StoredCodes : known[d] = permanent[d] \/ known[d] = NoLink
        /\ \A d \in StoredCodes : permanent[d] # NoLink /\ permanent[d].left # Expired =>
             known[d] = permanent[d]
    BY DEF Unexpired, Tables
  <1>2. \A u \in UserCodes : known[u] = permanent[u]
    <2> SUFFICES ASSUME NEW u \in UserCodes, permanent[u] # NoLink PROVE known[u] = permanent[u]
      BY <1>1 DEF StoredCodes
    <2>1. u \in StoredCodes /\ permanent[u].left # Expired
      BY UserLinkStays DEF Permanent, Expired
    <2> QED BY <1>1, <2>1
  <1>3. PICK kept : /\ links = [kept EXCEPT ![c] = Converted(c)]
                    /\ \/ kept = known
                       \/ \E gone \in SUBSET Expiring(known) : kept = Without(known, gone)
    BY DEF Stored, Evicted
  <1> HIDE DEF known
  <1>4. /\ kept \in Tables
        /\ \A u \in UserCodes : kept[u] = permanent[u]
        /\ \A d \in ConverterCodes : kept[d] \in {permanent[d], NoLink}
    <2>1. CASE kept = known
      BY <1>1, <1>2, <2>1 DEF StoredCodes
    <2>2. CASE \E gone \in SUBSET Expiring(known) : kept = Without(known, gone)
      <3>0. PICK gone \in SUBSET Expiring(known) : kept = Without(known, gone)
        BY <2>2
      <3>1. \A e \in UserCodes : e \notin gone
        <4> SUFFICES ASSUME NEW e \in UserCodes, e \in gone PROVE FALSE
          OBVIOUS
        <4>1. permanent[e] # NoLink /\ permanent[e].left # Permanent
          BY <1>2 DEF Expiring
        <4> QED BY <4>1, UserLinkStays
      <3>2. kept \in Tables
        BY <1>1, <3>0, WithoutSome
      <3>3. \A d \in StoredCodes : kept[d] = IF d \in gone THEN NoLink ELSE known[d]
        BY <1>1, <3>0, WithoutSome
      <3> QED BY <1>1, <1>2, <3>1, <3>2, <3>3 DEF StoredCodes
    <2> QED BY <1>3, <2>1, <2>2
  <1>5. Converted(c) \in Links /\ Converted(c).left = Ttl
    BY DEF Converted, Links, Permanent
  <1>6. links \in Tables /\ \A d \in StoredCodes : links[d] = IF d = c THEN Converted(c) ELSE kept[d]
    BY <1>3, <1>4, <1>5 DEF Tables
  <1>7. \A u \in UserCodes : links[u] = permanent[u]
    BY <1>4, <1>6 DEF StoredCodes
  <1>8. Sorted(links)
    BY <1>7 DEF Sorted
  <1>9. Timed(permanent) => Timed(links)
    BY <1>4, <1>5, <1>6 DEF StoredCodes, Timed, Permanent
  <1> QED BY <1>5, <1>6, <1>7, <1>8, <1>9 DEF StoredCodes

\* A call changes memory and either opens the file, which truncates it, or fails.
LEMMA PersistCases ==
    ASSUME NEW c, NEW links, Persist(c, links)
    PROVE  /\ permanent' = links /\ entries' = entries /\ loads' = loads
           /\ \/ /\ up' = "saving" /\ file' = Unreadable /\ target' = c /\ acked' = acked
                 /\ written' = "part"
              \/ /\ up' = up /\ file' = file /\ target' = target /\ written' = written
                 /\ acked' = IF c \in UserCodes THEN [acked EXCEPT ![c] = NoLink] ELSE acked
  BY DEF Persist

\* A call that stores links which only differ for c, when c is a user's code,
\* keeps the types and the invariant.
LEMMA PersistStep ==
    ASSUME TypeOK, StoreInv, up = "yes", NEW c \in StoredCodes, NEW links \in Tables,
           Sorted(links), links[c] # NoLink,
           \A u \in UserCodes : u # c => links[u] = permanent[u],
           Persist(c, links)
    PROVE  TypeOK' /\ StoreInv'
  <1>1. permanent' = links /\ entries' = entries /\ loads' = loads
    BY PersistCases
  <1>2. CASE /\ up' = "saving" /\ file' = Unreadable /\ target' = c /\ acked' = acked
             /\ written' = "part"
    <2>1. TypeOK'
      BY <1>1, <1>2 DEF TypeOK
    <2>2. ASSUME NEW u \in UserCodes, acked'[u] # NoLink
          PROVE  target' = u \/ permanent'[u] = UserLink(acked'[u])
      BY <1>1, <1>2, <2>2 DEF StoreInv
    <2> QED BY <1>1, <1>2, <2>1, <2>2 DEF StoreInv
  <1>3. CASE /\ up' = up /\ file' = file /\ target' = target /\ written' = written
             /\ acked' = IF c \in UserCodes THEN [acked EXCEPT ![c] = NoLink] ELSE acked
    <2>1. acked' \in [UserCodes -> Queries \cup {NoLink}]
      BY <1>3 DEF TypeOK
    <2>2. TypeOK'
      BY <1>1, <1>3, <2>1 DEF TypeOK
    <2>3. ASSUME NEW u \in UserCodes, acked'[u] # NoLink
          PROVE  u # c /\ acked'[u] = acked[u]
      BY <1>3, <2>3 DEF TypeOK
    <2>4. ASSUME NEW u \in UserCodes, acked'[u] # NoLink
          PROVE  /\ permanent'[u] = UserLink(acked'[u])
                 /\ written' = "all" => file'[u] = UserLink(acked'[u])
      BY <1>1, <1>3, <2>3, <2>4 DEF StoreInv
    <2> QED BY <1>1, <1>3, <2>2, <2>4 DEF StoreInv
  <1> QED BY <1>2, <1>3, PersistCases

\* A part of the links that can be read is a table of links, sorted as they are.
LEMMA CutIsSorted ==
    ASSUME permanent \in Tables, Sorted(permanent), PersistCut
    PROVE  file' \in Tables /\ Sorted(file')
  <1> USE ShortStoreAssumption, NoLinkAssumption DEF ShortStoreAssumption, NoLinkAssumption
  <1>1. PICK last \in {c \in StoredCodes : permanent[c] # NoLink} :
        \E before \in SUBSET (StoredCodes \ {last}), left \in CutTimes(permanent[last].left) :
          file' = [c \in StoredCodes |->
                     CASE c = last -> [permanent[c] EXCEPT !.left = left]
                       [] c \in before -> permanent[c]
                       [] OTHER -> NoLink]
    BY DEF PersistCut
  <1>2. PICK before \in SUBSET (StoredCodes \ {last}), left \in CutTimes(permanent[last].left) :
          file' = [c \in StoredCodes |->
                     CASE c = last -> [permanent[c] EXCEPT !.left = left]
                       [] c \in before -> permanent[c]
                       [] OTHER -> NoLink]
    BY <1>1
  <1>3. last \in StoredCodes /\ permanent[last] # NoLink /\ permanent[last] \in Links
    BY <1>1 DEF Tables
  <1>4. left \in Permanent .. Ttl /\ (permanent[last].left = Permanent => left = Permanent)
    BY <1>3 DEF CutTimes, Links, Permanent, Expired
  <1> DEFINE cut == [permanent[last] EXCEPT !.left = left]
  <1>5. cut \in Links /\ (permanent[last].left = Permanent => cut = permanent[last])
    BY <1>3, <1>4 DEF Links
  <1>6. \A c \in StoredCodes :
          file'[c] = IF c = last THEN cut ELSE IF c \in before THEN permanent[c] ELSE NoLink
    BY <1>2
  <1>7. DOMAIN file' = StoredCodes /\ file' = [c \in StoredCodes |-> file'[c]]
    BY <1>2
  <1> HIDE DEF cut
  <1>8. file' \in Tables
    BY <1>5, <1>6, <1>7 DEF Tables
  <1>9. ASSUME NEW u \in UserCodes, file'[u] # NoLink
        PROVE  \E q \in Queries : file'[u] = UserLink(q)
    <2>1. u \in StoredCodes
      BY DEF StoredCodes
    <2>2. permanent[u] # NoLink
      BY <1>3, <1>6, <1>9, <2>1
    <2>3. file'[u] = permanent[u]
      BY <1>5, <1>6, <1>9, <2>1, <2>2, UserLinkStays
    <2> QED BY <2>2, <2>3 DEF Sorted
  <1> QED BY <1>8, <1>9 DEF Sorted

\* Initially there is no link.
LEMMA InitStore == Init => TypeOK /\ StoreInv
  <1> SUFFICES ASSUME Init PROVE TypeOK /\ StoreInv
    OBVIOUS
  <1>1. NoLinks \in Tables /\ \A c \in StoredCodes : NoLinks[c] = NoLink
    BY DEF NoLinks, Tables
  <1>2. Sorted(NoLinks)
    BY <1>1 DEF Sorted, StoredCodes
  <1>3. TypeOK
    BY <1>1 DEF Init, TypeOK
  <1> QED BY <1>2, <1>3 DEF Init, StoreInv

\* Every step keeps the types and the invariant.
LEMMA NextStore == TypeOK /\ StoreInv /\ [Next]_vars => TypeOK' /\ StoreInv'
  <1> SUFFICES ASSUME TypeOK, StoreInv, [Next]_vars PROVE TypeOK' /\ StoreInv'
    OBVIOUS
  <1> USE ShortStoreAssumption, NoLinkAssumption DEF ShortStoreAssumption, NoLinkAssumption
  <1>0. permanent \in Tables /\ Sorted(permanent) /\ entries \in Seq(Entries)
    BY DEF TypeOK, StoreInv
  <1>a. Pruned \in Seq(Entries)
    BY <1>0, RetainShortens DEF Pruned
  <1>1. ASSUME NEW c \in RequestedCodes, NEW q \in Queries, Shorten(c, q)
        PROVE  TypeOK' /\ StoreInv'
    <2> DEFINE others == Retain(Pruned, {e \in Entries : e.code # c})
               first  == [code |-> c, query |-> q, left |-> Ttl]
    <2>1. others \in Seq(Entries)
      BY <1>a, RetainShortens
    <2>2. first \in Entries
      BY DEF Entries, Expired
    <2> HIDE DEF others, first
    <2>3. Kept(others) \in Seq(Entries)
      BY <2>1 DEF Kept
    <2>4. entries' = <<first>> \o Kept(others)
      BY <1>1 DEF Shorten, others, first
    <2>5. entries' \in Seq(Entries)
      BY <2>2, <2>3, <2>4
    <2> QED BY <1>1, <2>5 DEF Shorten, TypeOK, StoreInv
  <1>2. ASSUME NEW c \in UserCodes, NEW q \in Queries, ShortenHy2(c, q)
        PROVE  TypeOK' /\ StoreInv'
    <2> DEFINE links == [permanent EXCEPT ![c] = UserLink(q)]
    <2>1. UserLink(q) \in Links
      BY DEF UserLink, Links, Permanent
    <2>2. c \in StoredCodes
      BY DEF StoredCodes
    <2>3. /\ links \in Tables
          /\ \A d \in StoredCodes : links[d] = IF d = c THEN UserLink(q) ELSE permanent[d]
      BY <1>0, <2>1, <2>2 DEF Tables
    <2>4. up = "yes" /\ Persist(c, links)
      BY <1>2 DEF ShortenHy2, UserLink
    <2> HIDE DEF links
    <2>5. Sorted(links)
      BY <1>0, <2>3 DEF Sorted, StoredCodes
    <2> QED BY <2>1, <2>2, <2>3, <2>4, <2>5, PersistStep DEF StoredCodes
  <1>3. ASSUME NEW c \in ConverterCodes, ShortenAuto(c) PROVE TypeOK' /\ StoreInv'
    <2>1. PICK links : up = "yes" /\ Stored(c, links) /\ Persist(c, links)
      BY <1>3 DEF ShortenAuto, Stored
    <2>2. /\ links \in Tables /\ Sorted(links) /\ links[c] # NoLink
          /\ \A u \in UserCodes : links[u] = permanent[u]
      BY <1>0, <2>1, AutoKeepsUsers
    <2>3. c \in StoredCodes
      BY DEF StoredCodes
    <2> QED BY <2>1, <2>2, <2>3, PersistStep
  <1>4. ASSUME Lookup PROVE TypeOK' /\ StoreInv'
    BY <1>4, <1>a DEF Lookup, TypeOK, StoreInv
  <1>5. ASSUME PersistDone PROVE TypeOK' /\ StoreInv'
    <2>1. target \in StoredCodes /\ permanent[target] # NoLink
      BY <1>5 DEF PersistDone, StoreInv
    <2>2. ASSUME target \in UserCodes
          PROVE  /\ permanent[target].query \in Queries
                 /\ permanent[target] = UserLink(permanent[target].query)
      <3>1. PICK q \in Queries : permanent[target] = UserLink(q)
        BY <1>0, <2>1, <2>2 DEF Sorted
      <3> QED BY <3>1 DEF UserLink
    <2>3. acked' \in [UserCodes -> Queries \cup {NoLink}]
      BY <1>5, <2>2 DEF PersistDone, TypeOK
    <2>4. TypeOK'
      BY <1>5, <2>3 DEF PersistDone, TypeOK
    <2>5. ASSUME NEW u \in UserCodes, acked'[u] # NoLink
          PROVE  permanent[u] = UserLink(acked'[u])
      <3>1. CASE u = target
        BY <1>5, <2>2, <3>1 DEF PersistDone, TypeOK
      <3>2. CASE u # target
        BY <1>5, <2>5, <3>2 DEF PersistDone, TypeOK, StoreInv
      <3> QED BY <3>1, <3>2
    <2> QED BY <1>0, <1>5, <2>4, <2>5 DEF PersistDone, StoreInv
  <1>6. ASSUME PersistFails \/ Crash
        PROVE  \A u \in UserCodes : acked'[u] # NoLink => acked'[u] = acked[u] /\ u # target
    BY <1>6 DEF PersistFails, Crash, TypeOK
  <1>7. ASSUME PersistFails PROVE TypeOK' /\ StoreInv'
    <2>1. TypeOK'
      BY <1>7 DEF PersistFails, TypeOK
    <2>2. ASSUME NEW u \in UserCodes, acked'[u] # NoLink
          PROVE  /\ permanent'[u] = UserLink(acked'[u])
                 /\ written' = "all" => file'[u] = UserLink(acked'[u])
      BY <1>6, <1>7, <2>2 DEF PersistFails, StoreInv
    <2> QED BY <1>7, <2>1, <2>2 DEF PersistFails, StoreInv
  <1>8. ASSUME Crash PROVE TypeOK' /\ StoreInv'
    <2>1. NoLinks \in Tables /\ Sorted(NoLinks)
      BY DEF NoLinks, Tables, Sorted, StoredCodes
    <2>2. TypeOK'
      BY <1>8, <2>1 DEF Crash, TypeOK
    <2>3. ASSUME NEW u \in UserCodes, acked'[u] # NoLink
          PROVE  written' = "all" => file'[u] = UserLink(acked'[u])
      BY <1>6, <1>8, <2>3 DEF Crash, StoreInv
    <2> QED BY <1>8, <2>1, <2>2, <2>3 DEF Crash, StoreInv
  <1>9. ASSUME Start PROVE TypeOK' /\ StoreInv'
    <2>1. CASE written = "all" /\ UNCHANGED <<acked, loads>>
      BY <1>9, <2>1 DEF Start, TypeOK, StoreInv
    <2>2. CASE written = "part" /\ acked' = [u \in UserCodes |-> NoLink] /\ loads' = "part"
      BY <1>9, <2>2 DEF Start, TypeOK, StoreInv
    <2> QED BY <1>9, <2>1, <2>2 DEF Start
  <1>10. ASSUME Tick PROVE TypeOK' /\ StoreInv'
    <2>1. entries' \in Seq(Entries)
      <3>1. \A i \in 1 .. Len(entries) : [entries[i] EXCEPT !.left = Older(@)] \in Entries
        <4> SUFFICES ASSUME NEW e \in Entries PROVE [e EXCEPT !.left = Older(@)] \in Entries
          BY <1>0
        <4>1. e.left \in Expired .. Ttl
          BY DEF Entries
        <4>2. Older(e.left) \in Expired .. Ttl
          BY <4>1 DEF Older, Expired
        <4> QED BY <4>2 DEF Entries
      <3>2. entries' = [i \in 1 .. Len(entries) |-> [entries[i] EXCEPT !.left = Older(@)]]
        BY <1>0, <1>10 DEF Tick
      <3> QED BY <1>0, <3>1, <3>2
    <2>2. /\ permanent' = OlderLinks(permanent)
          /\ file' # Unreadable => file # Unreadable /\ file' = OlderLinks(file)
          /\ file' = file \/ (file # Unreadable /\ file' = OlderLinks(file))
          /\ UNCHANGED <<up, target, acked, written, loads>> /\ up # "saving"
      BY <1>10 DEF Tick
    <2>3. permanent' \in Tables /\ Sorted(permanent)'
      BY <1>0, <2>2, OlderKeeps DEF Sorted
    <2>4. file # Unreadable => file \in Tables /\ Sorted(file)
      BY DEF TypeOK, StoreInv
    <2>5. file' \in Tables \cup {Unreadable} /\ (file' # Unreadable => Sorted(file)')
      BY <2>2, <2>4, OlderKeeps DEF Sorted
    <2>6. TypeOK'
      BY <2>1, <2>2, <2>3, <2>5 DEF TypeOK
    <2>7. up = "no" => permanent' = NoLinks
      BY <2>2 DEF StoreInv, OlderLinks, NoLinks
    <2>8. ASSUME NEW links \in Tables, Sorted(links), NEW u \in UserCodes,
                 NEW q, links[u] = UserLink(q)
          PROVE  OlderLinks(links)[u] = UserLink(q)
      <3>1. u \in StoredCodes /\ links[u].left = Permanent
        BY <2>8 DEF UserLink, StoredCodes
      <3>2. links[u] # NoLink \/ OlderLinks(links)[u] = NoLink
        BY <3>1, OlderKeeps
      <3> QED BY <2>8, <3>1, <3>2, OlderKeeps
    <2>9. ASSUME NEW u \in UserCodes, acked'[u] # NoLink
          PROVE  /\ up' = "no" \/ permanent'[u] = UserLink(acked'[u])
                 /\ written' = "all" => file'[u] = UserLink(acked'[u])
      <3>1. up' = "no" \/ permanent'[u] = UserLink(acked'[u])
        BY <1>0, <2>2, <2>8, <2>9 DEF StoreInv
      <3>2. ASSUME written' = "all" PROVE file'[u] = UserLink(acked'[u])
        <4>1. file[u] = UserLink(acked'[u])
          BY <2>2, <2>9, <3>2 DEF StoreInv
        <4>2. CASE file # Unreadable /\ file' = OlderLinks(file)
          BY <2>4, <2>8, <4>1, <4>2
        <4> QED BY <2>2, <4>1, <4>2
      <3> QED BY <3>1, <3>2
    <2> QED BY <2>2, <2>3, <2>5, <2>6, <2>7, <2>9 DEF StoreInv
  <1>11. ASSUME PersistCut PROVE TypeOK' /\ StoreInv'
    <2>1. file' \in Tables /\ Sorted(file')
      BY <1>0, <1>11, CutIsSorted
    <2>2. written = "part" /\ file = Unreadable
      BY <1>11 DEF PersistCut, StoreInv
    <2>3. UNCHANGED <<up, entries, permanent, target, acked, written, loads>>
      BY <1>11 DEF PersistCut
    <2>4. TypeOK'
      BY <2>1, <2>3 DEF TypeOK
    <2> QED BY <2>1, <2>2, <2>3, <2>4 DEF StoreInv, Sorted
  <1>12. CASE UNCHANGED vars
    BY <1>12 DEF vars, TypeOK, StoreInv, Sorted
  <1> QED BY <1>1, <1>2, <1>3, <1>4, <1>5, <1>7, <1>8, <1>9, <1>10, <1>11, <1>12 DEF Next

\* In every reachable state the store is well typed and its invariant holds.
THEOREM StoreConsistent == Spec => [](TypeOK /\ StoreInv)
  BY InitStore, NextStore, PTL DEF Spec

\* While the service runs, a user's link that was answered leads to the query
\* that was stored for it last, across failed saves, evictions, requests for the
\* same code and restarts from a complete save; a restart from a part of a save,
\* which loses links, starts the account anew.
THEOREM UsersAreServed == Spec => []UserLinksServed
  <1>1. TypeOK /\ StoreInv => UserLinksServed
    <2> SUFFICES ASSUME TypeOK, StoreInv, up = "yes", NEW u \in UserCodes, acked[u] # NoLink
                 PROVE  Found(u) = acked[u]
      BY DEF UserLinksServed
    <2>1. permanent[u] = UserLink(acked[u]) /\ acked[u] \in Queries
      BY DEF StoreInv, TypeOK
    <2>2. u \in StoredCodes /\ UserLink(acked[u]) \in Links
      BY <2>1, ShortStoreAssumption DEF ShortStoreAssumption, StoredCodes, UserLink, Links, Permanent
    <2>3. permanent[u] # NoLink
      BY <2>1, <2>2, NoLinkAssumption DEF NoLinkAssumption
    <2>4. permanent[u].left # Expired /\ permanent[u].query = acked[u]
      BY <2>1 DEF UserLink, Permanent, Expired
    <2> QED BY <2>2, <2>3, <2>4 DEF Found
  <1> QED BY <1>1, StoreConsistent, PTL

----------------------------------------------------------------------------
(* Capacity.                                                                *)

\* The links that expire are the converter's, so there are finitely many.
LEMMA ExpiringFinite ==
    ASSUME NEW links, Sorted(links)
    PROVE  /\ Expiring(links) \subseteq ConverterCodes
           /\ IsFiniteSet(Expiring(links)) /\ Cardinality(Expiring(links)) \in Nat
  <1>1. Expiring(links) \subseteq ConverterCodes
    BY UserLinkStays DEF Expiring, StoredCodes
  <1>2. IsFiniteSet(Expiring(links))
    BY <1>1, ShortStoreAssumption, FS_Subset DEF ShortStoreAssumption
  <1> QED BY <1>1, <1>2, FS_CardinalityType

\* One more link is at most one more.
LEMMA OneMore ==
    ASSUME NEW K, IsFiniteSet(K), NEW c
    PROVE  /\ IsFiniteSet(K \cup {c}) /\ Cardinality(K \cup {c}) \in Nat
           /\ Cardinality(K) \in Nat /\ Cardinality(K \cup {c}) <= Cardinality(K) + 1
  <1>1. Cardinality(K) \in Nat
    BY FS_CardinalityType
  <1>2. /\ IsFiniteSet(K \cup {c})
        /\ Cardinality(K \cup {c}) = IF c \in K THEN Cardinality(K) ELSE Cardinality(K) + 1
    BY FS_AddElement
  <1> QED BY <1>1, <1>2

\* The links in memory, and those a new process would load, keep to the limit.
\* The count of those that expire is right while the converter's links are timed.
CapacityInv ==
    /\ Len(entries) <= Limit
    /\ loads = "all" =>
         /\ Timed(permanent) /\ Cardinality(Expiring(permanent)) <= Limit
         /\ written = "all" => Timed(file) /\ Cardinality(Expiring(file)) <= Limit

\* shorten_auto makes room before it stores a link it did not have.
LEMMA AutoMakesRoom ==
    ASSUME permanent \in Tables, Sorted(permanent), Timed(permanent), NEW c \in ConverterCodes,
           Cardinality(Expiring(permanent)) <= Limit, NEW links, Stored(c, links)
    PROVE  Cardinality(Expiring(links)) <= Limit
  <1> USE ShortStoreAssumption, NoLinkAssumption DEF ShortStoreAssumption, NoLinkAssumption
  <1> DEFINE known == Unexpired(permanent)
  <1>1. /\ known \in Tables
        /\ \A d \in StoredCodes : known[d] = permanent[d] \/ known[d] = NoLink
    BY DEF Unexpired, Tables
  <1>2. /\ IsFiniteSet(Expiring(permanent)) /\ Cardinality(Expiring(permanent)) \in Nat
    BY ExpiringFinite
  <1>3. Expiring(known) \subseteq Expiring(permanent)
    BY <1>1 DEF Expiring
  <1>4. /\ IsFiniteSet(Expiring(known)) /\ Cardinality(Expiring(known)) \in Nat
        /\ Cardinality(Expiring(known)) <= Limit
    BY <1>2, <1>3, FS_Subset, FS_CardinalityType
  <1>5. c \in StoredCodes
    BY DEF StoredCodes
  <1>6. Converted(c).left # Permanent /\ Converted(c) \in Links
    BY DEF Converted, Permanent, Links
  <1>7. ASSUME NEW kept \in Tables, links = [kept EXCEPT ![c] = Converted(c)]
        PROVE  Expiring(links) = Expiring(kept) \cup {c}
    <2>1. \A d \in StoredCodes : links[d] = IF d = c THEN Converted(c) ELSE kept[d]
      BY <1>5, <1>7 DEF Tables
    <2> QED BY <1>5, <1>6, <2>1 DEF Expiring
  <1>s. /\ known[c] # NoLink => links = [known EXCEPT ![c] = Converted(c)]
        /\ known[c] = NoLink => \E kept \in Evicted(known) : links = [kept EXCEPT ![c] = Converted(c)]
    BY DEF Stored
  <1>t. \A d \in ConverterCodes : known[d] # NoLink => known[d].left # Permanent
    BY <1>1 DEF Timed, StoredCodes
  <1> HIDE DEF known
  <1>8. CASE known[c] # NoLink
    <2>1. links = [known EXCEPT ![c] = Converted(c)]
      BY <1>8, <1>s
    <2>2. c \in Expiring(known)
      BY <1>5, <1>8, <1>t DEF Expiring
    <2>3. Expiring(links) = Expiring(known)
      BY <1>1, <1>7, <2>1, <2>2
    <2> QED BY <1>4, <2>3
  <1>9. CASE known[c] = NoLink
    <2>1. PICK kept \in Evicted(known) : links = [kept EXCEPT ![c] = Converted(c)]
      BY <1>9, <1>s
    <2>2. PICK gone \in SUBSET Expiring(known) :
            /\ kept = Without(known, gone)
            /\ Cardinality(Expiring(known) \ gone) = Room(Cardinality(Expiring(known)))
      BY <2>1 DEF Evicted
    <2>3. kept \in Tables /\ \A d \in StoredCodes : kept[d] = IF d \in gone THEN NoLink ELSE known[d]
      BY <1>1, <2>2, WithoutSome
    <2>4. Expiring(kept) = Expiring(known) \ gone
      BY <2>3 DEF Expiring
    <2>5. IsFiniteSet(Expiring(kept))
      BY <1>4, <2>4, FS_Subset
    <2>6. Cardinality(Expiring(kept)) <= Limit - 1
      BY <1>4, <2>2, <2>4 DEF Room
    <2>7. Expiring(links) = Expiring(kept) \cup {c}
      BY <1>7, <2>1, <2>3
    <2>8. /\ Cardinality(Expiring(kept) \cup {c}) \in Nat /\ Cardinality(Expiring(kept)) \in Nat
          /\ Cardinality(Expiring(kept) \cup {c}) <= Cardinality(Expiring(kept)) + 1
      BY <2>5, OneMore
    <2> QED BY <2>6, <2>7, <2>8
  <1> QED BY <1>8, <1>9

\* Every step keeps to the limit.
LEMMA NextCapacity ==
    TypeOK /\ StoreInv /\ CapacityInv /\ [Next]_vars => CapacityInv'
  <1> SUFFICES ASSUME TypeOK, StoreInv, CapacityInv, [Next]_vars PROVE CapacityInv'
    OBVIOUS
  <1> USE ShortStoreAssumption, NoLinkAssumption DEF ShortStoreAssumption, NoLinkAssumption
  <1>0. permanent \in Tables /\ Sorted(permanent) /\ entries \in Seq(Entries)
    BY DEF TypeOK, StoreInv
  <1>a. Pruned \in Seq(Entries) /\ Len(Pruned) <= Len(entries)
    BY <1>0, RetainShortens DEF Pruned
  <1>1. ASSUME NEW c \in RequestedCodes, NEW q \in Queries, Shorten(c, q) PROVE CapacityInv'
    <2> DEFINE others == Retain(Pruned, {e \in Entries : e.code # c})
               first  == [code |-> c, query |-> q, left |-> Ttl]
    <2>1. others \in Seq(Entries)
      BY <1>a, RetainShortens
    <2>2. first \in Entries
      BY DEF Entries, Expired
    <2>3. entries' = <<first>> \o Kept(others)
      BY <1>1 DEF Shorten
    <2> HIDE DEF others, first
    <2>4. Kept(others) \in Seq(Entries) /\ Len(Kept(others)) <= Limit - 1
      BY <2>1 DEF Kept
    <2>5. Len(entries') = 1 + Len(Kept(others))
      BY <2>2, <2>3, <2>4
    <2>6. Len(entries') <= Limit
      BY <2>4, <2>5
    <2> QED BY <1>1, <2>6 DEF Shorten, CapacityInv, Expiring, Timed
  <1>2. ASSUME NEW c, NEW links, Persist(c, links),
               loads = "all" => Timed(links) /\ Cardinality(Expiring(links)) <= Limit
        PROVE  CapacityInv'
    <2>1. /\ permanent' = links /\ entries' = entries /\ loads' = loads
          /\ written' = "all" => written = "all" /\ file' = file
      BY <1>2, PersistCases
    <2>2. Expiring(permanent)' = Expiring(links) /\ Timed(permanent)' = Timed(links)
      BY <2>1 DEF Expiring, Timed
    <2>3. written' = "all" =>
            written = "all" /\ Expiring(file)' = Expiring(file) /\ (Timed(file) => Timed(file)')
      BY <2>1 DEF Expiring, Timed
    <2> QED BY <1>2, <2>1, <2>2, <2>3 DEF CapacityInv
  <1>3. ASSUME NEW c \in UserCodes, NEW q \in Queries, ShortenHy2(c, q) PROVE CapacityInv'
    <2> DEFINE links == [permanent EXCEPT ![c] = UserLink(q)]
    <2>1. Persist(c, links)
      BY <1>3 DEF ShortenHy2, UserLink
    <2>2. c \in StoredCodes /\ c \notin ConverterCodes /\ UserLink(q).left = Permanent
      BY DEF StoredCodes, UserLink
    <2>3. \A d \in StoredCodes : links[d] = IF d = c THEN UserLink(q) ELSE permanent[d]
      BY <1>0, <2>2 DEF Tables
    <2>4. c \notin Expiring(permanent)
      BY <1>0, UserLinkStays DEF Expiring
    <2> HIDE DEF links
    <2>5. Expiring(links) = Expiring(permanent)
      BY <2>2, <2>3, <2>4 DEF Expiring
    <2>6. Timed(permanent) => Timed(links)
      BY <2>2, <2>3 DEF Timed, StoredCodes
    <2> QED BY <1>2, <2>1, <2>5, <2>6 DEF CapacityInv
  <1>4. ASSUME NEW c \in ConverterCodes, ShortenAuto(c) PROVE CapacityInv'
    <2>1. PICK links : Stored(c, links) /\ Persist(c, links)
      BY <1>4 DEF ShortenAuto, Stored
    <2>2. loads = "all" => Cardinality(Expiring(links)) <= Limit
      BY <1>0, <2>1, AutoMakesRoom DEF CapacityInv
    <2>3. loads = "all" => Timed(links)
      BY <1>0, <2>1, AutoKeepsUsers DEF CapacityInv
    <2> QED BY <1>2, <2>1, <2>2, <2>3
  <1>5. ASSUME Lookup PROVE CapacityInv'
    <2>1. Len(entries') <= Limit
      BY <1>0, <1>5, <1>a DEF Lookup, CapacityInv
    <2> QED BY <1>5, <2>1 DEF Lookup, CapacityInv, Expiring, Timed
  <1>6. ASSUME PersistDone PROVE CapacityInv'
    BY <1>6 DEF PersistDone, CapacityInv, Expiring, Timed
  <1>p. ASSUME PersistFails PROVE CapacityInv'
    BY <1>p DEF PersistFails, CapacityInv, Expiring, Timed
  <1>s. ASSUME Start PROVE CapacityInv'
    <2>1. CASE written = "all" /\ UNCHANGED <<acked, loads>>
      BY <1>s, <2>1 DEF Start, CapacityInv, Expiring, Timed
    <2>2. CASE written = "part" /\ acked' = [u \in UserCodes |-> NoLink] /\ loads' = "part"
      BY <1>s, <2>2 DEF Start, CapacityInv
    <2> QED BY <1>s, <2>1, <2>2 DEF Start
  <1>c. ASSUME PersistCut PROVE CapacityInv'
    <2>1. written' = "part"
      BY <1>c DEF PersistCut, StoreInv
    <2> QED BY <1>c, <2>1 DEF PersistCut, CapacityInv, Expiring, Timed
  <1>7. ASSUME Crash PROVE CapacityInv'
    <2>1. Expiring(NoLinks) = {} /\ Timed(NoLinks)
      BY DEF Expiring, NoLinks, Timed, StoredCodes
    <2>2. Cardinality(Expiring(NoLinks)) <= Limit
      BY <2>1, FS_EmptySet
    <2>3. Expiring(permanent)' = Expiring(NoLinks) /\ Timed(permanent)'
      BY <1>7, <2>1 DEF Crash, Expiring, Timed
    <2>4. Len(entries') <= Limit
      BY <1>7 DEF Crash
    <2>5. /\ written' = written /\ loads' = loads
          /\ Expiring(file)' = Expiring(file) /\ (Timed(file) => Timed(file)')
      BY <1>7 DEF Crash, Expiring, Timed
    <2> QED BY <2>2, <2>3, <2>4, <2>5 DEF CapacityInv
  <1>8. ASSUME Tick PROVE CapacityInv'
    <2>1. Len(entries') = Len(entries)
      <3>1. entries' = [i \in 1 .. Len(entries) |-> [entries[i] EXCEPT !.left = Older(@)]]
        BY <1>0, <1>8 DEF Tick
      <3>2. Len(entries) \in Nat
        BY <1>0
      <3> QED BY <3>1, <3>2
    <2>2. ASSUME NEW links \in Tables
          PROVE  /\ Expiring(OlderLinks(links)) = Expiring(links)
                 /\ Timed(links) => Timed(OlderLinks(links))
      BY OlderKeeps DEF Expiring
    <2>3. /\ permanent' = OlderLinks(permanent) /\ written' = written /\ loads' = loads
          /\ file' = file \/ (file' = OlderLinks(file) /\ file \in Tables)
      BY <1>8 DEF Tick, TypeOK
    <2>4. Expiring(permanent)' = Expiring(permanent) /\ (Timed(permanent) => Timed(permanent)')
      BY <1>0, <2>2, <2>3 DEF Expiring, Timed
    <2>5. Expiring(file)' = Expiring(file) /\ (Timed(file) => Timed(file)')
      BY <2>2, <2>3 DEF Expiring, Timed
    <2> QED BY <2>1, <2>3, <2>4, <2>5 DEF CapacityInv
  <1>9. CASE UNCHANGED vars
    BY <1>9 DEF vars, CapacityInv, Expiring, Timed
  <1> QED BY <1>1, <1>3, <1>4, <1>5, <1>6, <1>p, <1>s, <1>c, <1>7, <1>8, <1>9 DEF Next

\* Neither the links in memory nor the saved converter links outgrow the
\* configured capacity, as long as no process started from a part of a save.
THEOREM StoreIsBounded == Spec => []Bounded
  <1>1. Init => CapacityInv
    <2> SUFFICES ASSUME Init PROVE CapacityInv
      OBVIOUS
    <2>1. Expiring(NoLinks) = {} /\ Timed(NoLinks)
      BY DEF Expiring, NoLinks, Timed, StoredCodes
    <2>2. Cardinality(Expiring(NoLinks)) <= Limit
      BY <2>1, FS_EmptySet, ShortStoreAssumption DEF ShortStoreAssumption
    <2> QED BY <2>1, <2>2, ShortStoreAssumption DEF ShortStoreAssumption, Init, CapacityInv
  <1>2. CapacityInv => Bounded
    BY DEF CapacityInv, Bounded
  <1> QED BY <1>1, <1>2, NextCapacity, StoreConsistent, PTL DEF Spec

----------------------------------------------------------------------------
(* Eviction.                                                                *)

\* What FresherKept asks of a step.
FresherStep ==
    up' # "no" =>
      \A c \in Expiring(permanent) :
          permanent[c].left > Expired /\ permanent'[c] = NoLink =>
              \A d \in Expiring(permanent') : permanent'[d].left >= permanent[c].left

\* A link shorten_auto drops before its time expires no later than what stays:
\* those evicted expire first, and the new link has the full time.
LEMMA AutoEvictsOldest ==
    ASSUME permanent \in Tables, NEW a \in ConverterCodes, NEW links, Stored(a, links),
           NEW c \in Expiring(permanent), permanent[c].left > Expired, links[c] = NoLink,
           NEW d \in Expiring(links)
    PROVE  links[d].left >= permanent[c].left
  <1> USE ShortStoreAssumption, NoLinkAssumption DEF ShortStoreAssumption, NoLinkAssumption
  <1> DEFINE known == Unexpired(permanent)
  <1>1. known \in Tables
    BY DEF Unexpired, Tables
  <1>2. c \in StoredCodes /\ d \in StoredCodes /\ a \in StoredCodes
    BY DEF Expiring, StoredCodes
  <1>3. permanent[c] # NoLink /\ permanent[c] \in Links /\ permanent[c].left # Expired
    BY <1>2 DEF Expiring, Tables, Expired, Links
  <1>4. known[c] = permanent[c] /\ c \in Expiring(known)
    BY <1>2, <1>3 DEF Unexpired, Expiring
  <1>5. PICK kept : /\ links = [kept EXCEPT ![a] = Converted(a)]
                    /\ \/ kept = known
                       \/ \E gone \in SUBSET Expiring(known) :
                            /\ \A e \in gone, o \in Expiring(known) \ gone :
                                 known[e].left <= known[o].left
                            /\ kept = Without(known, gone)
    BY DEF Stored, Evicted
  <1> HIDE DEF known
  <1>6. Converted(a) \in Links /\ Converted(a).left = Ttl
    BY DEF Converted, Links, Permanent
  <1>7. kept \in Tables
    BY <1>1, <1>5, WithoutSome
  <1>8. \A o \in StoredCodes : links[o] = IF o = a THEN Converted(a) ELSE kept[o]
    BY <1>5, <1>7 DEF Tables
  <1>9. c # a /\ kept[c] = NoLink
    BY <1>2, <1>6, <1>8
  <1>10. kept # known
    BY <1>3, <1>4, <1>9
  <1>11. PICK gone \in SUBSET Expiring(known) :
            /\ \A e \in gone, o \in Expiring(known) \ gone : known[e].left <= known[o].left
            /\ kept = Without(known, gone)
    BY <1>5, <1>10
  <1>12. \A o \in StoredCodes : kept[o] = IF o \in gone THEN NoLink ELSE known[o]
    BY <1>1, <1>11, WithoutSome
  <1>13. c \in gone
    BY <1>2, <1>3, <1>4, <1>9, <1>12
  <1>14. CASE d = a
    <2>1. permanent[c].left \in Permanent .. Ttl
      BY <1>3 DEF Links
    <2> QED BY <1>2, <1>6, <1>8, <1>14, <2>1 DEF Permanent
  <1>15. CASE d # a
    <2>1. links[d] = kept[d] /\ links[d] # NoLink /\ links[d].left # Permanent
      BY <1>2, <1>8, <1>15 DEF Expiring
    <2>2. links[d] = known[d] /\ d \in Expiring(known) \ gone
      BY <1>2, <1>12, <2>1 DEF Expiring
    <2>3. known[d] \in Links /\ known[c] \in Links
      BY <1>1, <1>2, <1>3, <1>4, <2>1, <2>2 DEF Tables
    <2>4. known[d].left \in Int /\ known[c].left \in Int
      BY <2>3 DEF Links, Permanent
    <2> QED BY <1>4, <1>11, <1>13, <2>2, <2>4
  <1> QED BY <1>14, <1>15

\* No step of a running service drops a fresher converter link and keeps a staler.
LEMMA NextFresher == TypeOK /\ StoreInv /\ Next => FresherStep
  <1> SUFFICES ASSUME TypeOK, StoreInv, Next, up' # "no",
                      NEW c \in Expiring(permanent), permanent[c].left > Expired,
                      permanent'[c] = NoLink, NEW d \in Expiring(permanent')
               PROVE  permanent'[d].left >= permanent[c].left
    BY DEF FresherStep
  <1> USE ShortStoreAssumption, NoLinkAssumption DEF ShortStoreAssumption, NoLinkAssumption
  <1>0. /\ permanent \in Tables /\ Sorted(permanent)
        /\ c \in StoredCodes /\ permanent[c] # NoLink
    BY DEF TypeOK, StoreInv, Expiring
  <1>1. permanent' # permanent
    BY <1>0
  <1>2. ASSUME NEW u \in UserCodes, NEW q \in Queries, ShortenHy2(u, q) PROVE FALSE
    <2>1. permanent' = [permanent EXCEPT ![u] = UserLink(q)]
      BY <1>2, PersistCases DEF ShortenHy2, UserLink
    <2>2. UserLink(q) \in Links
      BY DEF UserLink, Links, Permanent
    <2>3. permanent'[c] = UserLink(q) \/ permanent'[c] = permanent[c]
      BY <1>0, <2>1 DEF Tables
    <2> QED BY <1>0, <2>2, <2>3
  <1>3. ASSUME NEW a \in ConverterCodes, ShortenAuto(a)
        PROVE  permanent'[d].left >= permanent[c].left
    <2>1. PICK links : Stored(a, links) /\ Persist(a, links)
      BY <1>3 DEF ShortenAuto, Stored
    <2>2. permanent' = links
      BY <2>1, PersistCases
    <2>3. links[c] = NoLink /\ d \in Expiring(links)
      BY <2>2
    <2>4. links[d].left >= permanent[c].left
      BY <1>0, <2>1, <2>3, AutoEvictsOldest
    <2> QED BY <2>2, <2>4
  <1>4. ~Tick
    <2> SUFFICES ASSUME Tick PROVE FALSE
      OBVIOUS
    <2>1. permanent' = OlderLinks(permanent)
      BY DEF Tick
    <2> QED BY <1>0, <2>1, OlderKeeps
  <1>5. ~Start
    BY <1>0 DEF Start, StoreInv, NoLinks
  <1>6. ~Crash
    BY DEF Crash
  <1>7. /\ ~Lookup /\ ~PersistCut /\ ~PersistDone /\ ~PersistFails
        /\ \A x \in RequestedCodes, q \in Queries : ~Shorten(x, q)
    BY <1>1 DEF Lookup, PersistCut, PersistDone, PersistFails, Shorten
  <1> QED BY <1>2, <1>3, <1>4, <1>5, <1>6, <1>7 DEF Next

\* A converter link that is lost before its time, while the service runs, is one
\* that would have expired no later than every one that stays.
THEOREM EvictsTheOldest == Spec => FresherKept
  <1>1. TypeOK /\ StoreInv /\ [Next]_vars => [FresherStep]_vars
    BY NextFresher
  <1>2. [][FresherStep]_vars => FresherKept
    BY PTL DEF FresherKept, FresherStep
  <1> QED BY <1>1, <1>2, StoreConsistent, PTL DEF Spec
=============================================================================
