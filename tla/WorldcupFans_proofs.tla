------------------------- MODULE WorldcupFans_proofs -------------------------
(***************************************************************************)
(* Proofs about WorldcupFans for any fans and any bounds: type correctness *)
(* with the references between the Maps, the worth of an id that was told, *)
(* that no album is ever full, and that the reports agree.                 *)
(*                                                                         *)
(* ReceiptsStayTrue needs to know that every id in use, and every id told  *)
(* by the running process, is at most its counter (IdsAreCounted): then a  *)
(* new id is under no earlier entry and in no earlier receipt.  For the    *)
(* reports, the plates of each diet are numbered off against the passports *)
(* that ask for them (PlatesAreExports), and the passports are those up to *)
(* the counter (PassportsAreCounted).                                      *)
(***************************************************************************)
EXTENDS WorldcupFans, FiniteSetTheorems, FunctionTheorems, TLAPS

IdsAreCounted ==
  /\ \A r \in receipts : r.boot <= boot /\ (r.boot = boot => r.id <= seq[r.kind])
  /\ \A r \in receipts : r.kind = "passport" => r.about \in Fans

StartersOnly ==
  \A id \in Ids : stickerAlbums[id] # None => stickerAlbums[id].stickers <= 50 * StickersPerPack

IInv == TypeOK /\ IdsAreCounted /\ ReceiptsStayTrue /\ StartersOnly

-----------------------------------------------------------------------------
(* An id that is issued is new, and within the bound.                      *)
LEMMA IssueFacts ==
  ASSUME TypeOK, NEW kind \in Kinds, NEW entry, Issue(kind, entry)
  PROVE  /\ NewId(kind) \in Ids
         /\ NewId(kind) = seq[kind] + 1
         /\ seq' = [seq EXCEPT ![kind] = NewId(kind)]
         /\ seq' \in [Kinds -> 0..MaxIds]
         /\ receipts' = receipts \cup {[kind |-> kind, id |-> NewId(kind), about |-> entry, boot |-> boot]}
         /\ boot' = boot
<1>1. seq[kind] \in 0..MaxIds /\ seq[kind] < MaxIds
  BY DEF TypeOK, Issue
<1>2. NewId(kind) \in Ids /\ NewId(kind) = seq[kind] + 1 /\ NewId(kind) \in 0..MaxIds
  BY <1>1, BoundsAssumption DEF NewId, Ids
<1> QED BY <1>2 DEF TypeOK, Issue

LEMMA TypeStep == TypeOK /\ [Next]_vars => TypeOK'
<1> SUFFICES ASSUME TypeOK, [Next]_vars PROVE TypeOK'
  OBVIOUS
<1> USE BoundsAssumption DEF TypeOK, Registered, Kinds
<1>1. ASSUME NEW fan \in Fans, RegisterPassport(fan) PROVE TypeOK'
  <2>1. "passport" \in Kinds /\ Issue("passport", fan)
    BY <1>1 DEF RegisterPassport
  <2>2. [fan |-> fan, points |-> 0] \in Passports /\ [fan |-> fan, points |-> 0] # None
    BY NoneAssumption DEF Passports
  <2>3. fanPassports' = [fanPassports EXCEPT ![NewId("passport")] = [fan |-> fan, points |-> 0]]
    BY <1>1 DEF RegisterPassport
  <2>4. fanPassports' \in [Ids -> Passports \cup {None}] /\ \A id \in Ids : fanPassports[id] # None => fanPassports'[id] # None
    BY <2>1, <2>2, <2>3, IssueFacts
  <2>5. stickerAlbums' \in [Ids -> Albums' \cup {None}] /\ watchPartyRsvps' \in [Ids -> Rsvps' \cup {None}]
    BY <1>1, <2>4 DEF RegisterPassport, Albums, Rsvps
  <2> QED BY <2>1, <2>4, <2>5, IssueFacts DEF Passports
<1>2. ASSUME NEW passport \in Ids, NEW points \in Points, AwardPoints(passport, points) PROVE TypeOK'
  <2>1. [fanPassports[passport] EXCEPT !.points = @ + points] \in Passports
    BY <1>2, PointsAssumption DEF AwardPoints, Passports
  <2>2. fanPassports' \in [Ids -> Passports \cup {None}] /\ \A id \in Ids : fanPassports[id] # None => fanPassports'[id] # None
    BY <1>2, <2>1, NoneAssumption DEF AwardPoints, Passports
  <2>3. stickerAlbums' \in [Ids -> Albums' \cup {None}] /\ watchPartyRsvps' \in [Ids -> Rsvps' \cup {None}]
    BY <1>2, <2>2 DEF AwardPoints, Albums, Rsvps
  <2> QED BY <1>2, <2>2, <2>3 DEF AwardPoints, Passports
<1>3. ASSUME NEW passport \in Ids, NEW packs \in PackCounts, InitialiseAlbum(passport, packs) PROVE TypeOK'
  <2>1. "album" \in Kinds /\ Issue("album", passport)
    BY <1>3 DEF InitialiseAlbum
  <2>2. [owner |-> passport, stickers |-> packs * StickersPerPack] \in Albums
    BY <1>3, PacksAssumption DEF InitialiseAlbum, Albums, StickersPerPack
  <2>3. stickerAlbums' \in [Ids -> Albums \cup {None}]
    BY <1>3, <2>2 DEF InitialiseAlbum
  <2> QED BY <1>3, <2>1, <2>3, IssueFacts DEF InitialiseAlbum, Albums, Rsvps
<1>4. ASSUME NEW passport \in Ids, ReserveRsvp(passport) PROVE TypeOK'
  <2>1. "rsvp" \in Kinds /\ Issue("rsvp", passport)
    BY <1>4 DEF ReserveRsvp
  <2>2. [holder |-> passport] \in Rsvps
    BY <1>4 DEF ReserveRsvp, Rsvps
  <2>3. watchPartyRsvps' \in [Ids -> Rsvps \cup {None}]
    BY <1>4, <2>2 DEF ReserveRsvp
  <2> QED BY <1>4, <2>1, <2>3, IssueFacts DEF ReserveRsvp, Albums, Rsvps
<1>5. ASSUME NEW rsvp \in Ids, CancelRsvp(rsvp) PROVE TypeOK'
  BY <1>5 DEF CancelRsvp, Albums, Rsvps
<1>6. CASE Restart
  BY <1>6 DEF Restart, Empty
<1>7. CASE UNCHANGED vars
  BY <1>7 DEF vars, maps, Albums, Rsvps
<1> QED BY <1>1, <1>2, <1>3, <1>4, <1>5, <1>6, <1>7 DEF Next

(* Receipts come with the counter, and a restart makes them old.           *)
LEMMA CountStep == TypeOK /\ IdsAreCounted /\ [Next]_vars => IdsAreCounted'
<1> SUFFICES ASSUME TypeOK, IdsAreCounted, [Next]_vars PROVE IdsAreCounted'
  OBVIOUS
<1>1. ASSUME NEW kind \in Kinds, NEW entry, Issue(kind, entry), kind = "passport" => entry \in Fans PROVE IdsAreCounted'
  <2> DEFINE new == [kind |-> kind, id |-> NewId(kind), about |-> entry, boot |-> boot]
  <2>1. /\ NewId(kind) = seq[kind] + 1 /\ seq' = [seq EXCEPT ![kind] = NewId(kind)]
        /\ receipts' = receipts \cup {new} /\ boot' = boot
    BY <1>1, IssueFacts
  <2>2. seq \in [Kinds -> Nat] /\ boot \in Nat
    BY BoundsAssumption DEF TypeOK
  <2>3. ASSUME NEW r \in receipts
        PROVE  r.boot <= boot /\ (r.boot = boot => r.id <= seq'[r.kind]) /\ (r.kind = "passport" => r.about \in Fans)
    <3>1. r.kind \in Kinds /\ r.id \in Nat
      BY DEF TypeOK, Ids
    <3>2. seq[r.kind] <= seq'[r.kind] /\ seq[r.kind] \in Nat /\ seq'[r.kind] \in Nat
      BY <2>1, <2>2, <3>1
    <3> QED BY <3>1, <3>2 DEF IdsAreCounted
  <2>4. new.boot <= boot /\ new.id <= seq'[new.kind] /\ (new.kind = "passport" => new.about \in Fans)
    BY <1>1, <2>1, <2>2
  <2> HIDE DEF new
  <2> QED BY <2>1, <2>3, <2>4 DEF IdsAreCounted
<1>2. ASSUME UNCHANGED <<receipts, seq, boot>> PROVE IdsAreCounted'
  BY <1>2 DEF IdsAreCounted
<1>3. CASE Restart
  BY <1>3 DEF Restart, TypeOK, IdsAreCounted
<1> QED BY <1>1, <1>2, <1>3 DEF Next, RegisterPassport, AwardPoints, InitialiseAlbum, ReserveRsvp, CancelRsvp, vars, Kinds

(* What a receipt says, in the state at hand.                              *)
Holds(r) ==
  /\ r.kind = "passport" => Registered(r.id) /\ fanPassports[r.id].fan = r.about
  /\ r.kind = "album" => stickerAlbums[r.id] # None /\ stickerAlbums[r.id].owner = r.about
  /\ r.kind = "rsvp" => (watchPartyRsvps[r.id] # None => watchPartyRsvps[r.id].holder = r.about)

LEMMA HoldsFacts ==
  ASSUME TypeOK PROVE ReceiptsStayTrue <=> \A r \in receipts : r.boot = boot => Holds(r)
<1>1. \A r \in receipts : r.kind \in {"passport", "album", "rsvp"}
  BY DEF TypeOK, Kinds
<1> QED BY <1>1 DEF ReceiptsStayTrue, Holds

(* A receipt of the running process is older than the id being issued.     *)
LEMMA OldIds ==
  ASSUME TypeOK, IdsAreCounted, NEW r \in receipts, r.boot = boot
  PROVE  r.kind \in Kinds /\ r.id \in Ids /\ r.id # NewId(r.kind)
<1>1. r.kind \in Kinds /\ r.id \in Ids
  BY DEF TypeOK
<1>2. r.id <= seq[r.kind] /\ seq[r.kind] \in Nat /\ r.id \in Nat
  BY <1>1, BoundsAssumption DEF TypeOK, IdsAreCounted, Ids
<1> QED BY <1>1, <1>2 DEF NewId

(* So an entry that is made leaves every receipt true, and its own is.     *)
LEMMA ReceiptsStep == TypeOK /\ IdsAreCounted /\ ReceiptsStayTrue /\ [Next]_vars => ReceiptsStayTrue'
<1> SUFFICES ASSUME TypeOK, IdsAreCounted, ReceiptsStayTrue, [Next]_vars PROVE ReceiptsStayTrue'
  OBVIOUS
<1>0. TypeOK' /\ \A r \in receipts : r.boot = boot => Holds(r)
  BY TypeStep, HoldsFacts
<1> SUFFICES \A r \in receipts' : r.boot = boot' => Holds(r)'
  <2>1. \A r \in receipts' : r.kind \in {"passport", "album", "rsvp"}
    BY <1>0 DEF TypeOK, Kinds
  <2> QED BY <2>1 DEF ReceiptsStayTrue, Holds, Registered
<1>1. ASSUME NEW fan \in Fans, RegisterPassport(fan), NEW r \in receipts', r.boot = boot' PROVE Holds(r)'
  <2>1. Issue("passport", fan) /\ "passport" \in Kinds
    BY <1>1 DEF RegisterPassport, Kinds
  <2>2. fanPassports' = [fanPassports EXCEPT ![NewId("passport")] = [fan |-> fan, points |-> 0]]
        /\ UNCHANGED <<stickerAlbums, watchPartyRsvps>>
    BY <1>1 DEF RegisterPassport
  <2>3. [fan |-> fan, points |-> 0] # None
    BY NoneAssumption
  <2>4. CASE r \in receipts
    BY <1>0, <1>1, <2>1, <2>2, <2>4, IssueFacts, OldIds DEF Holds, Registered, TypeOK
  <2>5. CASE r = [kind |-> "passport", id |-> NewId("passport"), about |-> fan, boot |-> boot]
    BY <2>1, <2>2, <2>3, <2>5, IssueFacts DEF Holds, Registered, TypeOK
  <2> QED BY <1>1, <2>1, <2>4, <2>5, IssueFacts
<1>2. ASSUME NEW passport \in Ids, NEW points \in Points, AwardPoints(passport, points),
             NEW r \in receipts', r.boot = boot'
      PROVE  Holds(r)'
  <2>1. fanPassports[passport] \in Passports /\ fanPassports[passport].points + points \in Nat
    BY <1>2, PointsAssumption DEF AwardPoints, Registered, TypeOK, Passports
  <2>2. ASSUME NEW id \in Ids, Registered(id)
        PROVE  fanPassports'[id] # None /\ fanPassports'[id].fan = fanPassports[id].fan
    <3>1. [fanPassports[passport] EXCEPT !.points = @ + points] \in Passports
      BY <2>1 DEF Passports
    <3>2. [fanPassports[passport] EXCEPT !.points = @ + points] # None
      BY <3>1, NoneAssumption DEF Passports
    <3>3. fanPassports' = [fanPassports EXCEPT ![passport] = [fanPassports[passport] EXCEPT !.points = @ + points]]
      BY <1>2 DEF AwardPoints
    <3>4. [fanPassports[passport] EXCEPT !.points = @ + points].fan = fanPassports[passport].fan
      BY <2>1 DEF Passports
    <3> QED BY <2>2, <3>2, <3>3, <3>4 DEF TypeOK, Registered
  <2>3. r \in receipts /\ r.boot = boot /\ r.id \in Ids
    BY <1>2 DEF AwardPoints, TypeOK
  <2> QED BY <1>0, <1>2, <2>2, <2>3 DEF Holds, Registered, AwardPoints
<1>3. ASSUME NEW passport \in Ids, NEW packs \in PackCounts, InitialiseAlbum(passport, packs),
             NEW r \in receipts', r.boot = boot'
      PROVE  Holds(r)'
  <2> DEFINE album == [owner |-> passport, stickers |-> packs * StickersPerPack]
  <2>1. Issue("album", passport) /\ "album" \in Kinds
    BY <1>3 DEF InitialiseAlbum, Kinds
  <2>2. stickerAlbums' = [stickerAlbums EXCEPT ![NewId("album")] = album] /\ UNCHANGED <<fanPassports, watchPartyRsvps>>
    BY <1>3 DEF InitialiseAlbum
  <2>3. passport \in Nat /\ packs * StickersPerPack \in Nat
    BY PacksAssumption DEF Ids, StickersPerPack
  <2>4. album # None /\ album.owner = passport
    BY <2>3, NoneAssumption
  <2> HIDE DEF album
  <2>5. CASE r \in receipts
    BY <1>0, <1>3, <2>1, <2>2, <2>5, IssueFacts, OldIds DEF Holds, Registered, TypeOK
  <2>6. CASE r = [kind |-> "album", id |-> NewId("album"), about |-> passport, boot |-> boot]
    BY <2>1, <2>2, <2>4, <2>6, IssueFacts DEF Holds, Registered, TypeOK
  <2> QED BY <1>3, <2>1, <2>5, <2>6, IssueFacts
<1>4. ASSUME NEW passport \in Ids, ReserveRsvp(passport), NEW r \in receipts', r.boot = boot' PROVE Holds(r)'
  <2>1. Issue("rsvp", passport) /\ "rsvp" \in Kinds
    BY <1>4 DEF ReserveRsvp, Kinds
  <2>2. watchPartyRsvps' = [watchPartyRsvps EXCEPT ![NewId("rsvp")] = [holder |-> passport]]
        /\ UNCHANGED <<fanPassports, stickerAlbums>>
    BY <1>4 DEF ReserveRsvp
  <2>3. CASE r \in receipts
    BY <1>0, <1>4, <2>1, <2>2, <2>3, IssueFacts, OldIds DEF Holds, Registered, TypeOK
  <2>4. CASE r = [kind |-> "rsvp", id |-> NewId("rsvp"), about |-> passport, boot |-> boot]
    BY <2>1, <2>2, <2>4, IssueFacts DEF Holds, Registered, TypeOK
  <2> QED BY <1>4, <2>1, <2>3, <2>4, IssueFacts
<1>5. ASSUME NEW rsvp \in Ids, CancelRsvp(rsvp), NEW r \in receipts', r.boot = boot' PROVE Holds(r)'
  BY <1>0, <1>5 DEF CancelRsvp, Holds, Registered, TypeOK
<1>6. ASSUME Restart, NEW r \in receipts', r.boot = boot' PROVE Holds(r)'
  BY <1>6 DEF Restart, IdsAreCounted, TypeOK
<1>7. ASSUME UNCHANGED vars, NEW r \in receipts', r.boot = boot' PROVE Holds(r)'
  BY <1>0, <1>7 DEF vars, maps, Holds, Registered
<1> QED BY ONLY [Next]_vars, <1>1, <1>2, <1>3, <1>4, <1>5, <1>6, <1>7 DEF Next

(* Albums are only ever written when they are made.                        *)
LEMMA StartersStep == TypeOK /\ StartersOnly /\ [Next]_vars => StartersOnly'
<1> SUFFICES ASSUME TypeOK, StartersOnly, [Next]_vars PROVE StartersOnly'
  OBVIOUS
<1>1. ASSUME NEW passport \in Ids, NEW packs \in PackCounts, InitialiseAlbum(passport, packs) PROVE StartersOnly'
  BY <1>1, PacksAssumption DEF InitialiseAlbum, TypeOK, StartersOnly, StickersPerPack
<1>2. CASE Restart
  BY <1>2 DEF Restart, Empty, StartersOnly
<1>3. CASE UNCHANGED stickerAlbums
  BY <1>3 DEF StartersOnly
<1> QED BY <1>1, <1>2, <1>3 DEF Next, RegisterPassport, AwardPoints, ReserveRsvp, CancelRsvp, vars, maps

LEMMA Invariance == Spec => []IInv
<1>1. Init => IInv
  BY BoundsAssumption DEF Init, IInv, TypeOK, IdsAreCounted, ReceiptsStayTrue, StartersOnly, Empty, Kinds
<1>2. IInv /\ [Next]_vars => IInv'
  BY TypeStep, CountStep, ReceiptsStep, StartersStep DEF IInv
<1> QED BY <1>1, <1>2, PTL DEF Spec

-----------------------------------------------------------------------------
(* No passport is ever taken from the Map, so their ids are the first ones.*)
PassportsAreCounted == \A id \in Ids : Registered(id) <=> id <= seq["passport"]

LEMMA PassportsStep == TypeOK /\ PassportsAreCounted /\ [Next]_vars => PassportsAreCounted'
<1> SUFFICES ASSUME TypeOK, PassportsAreCounted, [Next]_vars PROVE PassportsAreCounted'
  OBVIOUS
<1>0. seq["passport"] \in Nat /\ fanPassports \in [Ids -> Passports \cup {None}] /\ "passport" \in Kinds /\ Ids \subseteq Nat
  BY BoundsAssumption DEF TypeOK, Kinds, Ids
<1>1. ASSUME NEW fan \in Fans, RegisterPassport(fan) PROVE PassportsAreCounted'
  <2> DEFINE entry == [fan |-> fan, points |-> 0]
  <2>1. NewId("passport") = seq["passport"] + 1 /\ seq'["passport"] = NewId("passport")
    BY <1>0, <1>1, IssueFacts DEF RegisterPassport, TypeOK
  <2>2. fanPassports' = [fanPassports EXCEPT ![NewId("passport")] = entry] /\ entry # None
    BY <1>1, NoneAssumption DEF RegisterPassport
  <2> HIDE DEF entry
  <2> QED BY <1>0, <2>1, <2>2 DEF PassportsAreCounted, Registered
<1>2. ASSUME NEW passport \in Ids, NEW points \in Points, AwardPoints(passport, points) PROVE PassportsAreCounted'
  <2>1. fanPassports[passport] \in Passports
    BY <1>0, <1>2 DEF AwardPoints, Registered
  <2>2. [fanPassports[passport] EXCEPT !.points = @ + points] \in Passports
    BY <2>1, PointsAssumption DEF Passports
  <2>3. [fanPassports[passport] EXCEPT !.points = @ + points] # None
    BY <2>2, NoneAssumption DEF Passports
  <2>4. fanPassports' = [fanPassports EXCEPT ![passport] = [fanPassports[passport] EXCEPT !.points = @ + points]]
    BY <1>2 DEF AwardPoints
  <2>5. \A id \in Ids : fanPassports'[id] # None <=> fanPassports[id] # None
    BY <1>0, <1>2, <2>3, <2>4 DEF AwardPoints, Registered
  <2> QED BY <1>2, <2>5 DEF AwardPoints, PassportsAreCounted, Registered
<1>3. ASSUME NEW kind \in {"album", "rsvp"}, NEW entry, Issue(kind, entry), UNCHANGED fanPassports PROVE PassportsAreCounted'
  <2>1. seq' = [seq EXCEPT ![kind] = NewId(kind)]
    BY <1>3 DEF Issue
  <2> QED BY <1>0, <1>3, <2>1 DEF TypeOK, PassportsAreCounted, Registered
<1>4. ASSUME UNCHANGED <<fanPassports, seq>> PROVE PassportsAreCounted'
  BY <1>4 DEF PassportsAreCounted, Registered
<1>5. CASE Restart
  BY <1>5 DEF Restart, Empty, PassportsAreCounted, Registered, Kinds, Ids
<1> QED BY ONLY [Next]_vars, <1>1, <1>2, <1>3, <1>4, <1>5
        DEF Next, InitialiseAlbum, ReserveRsvp, CancelRsvp, vars, maps

(* The export's passports of one diet.                                     *)
Asking(confs, diet) == {id \in Export(confs) : DietOf[fanPassports[id].fan] = diet}

LEMMA ExportIsFinite ==
  ASSUME NEW confs, NEW diet
  PROVE  /\ IsFiniteSet(Export(confs))
         /\ IsFiniteSet(Asking(confs, diet))
         /\ Cardinality(Asking(confs, diet)) \in 0..MaxIds
<1>1. IsFiniteSet(Ids) /\ Cardinality(Ids) = MaxIds
  BY BoundsAssumption, FS_Interval DEF Ids
<1>2. Export(confs) \in SUBSET Ids /\ Asking(confs, diet) \in SUBSET Ids
  BY DEF Export, Asking
<1>3. IsFiniteSet(Export(confs)) /\ IsFiniteSet(Asking(confs, diet))
  BY <1>1, <1>2, FS_Subset
<1>4. Cardinality(Asking(confs, diet)) <= Cardinality(Ids)
  BY <1>1, <1>2, FS_Subset
<1>5. Cardinality(Asking(confs, diet)) \in Nat
  BY <1>3, FS_CardinalityType
<1> QED BY <1>1, <1>3, <1>4, <1>5, BoundsAssumption

LEMMA PlatesAreExports ==
  ASSUME TypeOK, NEW confs
  PROVE  Cardinality(Plates(confs)) = Cardinality(Export(confs))
<1> DEFINE share(diet) == Asking(confs, diet)
           count(diet) == Cardinality(share(diet))
           numbering == [diet \in Diets |-> CHOOSE f \in Bijection(1..count(diet), share(diet)) : TRUE]
           eater == [plate \in Plates(confs) |-> numbering[plate[1]][plate[2]]]
<1>1. ASSUME NEW diet \in Diets
      PROVE  /\ Catering(confs)[diet] = count(diet)
             /\ count(diet) \in 0..MaxIds
             /\ numbering[diet] \in Bijection(1..count(diet), share(diet))
  <2>1. Catering(confs)[diet] = count(diet)
    BY DEF Catering, Asking
  <2>2. IsFiniteSet(share(diet)) /\ count(diet) \in 0..MaxIds
    BY ExportIsFinite
  <2>3. ExistsBijection(1..count(diet), share(diet))
    BY <2>2, FS_CardinalityType
  <2>4. \E f \in Bijection(1..count(diet), share(diet)) : TRUE
    BY <2>3, Fun_ExistsBij
  <2> HIDE DEF share, count
  <2> QED BY <2>1, <2>2, <2>4
<1>2. ASSUME NEW plate \in Plates(confs)
      PROVE  /\ plate[1] \in Diets /\ plate[2] \in 1..count(plate[1]) /\ plate = <<plate[1], plate[2]>>
             /\ eater[plate] \in share(plate[1])
  <2>1. plate[1] \in Diets /\ plate[2] \in Ids /\ plate[2] <= Catering(confs)[plate[1]] /\ plate = <<plate[1], plate[2]>>
    BY DEF Plates
  <2>2. plate[2] \in 1..count(plate[1])
    BY <1>1, <2>1, BoundsAssumption DEF Ids
  <2>3. numbering[plate[1]] \in [1..count(plate[1]) -> share(plate[1])]
    BY <1>1, <2>1, Fun_BijectionProperties
  <2>4. eater[plate] = numbering[plate[1]][plate[2]]
    OBVIOUS
  <2> HIDE DEF share, count, numbering, eater
  <2> QED BY <2>1, <2>2, <2>3, <2>4
<1>3. ASSUME NEW diet \in Diets, NEW n \in 1..count(diet)
      PROVE  <<diet, n>> \in Plates(confs) /\ eater[<<diet, n>>] = numbering[diet][n]
  <2>1. n \in Ids /\ n <= Catering(confs)[diet]
    BY <1>1, BoundsAssumption DEF Ids
  <2>2. <<diet, n>> \in Plates(confs)
    BY <2>1 DEF Plates
  <2> HIDE DEF numbering, share, count
  <2> QED BY <2>2
<1>4. \A diet, other : share(diet) \subseteq Export(confs) /\ (diet # other => share(diet) \cap share(other) = {})
  BY DEF Asking
<1>5. \A id \in Export(confs) : DietOf[fanPassports[id].fan] \in Diets /\ id \in share(DietOf[fanPassports[id].fan])
  <2>1. ASSUME NEW id \in Export(confs) PROVE fanPassports[id].fan \in Fans
    BY DEF Export, Registered, TypeOK, Passports
  <2> QED BY <2>1 DEF Diets, Asking
<1> HIDE DEF share, count, numbering
<1>6. eater \in [Plates(confs) -> Export(confs)]
  <2>1. \A plate \in Plates(confs) : eater[plate] \in Export(confs)
    BY <1>2, <1>4
  <2> QED BY <2>1
<1> HIDE DEF eater
<1>7. ASSUME NEW p \in Plates(confs), NEW q \in Plates(confs), eater[p] = eater[q] PROVE p = q
  <2>1. p[1] = q[1]
    BY <1>2, <1>4, <1>7
  <2>2. eater[p] = numbering[p[1]][p[2]] /\ eater[q] = numbering[p[1]][q[2]]
    BY <1>2, <1>3, <2>1
  <2>3. p[2] = q[2]
    <3> DEFINE diet == p[1]
    <3>1. diet \in Diets /\ p[2] \in 1..count(diet) /\ q[2] \in 1..count(diet)
      BY <1>2, <2>1
    <3> DEFINE portions == 1..count(diet)
               asking == share(diet)
               f == numbering[diet]
    <3>2. f \in Bijection(portions, asking)
      BY <1>1, <3>1
    <3>3. f[p[2]] = f[q[2]] /\ p[2] \in portions /\ q[2] \in portions
      BY <1>7, <2>2, <3>1
    <3> HIDE DEF diet, portions, asking, f
    <3>4. \A a, b \in portions : f[a] = f[b] => a = b
      BY <3>2, Fun_BijectionProperties
    <3> QED BY <3>3, <3>4
  <2> QED BY <1>2, <2>1, <2>3
<1>8. ASSUME NEW id \in Export(confs) PROVE \E p \in Plates(confs) : eater[p] = id
  <2> DEFINE diet == DietOf[fanPassports[id].fan]
  <2>1. diet \in Diets /\ id \in share(diet)
    BY <1>5
  <2> HIDE DEF diet
  <2>2. PICK n \in 1..count(diet) : numbering[diet][n] = id
    BY <1>1, <2>1, Fun_BijectionProperties
  <2> QED BY <1>3, <2>1, <2>2
<1>9. eater \in Bijection(Plates(confs), Export(confs))
  BY <1>6, <1>7, <1>8, Fun_IsBij
<1>10. ExistsBijection(Export(confs), Plates(confs))
  BY <1>9, Fun_ExistsBij, Fun_ExistsBijSymmetric
<1> QED BY <1>10, ExportIsFinite, FS_Bijection

-----------------------------------------------------------------------------
(* The state keeps its types; every album and RSVP has its passport.       *)
THEOREM TypeCorrect == Spec => []TypeOK
<1>1. IInv => TypeOK BY DEF IInv
<1> QED BY Invariance, <1>1, PTL

(* The three counters: an id that was told names what it was told for, as  *)
(* long as the process that told it runs.                                  *)
THEOREM IdsKeepTheirMeaning == Spec => []ReceiptsStayTrue
<1>1. IInv => ReceiptsStayTrue BY DEF IInv
<1> QED BY Invariance, <1>1, PTL

(* The certificate tool: no album of any fan ever gets there.              *)
THEOREM NobodyFinishes == Spec => []NoCertificateIssued
<1>1. IInv => NoCertificateIssued
  BY DEF IInv, TypeOK, Albums, StartersOnly, NoCertificateIssued, CertificateDue, Remaining, TotalStickers, StickersPerPack
<1> QED BY Invariance, <1>1, PTL

(* The dietary aggregation, the statistics, the bulk export and the        *)
(* counter: they agree on how many passports there are, at any time.       *)
THEOREM ReportsAgree == Spec => []CateringAddsUp
<1>1. Init => PassportsAreCounted
  BY DEF Init, PassportsAreCounted, Registered, Empty, Kinds, Ids
<1>2. ASSUME TypeOK, PassportsAreCounted PROVE CateringAddsUp
  <2>1. \A id \in Ids : Registered(id) => ConfOf[fanPassports[id].fan] \in Confederations
    BY <1>2 DEF TypeOK, Registered, Passports, Confederations
  <2>2. Export(Confederations) = {id \in Ids : Registered(id)}
    BY <2>1 DEF Export
  <2>3. seq["passport"] \in 0..MaxIds
    BY <1>2 DEF TypeOK, Kinds
  <2>4. Export(Confederations) = 1..seq["passport"]
    BY <1>2, <2>2, <2>3, BoundsAssumption DEF PassportsAreCounted, Ids
  <2>5. Cardinality(Export(Confederations)) = seq["passport"]
    BY <2>3, <2>4, FS_Interval
  <2>6. Cardinality(Export(Confederations)) = Size(fanPassports)
    BY <2>2 DEF Size, Registered
  <2> QED BY <1>2, <2>5, <2>6, PlatesAreExports DEF CateringAddsUp
<1>3. IInv => TypeOK
  BY DEF IInv
<1> QED BY <1>1, <1>2, <1>3, PassportsStep, Invariance, PTL DEF Spec
=============================================================================
