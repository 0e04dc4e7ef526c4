---------------------------- MODULE WorldcupFans ----------------------------
(***************************************************************************)
(* The fan registry of the World Cup MCP server: fan passports with        *)
(* loyalty points, sticker albums and watch-party RSVPs, kept in three     *)
(* Maps of one process and numbered by three counters.  A handler has no   *)
(* await, so a call is one step.  A restart empties the Maps and puts the  *)
(* counters back, while callers (agents and their users) keep the ids they *)
(* were told.                                                              *)
(*                                                                         *)
(* An id is its counter's value, counted from the counter's first one      *)
(* (FP-1001, ALB-5001, RSVP-9001 are 1).  A fan stands for all that a      *)
(* registration says of a person.  The tools that only read change         *)
(* nothing, nor do calls that are refused; the reports over the Maps are   *)
(* operators, the tools over the constant tables are left out.             *)
(***************************************************************************)
EXTENDS Naturals, FiniteSets

CONSTANTS
  Fans,        \* the people callers register
  DietOf,      \* dietaryRequirements of each fan
  ConfOf,      \* preferredConfederation of each fan
  PackCounts,  \* initialStickerPackCount of the calls
  Points,      \* pointsToAward of the calls
  MaxIds,      \* bound: ids given out by one counter
  MaxPoints,   \* bound: loyalty points of a passport
  MaxBoots,    \* bound: restarts of the process
  None         \* no entry under an id

ASSUME FansAssumption == DOMAIN DietOf = Fans /\ DOMAIN ConfOf = Fans
ASSUME PacksAssumption == PackCounts \subseteq 1..50
ASSUME PointsAssumption == Points \subseteq Nat \ {0}
ASSUME BoundsAssumption == MaxIds \in Nat /\ MaxPoints \in Nat /\ MaxBoots \in Nat
ASSUME NoneAssumption ==
  None \notin [fan : Fans, points : Nat] \cup [owner : Nat, stickers : Nat] \cup [holder : Nat]

VARIABLES
  fanPassports,     \* by id: the fan and the loyalty points
  stickerAlbums,    \* by id: the owner's passport id and how many stickers
  watchPartyRsvps,  \* by id: the holder's passport id
  seq,              \* the three counters
  receipts,         \* the ids callers were told, with what for, by which process
  boot              \* which process is running

maps == <<fanPassports, stickerAlbums, watchPartyRsvps>>
vars == <<maps, seq, receipts, boot>>

Kinds == {"passport", "album", "rsvp"}
Ids == 1..MaxIds
TotalStickers == 670
MoreStickersPerPack == 15  \* mutant
StickersPerPack == 5

Empty == [id \in Ids |-> None]
Registered(id) == fanPassports[id] # None

Init ==
  /\ fanPassports = Empty
  /\ stickerAlbums = Empty
  /\ watchPartyRsvps = Empty
  /\ seq = [k \in Kinds |-> 0]
  /\ receipts = {}
  /\ boot = 1

(* Mutant: numbered by the size of the Map.                                *)
NewIdFromSize(kind) ==
  LET map == CASE kind = "passport" -> fanPassports [] kind = "album" -> stickerAlbums [] kind = "rsvp" -> watchPartyRsvps
  IN Cardinality({id \in Ids : map[id] # None}) + 1

(* ++next...Seq, and the id is told to the caller.                         *)
NewId(kind) == seq[kind] + 1

Issue(kind, entry) ==
  /\ seq[kind] < MaxIds
  /\ seq' = [seq EXCEPT ![kind] = NewId(kind)]
  /\ receipts' = receipts \cup {[kind |-> kind, id |-> NewId(kind), about |-> entry, boot |-> boot]}
  /\ UNCHANGED boot

(* The registration, with both consents given.                             *)
RegisterPassport(fan) ==
  /\ Issue("passport", fan)
  /\ fanPassports' = [fanPassports EXCEPT ![NewId("passport")] = [fan |-> fan, points |-> 0]]
  /\ UNCHANGED <<stickerAlbums, watchPartyRsvps>>

AwardPoints(passport, points) ==
  /\ Registered(passport)
  /\ fanPassports[passport].points + points <= MaxPoints
  /\ fanPassports' = [fanPassports EXCEPT ![passport].points = @ + points]
  /\ UNCHANGED <<stickerAlbums, watchPartyRsvps, seq, receipts, boot>>

(* Mutant: the passport is not looked up.                                  *)
InitialiseAlbumUnchecked(passport, packs) ==
  /\ Issue("album", passport)
  /\ stickerAlbums' = [stickerAlbums EXCEPT ![NewId("album")] =
                        [owner |-> passport, stickers |-> packs * StickersPerPack]]
  /\ UNCHANGED <<fanPassports, watchPartyRsvps>>

InitialiseAlbum(passport, packs) ==
  /\ Registered(passport)
  /\ Issue("album", passport)
  /\ stickerAlbums' = [stickerAlbums EXCEPT ![NewId("album")] =
                        [owner |-> passport, stickers |-> packs * StickersPerPack]]
  /\ UNCHANGED <<fanPassports, watchPartyRsvps>>

ReserveRsvp(passport) ==
  /\ Registered(passport)
  /\ Issue("rsvp", passport)
  /\ watchPartyRsvps' = [watchPartyRsvps EXCEPT ![NewId("rsvp")] = [holder |-> passport]]
  /\ UNCHANGED <<fanPassports, stickerAlbums>>

CancelRsvp(rsvp) ==
  /\ watchPartyRsvps[rsvp] # None
  /\ watchPartyRsvps' = [watchPartyRsvps EXCEPT ![rsvp] = None]
  /\ UNCHANGED <<fanPassports, stickerAlbums, seq, receipts, boot>>

Restart ==
  /\ boot < MaxBoots
  /\ boot' = boot + 1
  /\ fanPassports' = Empty
  /\ stickerAlbums' = Empty
  /\ watchPartyRsvps' = Empty
  /\ seq' = [k \in Kinds |-> 0]
  /\ UNCHANGED receipts

Next ==
  \/ \E fan \in Fans : RegisterPassport(fan)
  \/ \E passport \in Ids :
       \/ \E points \in Points : AwardPoints(passport, points)
       \/ \E packs \in PackCounts : InitialiseAlbum(passport, packs)
       \/ ReserveRsvp(passport)
  \/ \E rsvp \in Ids : CancelRsvp(rsvp)
  \/ Restart

Spec == Init /\ [][Next]_vars

-----------------------------------------------------------------------------
(* The reports.                                                            *)

(* The bulk export: the passports of the confederations asked for.         *)
Export(confs) == {id \in Ids : Registered(id) /\ ConfOf[fanPassports[id].fan] \in confs}

Diets == {DietOf[fan] : fan \in Fans}
Confederations == {ConfOf[fan] : fan \in Fans}

(* Mutant: a fan who registered twice is fed once.                         *)
CateringOfFans(confs) ==
  [diet \in Diets |->
    Cardinality({fan \in Fans : DietOf[fan] = diet /\ \E id \in Export(confs) : fanPassports[id].fan = fan})]

(* The dietary aggregation: how many passports of each diet.               *)
Catering(confs) ==
  [diet \in Diets |-> Cardinality({id \in Export(confs) : DietOf[fanPassports[id].fan] = diet})]

(* The data store statistics: the size of a Map.                           *)
Size(map) == Cardinality({id \in Ids : map[id] # None})

(* The progress of an album: the stickers that remain.                     *)
Remaining(album) == TotalStickers - stickerAlbums[album].stickers

(* The certificate tool hands out a certificate for a full album.          *)
CertificateDue(album) ==
  stickerAlbums[album] # None /\ stickerAlbums[album].stickers >= TotalStickers

-----------------------------------------------------------------------------
Passports == [fan : Fans, points : Nat]
Albums == [owner : {id \in Ids : Registered(id)}, stickers : Nat]
Rsvps == [holder : {id \in Ids : Registered(id)}]

(* The type invariant.  Every album and every RSVP belongs to a passport   *)
(* of the same process: in no order of calls, and across no restart, is an *)
(* owner missing.                                                          *)
TypeOK ==
  /\ fanPassports \in [Ids -> Passports \cup {None}]
  /\ stickerAlbums \in [Ids -> Albums \cup {None}]
  /\ watchPartyRsvps \in [Ids -> Rsvps \cup {None}]
  /\ seq \in [Kinds -> 0..MaxIds]
  /\ receipts \subseteq [kind : Kinds, id : Ids, about : Fans \cup Ids, boot : Nat \ {0}]
  /\ boot \in Nat \ {0}

(* While the process that told an id is running, the id names what the     *)
(* caller asked for and nothing else: no counter value is given out twice, *)
(* a cancelled RSVP's not excepted.                                        *)
ReceiptsStayTrue ==
  \A r \in receipts :
    r.boot = boot =>
      CASE r.kind = "passport" -> Registered(r.id) /\ fanPassports[r.id].fan = r.about
        [] r.kind = "album" -> stickerAlbums[r.id] # None /\ stickerAlbums[r.id].owner = r.about
        [] r.kind = "rsvp" -> watchPartyRsvps[r.id] # None => watchPartyRsvps[r.id].holder = r.about

(* The certificate of completion can never be issued: no tool adds         *)
(* stickers to an album, and the starter packs do not fill one; and so an  *)
(* album always has stickers that remain.                                  *)
NoCertificateIssued ==
  \A album \in Ids :
    ~CertificateDue(album) /\ (stickerAlbums[album] # None => Remaining(album) > 0)

(* The plates that are served by a report, each named by its diet and its  *)
(* number there: as many as the counts add up to.                          *)
Plates(confs) == {plate \in Diets \X Ids : plate[2] <= Catering(confs)[plate[1]]}

(* The catering report feeds every passport that was handed out once: its  *)
(* counts add up to the counter, to the statistics and, confederation by   *)
(* confederation, to the export, however often a fan has registered.       *)
CateringAddsUp ==
  LET fed(confs) == Cardinality(Plates(confs)) IN
    /\ fed(Confederations) = seq["passport"]
    /\ fed(Confederations) = Size(fanPassports)
    /\ \A conf \in Confederations : fed({conf}) = Cardinality(Export({conf}))
=============================================================================
