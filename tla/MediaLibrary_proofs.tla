------------------------- MODULE MediaLibrary_proofs -------------------------
(***************************************************************************)
(* No photo is shown twice, no file is missing, no upload exceeds the      *)
(* limit: proofs about MediaLibrary, for any number of photos, games,      *)
(* uploads and requests.                                                   *)
(***************************************************************************)
EXTENDS MediaLibrary, FiniteSetTheorems, TLAPS

-----------------------------------------------------------------------------
(* Invariants                                                              *)

\* A job has a photo, and so has a finished post.
TypeInv ==
    /\ TypeOK
    /\ shown \in [Assets -> SUBSET Games]
    /\ \A s \in Scopes : job[s].phase # "idle" \/ post[s].done => post[s].asset # None

\* Photos: a reservation is for a photo that is there; what is there is stored.
PhotoKept(a) ==
    /\ asset[a].reserved # None => asset[a].state = "here"
    /\ Counted(a) => object[a] = "live"
    /\ asset[a].state \in {"here", "moved"} => asset[a].available
    /\ asset[a].state = "absent" => ~asset[a].available
    /\ object[a] = "live" => a \in file

\* Uploads: a session is reserved until its object exists, and who is completing it
\* has a file.
UploadKept(u) ==
    /\ object[u] # "deleted" /\ session[u] \in {None, "one"}
    /\ object[u] = "live" => u \in file /\ upload[u].status = "completed"
    /\ upload[u].status = "none" => session[u] = None
    /\ session[u] # None /\ upload[u].status = "reserved" => u \in file

FilesInv ==
    /\ \A a \in Assets \ External : PhotoKept(a)
    /\ \A a \in External : object[a] # "live"
    /\ \A u \in Uploads : UploadKept(u)

\* What is reserved or was shown has arrived, and has been counted as used; a photo shown
\* before that is reserved again, for a contribution that may still give it back, twice.
UseCounted(a) ==
    /\ asset[a].state = "absent" => asset[a].reserved = None /\ shown[a] = {}
    /\ asset[a].reserved # None \/ shown[a] # {} => asset[a].uses >= 1
    /\ \A s \in Scopes :
          asset[a].reserved = Game[s] /\ shown[a] # {} /\ ~UsedBy(a, s) => asset[a].uses >= 2

\* The photo of an unfinished post is reserved for its game, and the job knows it.
PhotoHeld(s) ==
    /\ Unfinished(s) => asset[post[s].asset].reserved = Game[s]
    /\ job[s].phase # "idle" => job[s].seen.reserved = Game[s]
    /\ post[s].marked # {} => post[s].done
    /\ job[s].phase = "creating" => ~post[s].done
    /\ post[s].asset # None /\ ~post[s].done /\ pref[s].mode = "manual" =>
           pref[s].asset = post[s].asset

\* A photo that was shown for another game is reserved by a deliberate choice only,
\* and only while the post has yet to come.
Deliberate(s, a) ==
    asset[a].reserved = Game[s] /\ shown[a] \ {Game[s]} # {} =>
        pref[s].mode = "manual" /\ pref[s].asset = a /\ ~post[s].done

\* A job that did not ask for its photo, or took an unused one, is alone with it.
JobAlone(s) ==
    job[s].phase = "rerendering" \/ (job[s].phase = "creating" /\ ~job[s].manual) =>
        shown[post[s].asset] \subseteq {Game[s]}

UsesCounted == \A a \in Assets : UseCounted(a)
JobsHold == \A s \in Scopes : PhotoHeld(s)
OnlyDeliberately == \A s \in Scopes, a \in Assets : Deliberate(s, a)
JobsAlone == \A s \in Scopes : JobAlone(s)
ShownOnce == \A a \in Assets : \A g, h \in shown[a] : g = h

PhotoInv == UsesCounted /\ JobsHold /\ OnlyDeliberately /\ JobsAlone /\ ShownOnce

-----------------------------------------------------------------------------
(* The choice of a photo                                                   *)

\* What giving a reservation back, and taking one, makes of a row.
LEMMA Rows ==
    ASSUME TypeInv, NEW a \in Assets, NEW g \in Games
    PROVE  /\ Reserve(a, g) = [asset EXCEPT ![a] = Reserve(a, g)[a]]
           /\ Reserve(a, g)[a] = [asset[a] EXCEPT !.reserved = g, !.uses = asset[a].uses + 1]
           /\ Reserve(a, g)[a] \in Asset
           /\ Unreserve(a) = [asset EXCEPT ![a] = Unreserve(a)[a]]
           /\ Unreserve(a)[a] \in Asset
           /\ Unreserve(a)[a] = [asset[a] EXCEPT !.reserved = None, !.uses = Unreserve(a)[a].uses]
           /\ Unreserve(a)[a].uses = IF asset[a].uses > 0 THEN asset[a].uses - 1 ELSE 0
<1>1. asset \in [Assets -> Asset] /\ asset[a] \in Asset
  BY DEF TypeInv, TypeOK
<1>2. /\ Reserve(a, g) = [asset EXCEPT ![a] = Reserve(a, g)[a]]
      /\ Reserve(a, g)[a] = [asset[a] EXCEPT !.reserved = g, !.uses = asset[a].uses + 1]
  BY <1>1 DEF Asset, Reserve
<1>3. Reserve(a, g)[a] \in Asset
  <2>1. asset[a].uses + 1 \in Nat
    BY <1>1 DEF Asset
  <2> QED BY <1>1, <1>2, <2>1 DEF Asset
<1>4. Unreserve(a) = [asset EXCEPT ![a] = Unreserve(a)[a]]
  BY <1>1 DEF Asset, Unreserve
<1>5. /\ Unreserve(a)[a] = [asset[a] EXCEPT !.reserved = None, !.uses = Unreserve(a)[a].uses]
      /\ Unreserve(a)[a].uses = IF asset[a].uses > 0 THEN asset[a].uses - 1 ELSE 0
  BY <1>1 DEF Asset, Unreserve
<1>6. Unreserve(a)[a].uses \in Nat
  BY <1>1, <1>5 DEF Asset
<1>7. Unreserve(a)[a] \in Asset
  BY <1>1, <1>5, <1>6 DEF Asset
<1> QED BY <1>2, <1>3, <1>4, <1>5, <1>7

\* A row is as it was, or without the reservation that scope s had on it and had not
\* used.
GivenBack(b, s) ==
    /\ asset[b].reserved = Game[s] /\ ~UsedBy(b, s)
    /\ asset'[b] = Unreserve(b)[b]

\* Scope s gets a photo that is there: one its game has reserved, or one that is free,
\* and unused unless it was chosen by hand.  Others are left, or given back.
LEMMA Chosen ==
    ASSUME TypeInv, NEW s \in Scopes, NEW a \in Assets, reserve_media(s, a)
    PROVE  /\ asset' \in [Assets -> Asset] /\ pref' \in [Scopes -> Preference]
           /\ asset[a].state = "here"
           /\ \/ asset[a].reserved = Game[s] /\ asset'[a] = asset[a]
              \/ /\ asset[a].reserved = None /\ asset'[a] = Reserve(a, Game[s])[a]
                 /\ pref[s].mode = "manual" \/ asset[a].uses = 0
           /\ \A b \in Assets \ {a} : asset'[b] = asset[b] \/ GivenBack(b, s)
           /\ pref[s].mode = "manual" => pref' = pref /\ pref[s].asset = a
           /\ pref[s].mode # "manual" =>
                 /\ pref' = [pref EXCEPT ![s] = pref'[s]]
                 /\ pref'[s].mode = "automatic" /\ pref'[s].asset = a
           /\ history.touched \subseteq history'.touched /\ history'.used = history.used
           /\ history'.touched \subseteq Assets \X Scopes
<1> DEFINE g == Game[s]
<1>t. /\ asset \in [Assets -> Asset] /\ pref \in [Scopes -> Preference]
      /\ history.touched \subseteq Assets \X Scopes
  BY DEF TypeInv, TypeOK
<1>g. g \in Games /\ None \notin Assets /\ None \notin Games
  BY MediaAssumption DEF Games
<1>1. /\ DOMAIN Cleared(s) = Assets
      /\ \A b \in Assets : \/ Cleared(s)[b] = asset[b]
                           \/ /\ b \in StaleChoice(s) /\ Cleared(s)[b] = Unreserve(b)[b]
                              /\ Remembered(s) = {} /\ pref[s].mode = "automatic"
  BY <1>t DEF Cleared
<1>2. StaleChoice(s) \subseteq {b \in Assets : asset[b].reserved = g /\ ~UsedBy(b, s)}
  BY <1>t DEF StaleChoice, Preference, AssetOrNone
<1>3. /\ asset[a].state = "here"
      /\ \/ asset[a].reserved = g
         \/ asset[a].reserved = None /\ (pref[s].mode = "manual" \/ asset[a].uses = 0)
      /\ pref[s].mode = "manual" => pref[s].asset = a
  <2>1. CASE pref[s].mode = "manual"
    BY <2>1 DEF reserve_media, Candidates, ManualChoice, Usable
  <2>2. CASE pref[s].mode # "manual" /\ Remembered(s) # {}
    BY <2>2 DEF reserve_media, Candidates, Remembered, Eligible, Usable, Unused
  <2>3. CASE pref[s].mode # "manual" /\ Remembered(s) = {}
    <3>1. a \in Automatic(s)
      BY <2>3 DEF reserve_media, Candidates
    <3>2. a \in Legacy(s) \/ a \in Pool
      BY <3>1 DEF Automatic
    <3> QED BY <2>3, <3>2 DEF Legacy, Pool, Eligible, Usable, Unused
  <2> QED BY <2>1, <2>2, <2>3
<1>4. Cleared(s)[a] = asset[a]
  <2>1. CASE pref[s].mode = "manual" \/ Remembered(s) # {}
    BY <2>1, <1>1
  <2>2. CASE pref[s].mode # "manual" /\ Remembered(s) = {}
    <3>1. a \in Automatic(s)
      BY <2>2 DEF reserve_media, Candidates
    <3>2. a \notin StaleChoice(s)
      BY <3>1, <1>2, <1>g DEF Automatic, Pool, Unused
    <3> QED BY <3>2, <1>1
  <2> QED BY <2>1, <2>2
<1>5. \/ asset[a].reserved = g /\ asset' = Cleared(s)
      \/ asset[a].reserved = None /\ asset' = [Cleared(s) EXCEPT ![a] = Reserve(a, g)[a]]
  BY <1>3, <1>g DEF reserve_media
<1>6. /\ asset' \in [Assets -> Asset]
      /\ \A b \in Assets \ {a} : asset'[b] = Cleared(s)[b]
      /\ \/ asset[a].reserved = g /\ asset'[a] = asset[a]
         \/ asset[a].reserved = None /\ asset'[a] = Reserve(a, g)[a]
  <2>1. Cleared(s) \in [Assets -> Asset]
    BY <1>1, <1>t, <1>g, Rows DEF Cleared
  <2> QED BY ZenonT(40), <2>1, <1>1, <1>4, <1>5, <1>g, Rows
<1>7. \A b \in Assets \ {a} : asset'[b] = asset[b] \/ GivenBack(b, s)
  BY <1>1, <1>2, <1>6 DEF GivenBack
<1>8. /\ pref' \in [Scopes -> Preference]
      /\ pref[s].mode = "manual" => pref' = pref
      /\ pref[s].mode # "manual" =>
            /\ pref' = [pref EXCEPT ![s] = pref'[s]]
            /\ pref'[s].mode = "automatic" /\ pref'[s].asset = a
  BY <1>t DEF reserve_media, Preference, AssetOrNone
<1>9. /\ history.touched \subseteq history'.touched /\ history'.used = history.used
      /\ history'.touched \subseteq Assets \X Scopes
  BY <1>t DEF reserve_media, TypeInv, TypeOK
<1> QED BY <1>g, <1>3, <1>6, <1>7, <1>8, <1>9

-----------------------------------------------------------------------------
(* Types                                                                   *)

RowTypes ==
    /\ asset \in [Assets -> Asset] /\ pref \in [Scopes -> Preference]
    /\ history.used \subseteq history.touched /\ history.touched \subseteq Assets \X Scopes
    /\ post \in [Scopes -> Post] /\ job \in [Scopes -> Job]
    /\ shown \in [Assets -> SUBSET Games]
    /\ \A s \in Scopes : job[s].phase # "idle" \/ post[s].done => post[s].asset # None
StoreTypes ==
    /\ upload \in [Uploads -> Upload]
    /\ object \in [Assets \cup Uploads -> Objects] /\ file \subseteq Assets \cup Uploads
    /\ session \in [Assets \cup Uploads -> {None, "keep", "remove", "one", "two"}]

LEMMA Types == TypeInv <=> RowTypes /\ StoreTypes /\ orders \in 0..MaxOrders
  BY DEF TypeInv, TypeOK, RowTypes, StoreTypes

LEMMA TypeInit == Init => TypeInv
<1> SUFFICES ASSUME Init PROVE TypeInv
  OBVIOUS
<1>1. Absent \in Asset /\ NoJob \in Job /\ NoPost \in Post
  BY DEF Absent, Asset, NoJob, Job, NoPost, Post, AssetOrNone
<1>2. RowTypes
  <2>1. pref \in [Scopes -> Preference]
    BY DEF Init, Preference, AssetOrNone
  <2> QED BY <1>1, <2>1 DEF Init, RowTypes, NoJob, NoPost
<1>3. StoreTypes
  BY MediaAssumption DEF Init, StoreTypes, Upload, Objects
<1> QED BY <1>2, <1>3, Types, MediaAssumption DEF Init

\* A step that changes neither photos nor posts, or neither uploads nor files.
LEMMA RowsStay == ASSUME RowTypes, UNCHANGED selection PROVE RowTypes'
  BY DEF RowTypes, selection
LEMMA StoreStays == ASSUME StoreTypes, UNCHANGED <<storage, session>> PROVE StoreTypes'
  BY DEF StoreTypes, storage

LEMMA Ordered == ASSUME orders \in 0..MaxOrders, Order \/ UNCHANGED orders PROVE orders' \in 0..MaxOrders
  BY MediaAssumption DEF Order

LEMMA CreateTypes ==
    ASSUME TypeInv, NEW s \in Scopes, Create(s)
    PROVE  RowTypes'
<1> USE DEF RowTypes
<1>0. RowTypes
  BY Types
<1>1. PICK a \in Assets :
         /\ reserve_media(s, a)
         /\ post' = [post EXCEPT ![s].asset = a]
         /\ job' = [job EXCEPT ![s] = [phase |-> "creating", manual |-> pref[s].mode = "manual",
                                      seen |-> asset'[a]]]
  BY DEF Create
<1>2. /\ asset' \in [Assets -> Asset] /\ pref' \in [Scopes -> Preference]
      /\ history'.used \subseteq history'.touched /\ history'.touched \subseteq Assets \X Scopes
  BY <1>0, <1>1, Chosen
<1>3. post' \in [Scopes -> Post]
  BY <1>0, <1>1 DEF Post, AssetOrNone
<1>4. job' \in [Scopes -> Job]
  BY <1>0, <1>1, <1>2 DEF Job
<1>5. \A t \in Scopes : job'[t].phase # "idle" \/ post'[t].done => post'[t].asset # None
  BY <1>0, <1>1, MediaAssumption DEF Post, Job
<1> QED BY <1>0, <1>2, <1>3, <1>4, <1>5 DEF Create

LEMMA ResumeTypes ==
    ASSUME RowTypes, NEW s \in Scopes, Resume(s)
    PROVE  RowTypes'
<1> USE DEF RowTypes
<1>1. post[s].asset \in Assets
  BY DEF Resume, Post, AssetOrNone
<1>2. job' \in [Scopes -> Job]
  BY <1>1 DEF Resume, Job
<1>3. \A t \in Scopes : job'[t].phase # "idle" \/ post[t].done => post[t].asset # None
  BY DEF Resume, Job
<1> QED BY <1>2, <1>3 DEF Resume

\* New graphics: the photo is free or the game's, and unused; others are left, or given
\* back.
LEMMA RerenderRows ==
    ASSUME TypeInv, NEW s \in Scopes, Rerender(s)
    PROVE  \E a \in Assets :
              /\ asset' \in [Assets -> Asset]
              /\ asset[a].state = "here" /\ asset[a].uses = 0
              /\ asset[a].reserved \in {None, Game[s]} /\ asset'[a] = Reserve(a, Game[s])[a]
              /\ \A b \in Assets \ {a} : asset'[b] = asset[b] \/ GivenBack(b, s)
              /\ pref' = [pref EXCEPT ![s] = [mode |-> "manual", asset |-> a, once |-> FALSE]]
              /\ history.touched \subseteq history'.touched /\ history'.used = history.used
              /\ history'.touched \subseteq Assets \X Scopes
              /\ post' = [post EXCEPT ![s].asset = a]
              /\ job' = [job EXCEPT ![s] = [phase |-> "rerendering", manual |-> TRUE,
                                           seen |-> asset'[a]]]
<1> DEFINE old == pref[s].asset
           freed == {old} \cap {b \in Assets : asset[b].reserved = Game[s] /\ ~UsedBy(b, s)}
<1>t. RowTypes /\ Game[s] \in Games
  BY Types DEF Games
<1>1. PICK a \in Assets \ {post[s].asset} :
         /\ Eligible(a) /\ asset[a].uses = 0 /\ asset[a].reserved \in {None, Game[s]}
         /\ asset' = [b \in Assets |->
                        IF b = a THEN Reserve(a, Game[s])[a]
                        ELSE IF b \in freed THEN Unreserve(b)[b] ELSE asset[b]]
         /\ pref' = [pref EXCEPT ![s] = [mode |-> "manual", asset |-> a, once |-> FALSE]]
         /\ history' = [history EXCEPT !.touched = @ \cup {<<b, s>> : b \in freed \cup {a}}]
         /\ post' = [post EXCEPT ![s].asset = a]
         /\ job' = [job EXCEPT ![s] = [phase |-> "rerendering", manual |-> TRUE,
                                      seen |-> asset'[a]]]
  BY DEF Rerender
<1>2. asset' \in [Assets -> Asset]
  BY <1>1, <1>t, Rows DEF RowTypes
<1>3. \A b \in Assets \ {a} : asset'[b] = asset[b] \/ GivenBack(b, s)
  BY <1>1 DEF GivenBack
<1>4. /\ history'.touched = history.touched \cup {<<b, s>> : b \in freed \cup {a}}
      /\ history'.used = history.used
  BY <1>1, <1>t DEF RowTypes
<1>5. /\ asset[a].state = "here" /\ asset'[a] = Reserve(a, Game[s])[a]
      /\ history.touched \subseteq history'.touched
      /\ history'.touched \subseteq Assets \X Scopes
  <2>1. asset[a].state = "here" /\ asset'[a] = Reserve(a, Game[s])[a]
    BY <1>1 DEF Eligible, Usable
  <2>2. freed \subseteq Assets /\ history.touched \subseteq Assets \X Scopes
    BY <1>t DEF RowTypes
  <2> QED BY <2>1, <2>2, <1>4
<1> HIDE DEF freed, old
<1> QED BY <1>1, <1>2, <1>3, <1>4, <1>5

LEMMA RerenderTypes ==
    ASSUME TypeInv, NEW s \in Scopes, Rerender(s)
    PROVE  RowTypes'
<1> USE DEF RowTypes
<1>0. RowTypes
  BY Types
<1>1. PICK a \in Assets :
         /\ asset' \in [Assets -> Asset]
         /\ pref' = [pref EXCEPT ![s] = [mode |-> "manual", asset |-> a, once |-> FALSE]]
         /\ history.touched \subseteq history'.touched /\ history'.used = history.used
         /\ history'.touched \subseteq Assets \X Scopes
         /\ post' = [post EXCEPT ![s].asset = a]
         /\ job' = [job EXCEPT ![s] = [phase |-> "rerendering", manual |-> TRUE, seen |-> asset'[a]]]
  BY RerenderRows
<1>2. pref' \in [Scopes -> Preference]
  BY <1>0, <1>1 DEF Preference, AssetOrNone
<1>3. post' \in [Scopes -> Post] /\ job' \in [Scopes -> Job]
  <2>1. post' \in [Scopes -> Post]
    BY <1>0, <1>1 DEF Post, AssetOrNone
  <2>2. asset'[a] \in Asset
    BY <1>1
  <2>3. job' \in [Scopes -> Job]
    BY <1>0, <1>1, <2>2 DEF Job
  <2> QED BY <2>1, <2>3
<1>4. \A t \in Scopes : job'[t].phase # "idle" \/ post'[t].done => post'[t].asset # None
  BY <1>0, <1>1, MediaAssumption DEF Post, Job
<1> QED BY <1>0, <1>1, <1>2, <1>3, <1>4 DEF Rerender

\* The photo of a finished job: its reservation is gone, unless the post had used it.
LEMMA FinishRows ==
    ASSUME TypeInv, NEW s \in Scopes, Finish(s)
    PROVE  LET a == post[s].asset IN
           /\ a \in Assets
           /\ asset' \in [Assets -> Asset]
           /\ \A b \in Assets \ {a} : asset'[b] = asset[b]
           /\ asset'[a] = [asset[a] EXCEPT
                 !.reserved = IF a \notin post[s].marked /\ job[s].seen.reserved = Game[s]
                              THEN None ELSE asset[a].reserved,
                 !.automatic = asset'[a].automatic]
<1> DEFINE a == post[s].asset
<1>0. RowTypes
  BY Types
<1>1. a \in Assets
  BY <1>0 DEF Finish, RowTypes, Post, AssetOrNone
<1>2. asset' = mark_asset_used(a, s)
  BY DEF Finish
<1>3. CASE a \in post[s].marked
  BY <1>0, <1>1, <1>2, <1>3 DEF mark_asset_used, RowTypes, Asset
<1>4. CASE a \notin post[s].marked
  <2>1. PICK r, m : /\ r = IF job[s].seen.reserved = Game[s] THEN None ELSE asset[a].reserved
                    /\ m = IF job[s].seen.automatic THEN FALSE ELSE asset[a].automatic
    OBVIOUS
  <2>2. r \in Games \cup {None} /\ m \in BOOLEAN
    BY <2>1, <1>0, <1>1 DEF RowTypes, Asset
  <2>3. asset' = [asset EXCEPT ![a].reserved = r, ![a].automatic = m]
    BY <1>2, <1>4, <2>1, <1>0, <1>1 DEF mark_asset_used, RowTypes
  <2>4. asset' \in [Assets -> Asset] /\ asset'[a].automatic = m
    BY <2>2, <2>3, <1>0, <1>1 DEF RowTypes, Asset
  <2>5. asset'[a] = [asset[a] EXCEPT !.reserved = r, !.automatic = asset'[a].automatic]
    BY <2>2, <2>3, <2>4, <1>0, <1>1 DEF RowTypes, Asset
  <2>6. \A b \in Assets \ {a} : asset'[b] = asset[b]
    BY <2>3, <1>0 DEF RowTypes
  <2> QED BY <1>1, <1>4, <2>1, <2>4, <2>5, <2>6
<1> QED BY <1>3, <1>4

LEMMA FinishTypes ==
    ASSUME TypeInv, NEW s \in Scopes, Finish(s)
    PROVE  RowTypes'
<1> USE DEF RowTypes
<1>0. RowTypes
  BY Types
<1>1. PICK a : a = post[s].asset
  OBVIOUS
<1>2. a \in Assets /\ asset' \in [Assets -> Asset]
  BY <1>1, FinishRows
<1>3. /\ history'.touched = history.touched \cup {<<a, s>>}
      /\ history'.used = history.used \cup {<<a, s>>}
      /\ post' = [post EXCEPT ![s].done = TRUE, ![s].marked = @ \cup {a}]
      /\ job' = [job EXCEPT ![s] = NoJob]
      /\ shown' = IF job[s].manual THEN shown ELSE [shown EXCEPT ![a] = @ \cup {Game[s]}]
  BY <1>1 DEF Finish
<1>4. post' \in [Scopes -> Post] /\ job' \in [Scopes -> Job]
  <2>1. NoJob \in Job
    BY DEF NoJob, Job, Asset
  <2> QED BY <1>0, <1>2, <1>3, <2>1 DEF Post
<1>5. shown' \in [Assets -> SUBSET Games]
  BY <1>0, <1>2, <1>3 DEF Games
<1>6. \A t \in Scopes : job'[t].phase # "idle" \/ post'[t].done => post'[t].asset # None
  BY <1>0, <1>1, <1>2, <1>3, MediaAssumption DEF Post, Job, NoJob
<1> QED BY <1>0, <1>2, <1>3, <1>4, <1>5, <1>6 DEF Finish

\* A choice: the photo chosen before is given back if it was reserved and not used.
LEMMA SelectRows ==
    ASSUME TypeInv, NEW s \in Scopes, NEW mode \in {"manual", "automatic"}, NEW a \in Assets,
           NEW once \in BOOLEAN, Select(s, mode, a, once)
    PROVE  LET old == pref[s].asset
               new == IF mode = "manual" THEN a ELSE None
               frees == old # None /\ old # new /\ asset[old].reserved = Game[s] /\ ~UsedBy(old, s)
           IN /\ asset' \in [Assets -> Asset]
              /\ \A b \in Assets : IF frees /\ b = old THEN GivenBack(b, s) ELSE asset'[b] = asset[b]
              /\ pref' = [pref EXCEPT ![s] = [mode |-> mode, asset |-> new, once |-> once /\ new # None]]
              /\ history.touched \subseteq history'.touched /\ history'.used = history.used
              /\ history'.touched \subseteq Assets \X Scopes
<1> DEFINE old == pref[s].asset
           new == IF mode = "manual" THEN a ELSE None
           frees == old # None /\ old # new /\ asset[old].reserved = Game[s] /\ ~UsedBy(old, s)
<1>t. RowTypes /\ old \in Assets \cup {None}
  BY Types DEF RowTypes, Preference, AssetOrNone
<1>1. /\ asset' = IF frees THEN Unreserve(old) ELSE asset
      /\ history' = IF frees THEN [history EXCEPT !.touched = @ \cup {<<old, s>>}] ELSE history
      /\ pref' = [pref EXCEPT ![s] = [mode |-> mode, asset |-> new, once |-> once /\ new # None]]
  BY DEF Select
<1>2. CASE frees
  <2>1. old \in Assets
    BY <1>t, <1>2
  <2>2. Game[s] \in Games
    BY DEF Games
  <2>3. asset' = [asset EXCEPT ![old] = Unreserve(old)[old]] /\ Unreserve(old)[old] \in Asset
    BY <1>1, <1>2, <2>1, <2>2, Rows
  <2>4. asset' \in [Assets -> Asset] /\ asset'[old] = Unreserve(old)[old]
        /\ \A b \in Assets \ {old} : asset'[b] = asset[b]
    BY <2>1, <2>3, <1>t DEF RowTypes
  <2>5. GivenBack(old, s)
    BY <1>2, <2>4 DEF GivenBack
  <2>6. history'.touched = history.touched \cup {<<old, s>>} /\ history'.used = history.used
    BY <1>1, <1>2, <1>t DEF RowTypes
  <2> QED BY <1>1, <1>2, <1>t, <2>1, <2>4, <2>5, <2>6 DEF RowTypes
<1>3. CASE ~frees
  BY <1>1, <1>3, <1>t DEF RowTypes
<1> QED BY <1>2, <1>3

LEMMA SelectTypes ==
    ASSUME TypeInv, NEW s \in Scopes, NEW mode \in {"manual", "automatic"}, NEW a \in Assets,
           NEW once \in BOOLEAN, Select(s, mode, a, once)
    PROVE  RowTypes'
<1>0. RowTypes
  BY Types
<1>1. PICK new \in Assets \cup {None} :
         pref' = [pref EXCEPT ![s] = [mode |-> mode, asset |-> new, once |-> once /\ new # None]]
  BY SelectRows
<1>2. pref' \in [Scopes -> Preference]
  BY <1>0, <1>1 DEF RowTypes, Preference, AssetOrNone
<1>3. /\ asset' \in [Assets -> Asset] /\ history'.used \subseteq history'.touched
      /\ history'.touched \subseteq Assets \X Scopes
  BY <1>0, SelectRows DEF RowTypes
<1> QED BY <1>0, <1>2, <1>3 DEF RowTypes, Select

\* The other requests about photos.
LEMMA OtherRowTypes ==
    ASSUME TypeInv,
           \/ \E s \in Scopes : Fail(s) \/ DeletePost(s)
           \/ \E a \in Assets : Toggle(a) \/ release_asset(a) \/ MoveToTeam(a) \/ Delete(a)
                                \/ UploadPhoto(a)
           \/ scan_media
    PROVE  RowTypes'
<1> USE DEF RowTypes
<1>0. RowTypes
  BY Types
<1>1. CASE \E s \in Scopes : Fail(s)
  <2>1. NoJob \in Job
    BY DEF NoJob, Job, Asset
  <2> QED BY <1>0, <1>1, <2>1 DEF Fail, NoJob
<1>2. CASE \E s \in Scopes : DeletePost(s)
  <2>1. NoPost \in Post
    BY DEF NoPost, Post, AssetOrNone
  <2> QED BY <1>0, <1>2, <2>1 DEF DeletePost, NoPost
<1>3. CASE \E a \in Assets : Toggle(a)
  <2>1. PICK a \in Assets : Toggle(a)
    BY <1>3
  <2>2. asset' \in [Assets -> Asset]
    BY ZenonT(40), <1>0, <2>1 DEF Toggle, Asset
  <2> QED BY <1>0, <2>1, <2>2 DEF Toggle
<1>4. CASE \E a \in Assets : release_asset(a)
  <2>1. PICK a \in Assets : release_asset(a)
    BY <1>4
  <2>2. asset' \in [Assets -> Asset]
    <3>1. [asset[a] EXCEPT !.reserved = None, !.uses = 0, !.automatic = TRUE] \in Asset
      <4>1. asset[a] \in Asset /\ 0 \in Nat /\ None \in Games \cup {None}
        BY <1>0
      <4> QED BY <4>1 DEF Asset
    <3>2. asset' = [asset EXCEPT ![a] = [asset[a] EXCEPT !.reserved = None, !.uses = 0,
                                                         !.automatic = TRUE]]
      BY <1>0, <2>1 DEF release_asset, Asset
    <3> QED BY <1>0, <3>1, <3>2
  <2>3. shown' \in [Assets -> SUBSET Games]
    BY <1>0, <2>1 DEF release_asset
  <2> QED BY <1>0, <2>1, <2>2, <2>3 DEF release_asset
<1>5. CASE \E a \in Assets : MoveToTeam(a)
  <2>1. PICK a \in Assets : MoveToTeam(a)
    BY <1>5
  <2>2. asset' \in [Assets -> Asset]
    BY <1>0, <2>1 DEF MoveToTeam, Asset
  <2> QED BY <1>0, <2>1, <2>2 DEF MoveToTeam
<1>6. CASE \E a \in Assets : Delete(a)
  <2>1. PICK a \in Assets : Delete(a)
    BY <1>6
  <2>2. asset' \in [Assets -> Asset]
    <3>1. PICK m : m = (asset[a].available /\ session[a] # "remove")
      OBVIOUS
    <3>2. m \in BOOLEAN
      BY <3>1, <1>0 DEF Asset
    <3>3. asset' = [asset EXCEPT ![a].state = "deleted", ![a].automatic = FALSE, ![a].available = m]
      BY <2>1, <3>1, <1>0 DEF Delete
    <3>4. [asset[a] EXCEPT !.state = "deleted", !.automatic = FALSE, !.available = m] \in Asset
      BY <1>0, <3>2 DEF Asset
    <3>5. asset' = [asset EXCEPT ![a] = [asset[a] EXCEPT !.state = "deleted", !.automatic = FALSE,
                                                         !.available = m]]
      BY <1>0, <3>3 DEF Asset
    <3> QED BY <1>0, <3>4, <3>5
  <2>3. pref' \in [Scopes -> Preference]
    BY <1>0, <2>1 DEF Delete, Preference, AssetOrNone
  <2> QED BY <1>0, <2>1, <2>2, <2>3 DEF Delete
<1>7. CASE \E a \in Assets : UploadPhoto(a)
  <2>1. PICK a \in Assets : UploadPhoto(a)
    BY <1>7
  <2>2. Arrived \in Asset
    BY DEF Arrived, Absent, Asset
  <2> QED BY <1>0, <2>1, <2>2 DEF UploadPhoto
<1>8. CASE scan_media
  <2>1. Arrived \in Asset
    BY DEF Arrived, Absent, Asset
  <2>2. ASSUME NEW a \in Assets
        PROVE  [asset[a] EXCEPT !.available = a \in file] \in Asset
    <3>1. (a \in file) \in BOOLEAN
      OBVIOUS
    <3>2. \A m \in BOOLEAN : [asset[a] EXCEPT !.available = m] \in Asset
      BY <1>0 DEF Asset
    <3> QED BY <3>1, <3>2
  <2> QED BY <1>0, <1>8, <2>1, <2>2 DEF scan_media
<1> QED BY <1>1, <1>2, <1>3, <1>4, <1>5, <1>6, <1>7, <1>8

LEMMA StoreTypesStep ==
    ASSUME StoreTypes,
           \/ \E a \in Assets : ReadDelete(a) \/ Delete(a) \/ UploadPhoto(a) \/ FolderChanges(a)
           \/ cleanup_expired_uploads
           \/ \E u \in Uploads :
                 \/ create_direct_upload(u) \/ (\E n \in 1..2 : PutContent(u, n)) \/ Expires(u)
                 \/ ReadComplete(u) \/ Complete(u)
    PROVE  StoreTypes'
<1> USE DEF StoreTypes
<1>1. CASE \E a \in Assets : ReadDelete(a) \/ Delete(a) \/ UploadPhoto(a) \/ FolderChanges(a)
  <2>1. PICK a \in Assets : ReadDelete(a) \/ Delete(a) \/ UploadPhoto(a) \/ FolderChanges(a)
    BY <1>1
  <2>2. CASE ReadDelete(a)
    BY <2>2 DEF ReadDelete, storage
  <2>3. CASE Delete(a)
    BY <2>3 DEF Delete, Objects
  <2>4. CASE UploadPhoto(a)
    BY <2>4 DEF UploadPhoto, Objects
  <2>5. CASE FolderChanges(a)
    BY <2>5 DEF FolderChanges
  <2> QED BY <2>1, <2>2, <2>3, <2>4, <2>5
<1>2. CASE cleanup_expired_uploads
  <2>1. upload' \in [Uploads -> Upload]
    BY ZenonT(40), <1>2 DEF cleanup_expired_uploads, Upload
  <2> QED BY <1>2, <2>1 DEF cleanup_expired_uploads
<1>3. CASE \E u \in Uploads :
                 \/ create_direct_upload(u) \/ (\E n \in 1..2 : PutContent(u, n)) \/ Expires(u)
                 \/ ReadComplete(u) \/ Complete(u)
  <2>1. PICK u \in Uploads :
                 \/ create_direct_upload(u) \/ (\E n \in 1..2 : PutContent(u, n)) \/ Expires(u)
                 \/ ReadComplete(u) \/ Complete(u)
    BY <1>3
  <2>2. CASE create_direct_upload(u)
    BY <2>2 DEF create_direct_upload, Upload
  <2>3. CASE \E n \in 1..2 : PutContent(u, n)
    <3>1. upload' \in [Uploads -> Upload]
      BY <2>3 DEF PutContent, Upload
    <3> QED BY <2>3, <3>1 DEF PutContent
  <2>4. CASE Expires(u)
    BY <2>4 DEF Expires, Upload
  <2>5. CASE ReadComplete(u)
    BY <2>5 DEF ReadComplete, storage
  <2>6. CASE Complete(u)
    <3>1. upload' \in [Uploads -> Upload]
      BY <2>6 DEF Complete, Upload
    <3>2. object' \in [Assets \cup Uploads -> Objects] /\ file' \subseteq Assets \cup Uploads
      BY <2>6 DEF Complete, Objects
    <3> QED BY <2>6, <3>1, <3>2 DEF Complete
  <2> QED BY <2>1, <2>2, <2>3, <2>4, <2>5, <2>6
<1> QED BY <1>1, <1>2, <1>3

\* The invariant of types.
LEMMA TypeStep == TypeInv /\ [Next]_vars => TypeInv'
<1> SUFFICES ASSUME TypeInv, [Next]_vars PROVE TypeInv'
  OBVIOUS
<1>0. RowTypes /\ StoreTypes /\ orders \in 0..MaxOrders
  BY Types
<1> SUFFICES RowTypes' /\ StoreTypes' /\ orders' \in 0..MaxOrders
  BY DEF TypeInv, TypeOK, RowTypes, StoreTypes
<1>1. CASE \E s \in Scopes :
             \/ Create(s) \/ Resume(s) \/ Rerender(s) \/ Finish(s) \/ Fail(s) \/ DeletePost(s)
             \/ \E a \in Assets, once \in BOOLEAN : Select(s, "manual", a, once)
             \/ \E a \in Assets : Select(s, "automatic", a, FALSE)
  <2>1. PICK s \in Scopes :
             \/ Create(s) \/ Resume(s) \/ Rerender(s) \/ Finish(s) \/ Fail(s) \/ DeletePost(s)
             \/ \E a \in Assets, once \in BOOLEAN : Select(s, "manual", a, once)
             \/ \E a \in Assets : Select(s, "automatic", a, FALSE)
    BY <1>1
  <2>2. UNCHANGED <<storage, session>> /\ (Order \/ UNCHANGED orders)
    BY <2>1 DEF Create, Resume, Rerender, Finish, Fail, DeletePost, Select
  <2>3. RowTypes'
    BY <1>0, <2>1, CreateTypes, ResumeTypes, RerenderTypes, FinishTypes, SelectTypes, OtherRowTypes
  <2> QED BY <1>0, <2>2, <2>3, StoreStays, Ordered
<1>2. CASE \E a \in Assets :
             \/ Toggle(a) \/ release_asset(a) \/ MoveToTeam(a) \/ ReadDelete(a) \/ Delete(a)
             \/ UploadPhoto(a) \/ FolderChanges(a)
  <2>1. PICK a \in Assets :
             \/ Toggle(a) \/ release_asset(a) \/ MoveToTeam(a) \/ ReadDelete(a) \/ Delete(a)
             \/ UploadPhoto(a) \/ FolderChanges(a)
    BY <1>2
  <2>2. CASE Toggle(a) \/ release_asset(a) \/ MoveToTeam(a)
    <3>1. UNCHANGED <<storage, session>> /\ Order
      BY <2>2 DEF Toggle, release_asset, MoveToTeam
    <3> QED BY <1>0, <2>2, <3>1, OtherRowTypes, StoreStays, Ordered
  <2>3. CASE ReadDelete(a) \/ FolderChanges(a)
    <3>1. UNCHANGED selection /\ Order
      BY <2>3 DEF ReadDelete, FolderChanges
    <3> QED BY <1>0, <2>3, <3>1, RowsStay, StoreTypesStep, Ordered
  <2>4. CASE Delete(a) \/ UploadPhoto(a)
    <3>1. UNCHANGED orders
      BY <2>4 DEF Delete, UploadPhoto
    <3> QED BY <1>0, <2>4, <3>1, OtherRowTypes, StoreTypesStep
  <2> QED BY <2>1, <2>2, <2>3, <2>4
<1>3. CASE scan_media
  <2>1. UNCHANGED <<storage, session, orders>>
    BY <1>3 DEF scan_media
  <2> QED BY <1>0, <1>3, <2>1, OtherRowTypes, StoreStays
<1>4. CASE \/ cleanup_expired_uploads
           \/ \E u \in Uploads :
                 \/ create_direct_upload(u) \/ (\E n \in 1..2 : PutContent(u, n)) \/ Expires(u)
                 \/ ReadComplete(u) \/ Complete(u)
  <2>1. UNCHANGED <<selection, orders>>
    BY <1>4 DEF cleanup_expired_uploads, create_direct_upload, PutContent, Expires, ReadComplete,
                Complete
  <2> QED BY <1>0, <1>4, <2>1, RowsStay, StoreTypesStep
<1>5. CASE UNCHANGED vars
  <2>1. UNCHANGED <<selection, storage, session, orders>>
    BY <1>5 DEF vars, selection, storage
  <2> QED BY <1>0, <2>1, RowsStay, StoreStays
<1> QED BY <1>1, <1>2, <1>3, <1>4, <1>5 DEF Next

LEMMA TypesHold == Spec => []TypeInv
  BY TypeInit, TypeStep, PTL DEF Spec

\* Every photo, post, job, upload and file has its type.
THEOREM TypeCorrect == Spec => []TypeOK
<1>1. TypeInv => TypeOK
  BY DEF TypeInv
<1> QED BY <1>1, TypesHold, PTL

-----------------------------------------------------------------------------
(* Files                                                                   *)

Careful == "delete" \notin Perils /\ "complete" \notin Perils

LEMMA FilesInit == Init => FilesInv
<1> SUFFICES ASSUME Init PROVE FilesInv
  OBVIOUS
<1>1. \A a \in Assets : PhotoKept(a)
  BY DEF Init, PhotoKept, Absent, Counted
<1>2. \A u \in Uploads : UploadKept(u)
  BY DEF Init, UploadKept
<1> QED BY <1>1, <1>2, MediaAssumption DEF Init, FilesInv

\* Requests that leave the storage alone reserve only what is there.
LEMMA PhotosStay ==
    ASSUME FilesInv, UNCHANGED <<storage, session>>,
           \A a \in Assets \ External :
              /\ asset'[a].available = asset[a].available
              /\ asset'[a].reserved # None => asset'[a].state = "here"
              /\ asset'[a].state = asset[a].state
                 \/ {asset[a].state, asset'[a].state} \subseteq {"here", "moved"}
    PROVE  FilesInv'
<1>1. \A a \in Assets \ External : PhotoKept(a)'
  BY DEF FilesInv, PhotoKept, Counted, storage
<1>2. \A u \in Uploads : UploadKept(u)'
  BY DEF FilesInv, UploadKept, storage
<1> QED BY <1>1, <1>2 DEF FilesInv, storage

\* What is given back, or reserved while it is there, is where it was.
LEMMA GivenBackRow ==
    ASSUME TypeInv, NEW b \in Assets, NEW s \in Scopes, GivenBack(b, s)
    PROVE  /\ asset'[b].state = asset[b].state /\ asset'[b].available = asset[b].available
           /\ asset'[b].automatic = asset[b].automatic /\ asset'[b].reserved = None
           /\ asset'[b].uses = IF asset[b].uses > 0 THEN asset[b].uses - 1 ELSE 0
<1>1. asset[b] \in Asset /\ Game[s] \in Games
  BY Types DEF RowTypes, Games
<1>2. asset'[b] = [asset[b] EXCEPT !.reserved = None, !.uses = Unreserve(b)[b].uses]
  BY <1>1, Rows DEF GivenBack
<1>3. Unreserve(b)[b].uses = IF asset[b].uses > 0 THEN asset[b].uses - 1 ELSE 0
  BY <1>1, Rows
<1> QED BY <1>1, <1>2, <1>3 DEF Asset

LEMMA ReservedRow ==
    ASSUME TypeInv, NEW a \in Assets, NEW s \in Scopes, asset'[a] = Reserve(a, Game[s])[a]
    PROVE  /\ asset'[a].state = asset[a].state /\ asset'[a].available = asset[a].available
           /\ asset'[a].automatic = asset[a].automatic /\ asset'[a].reserved = Game[s]
           /\ asset'[a].uses = asset[a].uses + 1
<1>1. asset[a] \in Asset /\ Game[s] \in Games
  BY Types DEF RowTypes, Games
<1>2. asset'[a] = [asset[a] EXCEPT !.reserved = Game[s], !.uses = asset[a].uses + 1]
  BY <1>1, Rows
<1> QED BY <1>1, <1>2 DEF Asset

LEMMA ChoiceFiles ==
    ASSUME TypeInv, FilesInv, NEW s \in Scopes,
           \/ Create(s) \/ Resume(s) \/ Rerender(s) \/ Finish(s) \/ Fail(s) \/ DeletePost(s)
           \/ \E a \in Assets, once \in BOOLEAN : Select(s, "manual", a, once)
           \/ \E a \in Assets : Select(s, "automatic", a, FALSE)
    PROVE  FilesInv'
<1>0. /\ RowTypes /\ UNCHANGED <<storage, session>>
      /\ \A b \in Assets \ External : asset[b].reserved # None => asset[b].state = "here"
  BY Types DEF Create, Resume, Rerender, Finish, Fail, DeletePost, Select, FilesInv, PhotoKept
<1> DEFINE Stays(b) == /\ asset'[b].available = asset[b].available
                       /\ asset'[b].reserved # None => asset'[b].state = "here"
                       /\ asset'[b].state = asset[b].state
<1>1. \A b \in Assets \ External : asset'[b] = asset[b] \/ GivenBack(b, s) => Stays(b)
  BY <1>0, GivenBackRow
<1>2. ASSUME NEW a \in Assets, asset[a].state = "here", asset'[a] = Reserve(a, Game[s])[a]
      PROVE  Stays(a)
  BY <1>2, ReservedRow
<1> SUFFICES \A b \in Assets \ External : Stays(b)
  <2> HIDE DEF Stays
  <2>1. ASSUME \A b \in Assets \ External : Stays(b) PROVE FilesInv'
    BY <1>0, <2>1, PhotosStay DEF Stays
  <2> QED BY <2>1
<1> HIDE DEF Stays
<1>3. CASE Create(s)
  <2>1. PICK a \in Assets : reserve_media(s, a)
    BY <1>3 DEF Create
  <2>2. /\ asset[a].state = "here"
        /\ asset'[a] = asset[a] \/ asset'[a] = Reserve(a, Game[s])[a]
        /\ \A b \in Assets \ {a} : asset'[b] = asset[b] \/ GivenBack(b, s)
    BY <2>1, Chosen
  <2> QED BY <1>1, <1>2, <2>2
<1>4. CASE Rerender(s)
  <2>1. PICK a \in Assets :
           /\ asset[a].state = "here" /\ asset'[a] = Reserve(a, Game[s])[a]
           /\ \A b \in Assets \ {a} : asset'[b] = asset[b] \/ GivenBack(b, s)
    BY <1>4, RerenderRows
  <2> QED BY <1>1, <1>2, <2>1
<1>5. CASE Finish(s)
  <2>1. PICK a : a = post[s].asset
    OBVIOUS
  <2>2. PICK r : r = IF a \notin post[s].marked /\ job[s].seen.reserved = Game[s]
                     THEN None ELSE asset[a].reserved
    OBVIOUS
  <2>3. /\ a \in Assets
        /\ \A b \in Assets \ {a} : asset'[b] = asset[b]
        /\ asset'[a] = [asset[a] EXCEPT !.reserved = r, !.automatic = asset'[a].automatic]
    BY <1>5, <2>1, <2>2, FinishRows
  <2>4. asset[a] \in Asset /\ r \in {None, asset[a].reserved}
    BY <1>0, <2>2, <2>3 DEF RowTypes
  <2>5. Stays(a) \/ a \in External
    BY <1>0, <2>3, <2>4 DEF Stays, Asset
  <2> QED BY <1>1, <2>3, <2>5
<1>6. CASE Resume(s) \/ Fail(s) \/ DeletePost(s)
  BY <1>1, <1>6 DEF Resume, Fail, DeletePost
<1>7. ASSUME NEW mode \in {"manual", "automatic"}, NEW a \in Assets, NEW once \in BOOLEAN,
             Select(s, mode, a, once)
      PROVE  \A b \in Assets \ External : Stays(b)
  <2>1. \A b \in Assets : asset'[b] = asset[b] \/ GivenBack(b, s)
    BY <1>7, SelectRows
  <2> QED BY <1>1, <2>1
<1> QED BY <1>3, <1>4, <1>5, <1>6, <1>7

\* A photo is deleted with its billing and, if it was removed, with its file.
LEMMA DeleteFiles ==
    ASSUME TypeInv, FilesInv, Careful, NEW a \in Assets, Delete(a)
    PROVE  FilesInv'
<1>0. RowTypes /\ StoreTypes /\ a \notin Uploads /\ External \subseteq Assets
  BY Types, MediaAssumption
<1>1. PICK gone \in BOOLEAN : gone = (session[a] = "remove")
  OBVIOUS
<1>2. /\ asset[a].reserved = None
      /\ object' = IF gone /\ object[a] = "live" THEN [object EXCEPT ![a] = "deleted"] ELSE object
      /\ file' = IF gone THEN file \ {a} ELSE file
      /\ session' = [session EXCEPT ![a] = None] /\ UNCHANGED upload
  BY <1>1 DEF Delete, Careful, Deletable
<1>3. /\ asset'[a].state = "deleted" /\ asset'[a].reserved = None
      /\ asset'[a].available = (asset[a].available /\ ~gone)
      /\ \A b \in Assets \ {a} : asset'[b] = asset[b]
  BY <1>0, <1>1, <1>2 DEF Delete, RowTypes, Asset
<1>4. \A b \in Assets \ External : PhotoKept(b)'
  <2>1. ASSUME NEW b \in Assets \ External, b # a PROVE PhotoKept(b)'
    BY <1>0, <1>2, <1>3, <2>1 DEF FilesInv, PhotoKept, Counted, StoreTypes
  <2>2. ASSUME a \notin External PROVE PhotoKept(a)'
    BY <1>0, <1>2, <1>3, <2>2 DEF FilesInv, PhotoKept, Counted, StoreTypes, RowTypes, Asset
  <2> QED BY <2>1, <2>2
<1>5. \A b \in External : object'[b] # "live"
  BY <1>0, <1>2 DEF FilesInv, StoreTypes
<1>6. \A u \in Uploads : UploadKept(u)'
  BY <1>0, <1>2 DEF FilesInv, UploadKept, StoreTypes
<1> QED BY <1>4, <1>5, <1>6 DEF FilesInv

\* The other requests about photos and their files.
LEMMA PhotoFiles ==
    ASSUME TypeInv, FilesInv,
           \/ \E a \in Assets : Toggle(a) \/ release_asset(a) \/ MoveToTeam(a) \/ ReadDelete(a)
                                \/ UploadPhoto(a) \/ FolderChanges(a)
           \/ scan_media
    PROVE  FilesInv'
<1>0. RowTypes /\ StoreTypes /\ Assets \cap Uploads = {} /\ External \subseteq Assets
  BY Types, MediaAssumption
<1>k. \A a \in Assets \ External : PhotoKept(a)
  BY DEF FilesInv
<1>1. ASSUME NEW a \in Assets, Toggle(a) PROVE FilesInv'
  BY <1>0, <1>k, <1>1, PhotosStay DEF Toggle, RowTypes, Asset, PhotoKept
<1>2. ASSUME NEW a \in Assets, release_asset(a) PROVE FilesInv'
  BY ZenonT(40), <1>0, <1>k, <1>2, PhotosStay DEF release_asset, RowTypes, Asset, PhotoKept
<1>3. ASSUME NEW a \in Assets, MoveToTeam(a) PROVE FilesInv'
  BY <1>0, <1>k, <1>3, PhotosStay DEF MoveToTeam, RowTypes, Asset, PhotoKept, Unused
<1>4. ASSUME NEW a \in Assets, ReadDelete(a) PROVE FilesInv'
  <2>1. UNCHANGED <<asset, upload, object, file>> /\ \A u \in Uploads : session'[u] = session[u]
    BY <1>0, <1>4 DEF ReadDelete, selection, storage, StoreTypes
  <2> QED BY <2>1 DEF FilesInv, PhotoKept, UploadKept, Counted
<1>5. ASSUME NEW a \in Assets, UploadPhoto(a) PROVE FilesInv'
  <2>1. /\ a \notin External /\ UNCHANGED <<upload, session>>
        /\ asset' = [asset EXCEPT ![a] = Arrived]
        /\ object' = [object EXCEPT ![a] = "live"] /\ file' = file \cup {a}
    BY <1>5 DEF UploadPhoto
  <2>2. \A b \in Assets \ External : PhotoKept(b)'
    BY <1>0, <1>k, <2>1 DEF PhotoKept, Counted, Arrived, Absent, RowTypes, StoreTypes
  <2>3. \A u \in Uploads : UploadKept(u)'
    BY <1>0, <2>1 DEF FilesInv, UploadKept, StoreTypes
  <2>4. \A b \in External : object'[b] # "live"
    BY <1>0, <2>1 DEF FilesInv, StoreTypes
  <2> QED BY <2>2, <2>3, <2>4 DEF FilesInv
<1>6. ASSUME NEW a \in Assets, FolderChanges(a) PROVE FilesInv'
  <2>1. /\ a \in External /\ UNCHANGED <<asset, upload, object, session>>
        /\ \A x : x # a => (x \in file' <=> x \in file)
    BY <1>6 DEF FolderChanges, selection
  <2>2. \A b \in Assets \ External : PhotoKept(b)'
    BY <1>k, <2>1 DEF PhotoKept, Counted
  <2>3. \A u \in Uploads : UploadKept(u)'
    BY <1>0, <2>1 DEF FilesInv, UploadKept
  <2> QED BY <2>1, <2>2, <2>3 DEF FilesInv
<1>7. ASSUME scan_media PROVE FilesInv'
  <2>1. UNCHANGED <<storage, session>> /\ \A a \in Assets \ External : asset'[a] = asset[a]
    BY <1>0, <1>7 DEF scan_media, RowTypes
  <2> QED BY <1>k, <2>1, PhotosStay DEF PhotoKept
<1> QED BY <1>1, <1>2, <1>3, <1>4, <1>5, <1>6, <1>7

\* A file under completion is committed or refused once; the clean-up takes those only
\* that have no object yet.
LEMMA UploadFiles ==
    ASSUME TypeInv, FilesInv, Careful,
           \/ cleanup_expired_uploads
           \/ \E u \in Uploads :
                 \/ create_direct_upload(u) \/ (\E n \in 1..2 : PutContent(u, n)) \/ Expires(u)
                 \/ ReadComplete(u) \/ Complete(u)
    PROVE  FilesInv'
<1>0. StoreTypes /\ Assets \cap Uploads = {} /\ External \subseteq Assets
  BY Types, MediaAssumption
<1>1. UNCHANGED asset
  BY DEF cleanup_expired_uploads, create_direct_upload, PutContent, Expires, ReadComplete, Complete,
         selection
<1>2. \A b \in Assets : object'[b] = object[b] /\ (b \in file' <=> b \in file)
  BY ZenonT(40), <1>0 DEF cleanup_expired_uploads, create_direct_upload, PutContent, Expires, ReadComplete,
              Complete, StoreTypes, storage
<1>3. (\A b \in Assets \ External : PhotoKept(b)') /\ \A b \in External : object'[b] # "live"
  BY <1>0, <1>1, <1>2 DEF FilesInv, PhotoKept, Counted
<1>k. \A u \in Uploads : UploadKept(u)
  BY DEF FilesInv
<1>4. CASE cleanup_expired_uploads
  BY ZenonT(40), <1>0, <1>3, <1>k, <1>4 DEF cleanup_expired_uploads, FilesInv, UploadKept, StoreTypes, Upload
<1>5. ASSUME NEW u \in Uploads, create_direct_upload(u) PROVE \A v \in Uploads : UploadKept(v)'
  BY <1>0, <1>k, <1>5 DEF create_direct_upload, UploadKept, StoreTypes, Upload
<1>6. ASSUME NEW u \in Uploads, NEW n \in 1..2, PutContent(u, n)
      PROVE  \A v \in Uploads : UploadKept(v)'
  BY <1>0, <1>k, <1>6 DEF PutContent, UploadKept, StoreTypes, Upload
<1>7. ASSUME NEW u \in Uploads, Expires(u) PROVE \A v \in Uploads : UploadKept(v)'
  BY <1>0, <1>k, <1>7 DEF Expires, UploadKept, StoreTypes, Upload
<1>8. ASSUME NEW u \in Uploads, ReadComplete(u) PROVE \A v \in Uploads : UploadKept(v)'
  BY <1>0, <1>k, <1>8 DEF ReadComplete, Careful, UploadKept, StoreTypes, storage
<1>9. ASSUME NEW u \in Uploads, Complete(u) PROVE \A v \in Uploads : UploadKept(v)'
  <2>1. /\ upload[u].status = "reserved" /\ session[u] = "one" /\ u \in file /\ object[u] = "none"
        /\ session' = [session EXCEPT ![u] = None]
    BY <1>0, <1>k, <1>9 DEF Complete, Careful, UploadKept, StoreTypes, Objects
  <2>2. CASE FitsLimit(u)
    <3>1. /\ object' = [object EXCEPT ![u] = "live"] /\ UNCHANGED file
          /\ upload' = [upload EXCEPT ![u].status = "completed", ![u].ledger = "committed"]
      BY <1>9, <2>1, <2>2 DEF Complete
    <3> QED BY <1>0, <1>k, <2>1, <3>1 DEF UploadKept, StoreTypes, Upload
  <2>3. CASE ~FitsLimit(u)
    <3>1. file' = file \ {u} /\ UNCHANGED <<object, upload>>
      BY <1>9, <2>3 DEF Complete
    <3> QED BY <1>0, <1>k, <2>1, <3>1 DEF UploadKept, StoreTypes
  <2> QED BY <2>2, <2>3
<1> QED BY <1>3, <1>4, <1>5, <1>6, <1>7, <1>8, <1>9 DEF FilesInv

LEMMA FilesStep == Careful /\ TypeInv /\ FilesInv /\ [Next]_vars => FilesInv'
<1> SUFFICES ASSUME Careful, TypeInv, FilesInv, [Next]_vars PROVE FilesInv'
  OBVIOUS
<1>1. CASE UNCHANGED vars
  BY <1>1 DEF vars, FilesInv, PhotoKept, UploadKept, Counted
<1>2. CASE Next
  BY <1>2, ChoiceFiles, DeleteFiles, PhotoFiles, UploadFiles DEF Next
<1> QED BY <1>1, <1>2

\* As long as deletions and completions are not overtaken, a reserved photo is there
\* with its file, and what is billed is stored (app/media/library.py soft_delete_asset,
\* app/storage/service.py).
THEOREM FilesAreKept == ASSUME Careful PROVE Spec => []FilesKept
<1>1. TypeInv /\ FilesInv => FilesKept
  <2> SUFFICES ASSUME TypeInv, FilesInv PROVE FilesKept
    OBVIOUS
  <2>1. \A a \in Assets \ External : PhotoKept(a)
    BY DEF FilesInv
  <2>2. ReservedIsKept
    BY <2>1 DEF ReservedIsKept, PhotoKept, Counted
  <2>3. BilledIsStored
    BY <2>1 DEF BilledIsStored, FilesInv, PhotoKept, UploadKept
  <2> QED BY <2>2, <2>3 DEF FilesKept
<1> QED BY <1>1, FilesInit, FilesStep, TypesHold, PTL DEF Spec

-----------------------------------------------------------------------------
(* The limit                                                               *)

\* What the bill counts: photos, units of uploads, and reservations.
Photos == {a \in Assets : object[a] = "live" \/ Counted(a)}
Units == {x \in Uploads \X (1..2) : object[x[1]] = "live" /\ x[2] <= upload[x[1]].size}
Holders == {u \in Uploads : upload[u].ledger = "reserved"}

LEMMA Billed ==
    /\ Committed = Cardinality(Photos) + Cardinality(Units)
    /\ Reserved = Cardinality(Holders)
    /\ Photos \subseteq Assets /\ Units \subseteq Uploads \X (1..2) /\ Holders \subseteq Uploads
  BY DEF Committed, Reserved, Photos, Units, Holders

\* Sets of photos, uploads and units are finite: a larger set has no fewer members, one
\* more member adds one, and taking a member away removes one.
LEMMA Countable ==
    ASSUME NEW T, T \subseteq Assets \/ T \subseteq Uploads \/ T \subseteq Uploads \X (1..2)
    PROVE  /\ IsFiniteSet(T) /\ Cardinality(T) \in Nat
           /\ \A R \in SUBSET T : IsFiniteSet(R) /\ Cardinality(R) \in Nat
                                  /\ Cardinality(R) <= Cardinality(T)
           /\ \A x : IsFiniteSet(T \cup {x}) /\ Cardinality(T \cup {x}) \in Nat
                     /\ Cardinality(T \cup {x}) <= Cardinality(T) + 1
           /\ \A x \in T : Cardinality(T \ {x}) = Cardinality(T) - 1
<1>1. IsFiniteSet(Uploads \X (1..2))
  <2>1. IsFiniteSet(1..2)
    <3>1. IsFiniteSet({1} \cup {2})
      BY FS_Singleton, FS_AddElement
    <3>2. 1..2 = {1} \cup {2}
      OBVIOUS
    <3> QED BY <3>1, <3>2
  <2> QED BY <2>1, MediaAssumption, FS_Product
<1>2. IsFiniteSet(T)
  BY <1>1, MediaAssumption, FS_Subset
<1>3. \A R \in SUBSET T : IsFiniteSet(R) /\ Cardinality(R) <= Cardinality(T)
  BY <1>2, FS_Subset
<1>4. \A x : IsFiniteSet(T \cup {x}) /\ (Cardinality(T \cup {x}) = IF x \in T THEN Cardinality(T)
                                                                   ELSE Cardinality(T) + 1)
  BY <1>2, FS_AddElement
<1>5. \A x \in T : Cardinality(T \ {x}) = Cardinality(T) - 1
  BY <1>2, FS_RemoveElement
<1>6. \A R : IsFiniteSet(R) => Cardinality(R) \in Nat
  BY FS_CardinalityType
<1>7. IsFiniteSet(T) /\ Cardinality(T) \in Nat
  BY <1>2, <1>6
<1>8. \A x : Cardinality(T \cup {x}) <= Cardinality(T) + 1
  BY <1>4, <1>7
<1> QED BY <1>3, <1>4, <1>5, <1>6, <1>7, <1>8

LEMMA UploadFits ==
    ASSUME TypeInv, NEW a \in Assets, UploadPhoto(a)
    PROVE  Committed' + Reserved' <= Limit
<1>0. RowTypes /\ StoreTypes /\ a \notin Uploads /\ Limit \in Nat
  BY Types, MediaAssumption
<1>1. Photos' \subseteq Photos \cup {a}
  BY <1>0 DEF UploadPhoto, Photos, Counted, RowTypes, StoreTypes
<1>2. Units' = Units /\ Holders' = Holders
  BY <1>0 DEF UploadPhoto, Units, Holders, StoreTypes
<1>3. Cardinality(Photos') <= Cardinality(Photos) + 1 /\ Cardinality(Photos') \in Nat
  <2>1. Photos \subseteq Assets /\ Photos \cup {a} \subseteq Assets
    BY Billed
  <2>2. /\ Cardinality(Photos) \in Nat /\ Cardinality(Photos \cup {a}) \in Nat
        /\ Cardinality(Photos \cup {a}) <= Cardinality(Photos) + 1
    BY <2>1, Countable
  <2>3. Cardinality(Photos') \in Nat /\ Cardinality(Photos') <= Cardinality(Photos \cup {a})
    BY <1>1, <2>1, Countable
  <2> QED BY <2>2, <2>3
<1>4. /\ Committed = Cardinality(Photos) + Cardinality(Units) /\ Reserved = Cardinality(Holders)
      /\ Committed' = Cardinality(Photos') + Cardinality(Units') /\ Reserved' = Cardinality(Holders')
  BY Billed DEF Committed, Reserved, Photos, Units, Holders
<1>5. Cardinality(Photos) \in Nat /\ Cardinality(Units) \in Nat /\ Cardinality(Holders) \in Nat
  BY Billed, Countable
<1>6. Committed + Reserved + 1 <= Limit
  BY DEF UploadPhoto
<1> QED BY <1>0, <1>2, <1>3, <1>4, <1>5, <1>6

LEMMA CreateFits ==
    ASSUME TypeInv, NEW u \in Uploads, create_direct_upload(u)
    PROVE  Committed' + Reserved' <= Limit
<1>0. StoreTypes /\ Limit \in Nat
  BY Types, MediaAssumption
<1>1. Photos' = Photos /\ Units' \subseteq Units /\ Holders' \subseteq Holders \cup {u}
  BY <1>0 DEF create_direct_upload, selection, Photos, Units, Holders, Counted, StoreTypes, Upload
<1>2. /\ Committed = Cardinality(Photos) + Cardinality(Units) /\ Reserved = Cardinality(Holders)
      /\ Committed' = Cardinality(Photos') + Cardinality(Units') /\ Reserved' = Cardinality(Holders')
  BY Billed DEF Committed, Reserved, Photos, Units, Holders
<1>3. /\ Cardinality(Photos) \in Nat /\ Cardinality(Units) \in Nat /\ Cardinality(Holders) \in Nat
      /\ Cardinality(Units') \in Nat /\ Cardinality(Units') <= Cardinality(Units)
  BY Billed, Countable, <1>1
<1>4. Cardinality(Holders') <= Cardinality(Holders) + 1 /\ Cardinality(Holders') \in Nat
  <2>1. Holders \subseteq Uploads /\ Holders \cup {u} \subseteq Uploads
    BY Billed
  <2>2. /\ Cardinality(Holders \cup {u}) \in Nat
        /\ Cardinality(Holders \cup {u}) <= Cardinality(Holders) + 1
    BY <2>1, Countable
  <2>3. Cardinality(Holders') \in Nat /\ Cardinality(Holders') <= Cardinality(Holders \cup {u})
    BY <1>1, <2>1, Countable
  <2> QED BY <1>3, <2>2, <2>3
<1>5. Committed + Reserved + 1 <= Limit
  BY DEF create_direct_upload
<1> QED BY <1>0, <1>1, <1>2, <1>3, <1>4, <1>5

\* A completion that fits replaces its reservation by the units of its file; one that
\* finds an object, or does not fit, commits nothing.
LEMMA CompleteFits ==
    ASSUME TypeInv, NEW u \in Uploads, Complete(u)
    PROVE  \/ Committed' + Reserved' <= Limit
           \/ UNCHANGED <<object, upload>>
<1>0. StoreTypes /\ Limit \in Nat
  BY Types, MediaAssumption
<1> SUFFICES ASSUME FitsLimit(u), object[u] = "none"
             PROVE  Committed' + Reserved' <= Limit
  BY DEF Complete
<1>1. /\ object' = [object EXCEPT ![u] = "live"] /\ UNCHANGED asset
      /\ upload' = [upload EXCEPT ![u].status = "completed", ![u].ledger = "committed"]
  BY DEF Complete, selection
<1>2. /\ Photos' \subseteq Photos /\ Holders' = Holders \ {u}
      /\ Units' \subseteq Units \cup {<<u, n>> : n \in {m \in 1..2 : m <= upload[u].size}}
  BY <1>0, <1>1, MediaAssumption DEF Photos, Holders, Units, Counted, StoreTypes, Upload
<1>3. /\ Committed = Cardinality(Photos) + Cardinality(Units) /\ Reserved = Cardinality(Holders)
      /\ Committed' = Cardinality(Photos') + Cardinality(Units') /\ Reserved' = Cardinality(Holders')
  BY Billed DEF Committed, Reserved, Photos, Units, Holders
<1>4. /\ Cardinality(Photos) \in Nat /\ Cardinality(Units) \in Nat /\ Cardinality(Holders) \in Nat
      /\ Cardinality(Photos') \in Nat /\ Cardinality(Photos') <= Cardinality(Photos)
      /\ Cardinality(Holders') = IF u \in Holders THEN Cardinality(Holders) - 1
                                 ELSE Cardinality(Holders)
  <2>1. u \notin Holders => Holders' = Holders
    BY <1>2
  <2> QED BY Billed, Countable, <1>2, <2>1
<1>5. Cardinality(Units') \in Nat /\ Cardinality(Units') <= Cardinality(Units) + upload[u].size
  <2>1. Units \subseteq Uploads \X (1..2) /\ Units' \subseteq Uploads \X (1..2)
    BY Billed DEF Units
  <2>2. upload[u].size \in 0..2
    BY <1>0 DEF StoreTypes, Upload
  <2>3. CASE upload[u].size = 0
    <3>1. Units' \subseteq Units
      BY <1>2, <2>3
    <3> QED BY <2>1, <2>3, <3>1, <1>4, Countable
  <2>4. CASE upload[u].size = 1
    <3>1. Units' \subseteq Units \cup {<<u, 1>>} /\ Units \cup {<<u, 1>>} \subseteq Uploads \X (1..2)
      BY <1>2, <2>1, <2>4
    <3>2. /\ Cardinality(Units \cup {<<u, 1>>}) \in Nat
          /\ Cardinality(Units \cup {<<u, 1>>}) <= Cardinality(Units) + 1
      BY <2>1, Countable
    <3>3. /\ Cardinality(Units') \in Nat
          /\ Cardinality(Units') <= Cardinality(Units \cup {<<u, 1>>})
      BY <3>1, Countable
    <3> QED BY <2>4, <3>2, <3>3, <1>4
  <2>5. CASE upload[u].size = 2
    <3>1. PICK T : T = Units \cup {<<u, 1>>}
      OBVIOUS
    <3>2. /\ T \subseteq Uploads \X (1..2) /\ T \cup {<<u, 2>>} \subseteq Uploads \X (1..2)
          /\ Units' \subseteq T \cup {<<u, 2>>}
      BY <1>2, <2>1, <2>5, <3>1
    <3>3. Cardinality(T) \in Nat /\ Cardinality(T) <= Cardinality(Units) + 1
      BY <2>1, <3>1, Countable
    <3>4. /\ Cardinality(T \cup {<<u, 2>>}) \in Nat
          /\ Cardinality(T \cup {<<u, 2>>}) <= Cardinality(T) + 1
      BY <3>2, Countable
    <3>5. /\ Cardinality(Units') \in Nat
          /\ Cardinality(Units') <= Cardinality(T \cup {<<u, 2>>})
      BY <3>2, Countable
    <3> QED BY <2>5, <3>3, <3>4, <3>5, <1>4
  <2> QED BY <2>2, <2>3, <2>4, <2>5
<1>6. Committed + Cardinality(Holders') + upload[u].size <= Limit
  <2>1. CASE u \in Holders
    <3>1. Cardinality(Holders') = Reserved - 1 /\ Reserved - 1 >= 0
      BY <2>1, <1>3, <1>4, Billed, Countable, <1>2
    <3>2. upload[u].ledger = "reserved"
      BY <2>1 DEF Holders
    <3> QED BY <3>1, <3>2 DEF FitsLimit
  <2>2. CASE u \notin Holders
    <3>1. Cardinality(Holders') = Reserved /\ Reserved >= 0 /\ Reserved \in Nat
      BY <2>2, <1>3, <1>4
    <3>2. upload[u].ledger # "reserved"
      BY <2>2 DEF Holders
    <3> QED BY <3>1, <3>2 DEF FitsLimit
  <2> QED BY <2>1, <2>2
<1>7. upload[u].size \in Nat
  BY <1>0 DEF StoreTypes, Upload
<1> QED BY <1>0, <1>3, <1>4, <1>5, <1>6, <1>7

\* Everything else releases reservations or leaves them, and makes no object.
LEMMA OthersReserveNothing ==
    ASSUME TypeInv, [Next]_vars,
           ~ \E a \in Assets : UploadPhoto(a),
           ~ \E u \in Uploads : create_direct_upload(u),
           \A u \in Uploads : Complete(u) => UNCHANGED <<object, upload>>
    PROVE  /\ Reserved' <= Reserved
           /\ \A x \in Assets \cup Uploads : object'[x] = "live" => object[x] = "live"
<1>0. StoreTypes
  BY Types
<1>1. \/ UNCHANGED storage
      \/ \E a \in Assets : Delete(a) \/ FolderChanges(a)
      \/ cleanup_expired_uploads
      \/ \E u \in Uploads : \/ \E n \in 1..2 : PutContent(u, n)
                           \/ Expires(u) \/ UNCHANGED <<object, upload>>
  <2>1. CASE UNCHANGED vars
    BY <2>1 DEF vars, storage
  <2>2. CASE \E s \in Scopes :
             \/ Create(s) \/ Resume(s) \/ Rerender(s) \/ Finish(s) \/ Fail(s) \/ DeletePost(s)
             \/ \E a \in Assets, once \in BOOLEAN : Select(s, "manual", a, once)
             \/ \E a \in Assets : Select(s, "automatic", a, FALSE)
    <3>1. PICK s \in Scopes :
             \/ Create(s) \/ Resume(s) \/ Rerender(s) \/ Finish(s) \/ Fail(s) \/ DeletePost(s)
             \/ \E a \in Assets, once \in BOOLEAN : Select(s, "manual", a, once)
             \/ \E a \in Assets : Select(s, "automatic", a, FALSE)
      BY <2>2
    <3>2. CASE Create(s) \/ Resume(s)
      BY <3>2 DEF Create, Resume
    <3>3. CASE Rerender(s)
      BY <3>3 DEF Rerender
    <3>4. CASE Finish(s) \/ Fail(s) \/ DeletePost(s)
      BY <3>4 DEF Finish, Fail, DeletePost
    <3>5. CASE \E mode \in {"manual", "automatic"}, a \in Assets, once \in BOOLEAN :
                  Select(s, mode, a, once)
      BY <3>5 DEF Select
    <3> QED BY <3>1, <3>2, <3>3, <3>4, <3>5
  <2>3. CASE \E a \in Assets :
             \/ Toggle(a) \/ release_asset(a) \/ MoveToTeam(a) \/ ReadDelete(a) \/ Delete(a)
             \/ UploadPhoto(a) \/ FolderChanges(a)
    BY <2>3 DEF Toggle, release_asset, MoveToTeam, ReadDelete
  <2>4. CASE scan_media \/ cleanup_expired_uploads
    BY <2>4 DEF scan_media
  <2>5. CASE \E u \in Uploads :
             \/ create_direct_upload(u) \/ (\E n \in 1..2 : PutContent(u, n)) \/ Expires(u)
             \/ ReadComplete(u) \/ Complete(u)
    BY <2>5 DEF ReadComplete
  <2> QED BY <2>1, <2>2, <2>3, <2>4, <2>5 DEF Next
<1>2. Holders' \subseteq Holders
  <2>1. CASE UNCHANGED upload
    BY <2>1 DEF Holders
  <2>2. CASE cleanup_expired_uploads
    BY <1>0, <2>2 DEF cleanup_expired_uploads, Holders, StoreTypes, Upload
  <2>3. CASE \E u \in Uploads : (\E n \in 1..2 : PutContent(u, n)) \/ Expires(u)
    <3>1. PICK u \in Uploads : (\E n \in 1..2 : PutContent(u, n)) \/ Expires(u)
      BY <2>3
    <3>2. \A v \in Uploads : upload'[v].ledger = upload[v].ledger
      BY <1>0, <3>1 DEF PutContent, Expires, StoreTypes, Upload
    <3> QED BY <3>2 DEF Holders
  <2> QED BY <1>1, <2>1, <2>2, <2>3 DEF storage, Delete, FolderChanges
<1>3. Reserved = Cardinality(Holders) /\ Reserved' = Cardinality(Holders')
  BY DEF Reserved, Holders
<1>4. \A x \in Assets \cup Uploads : object'[x] = "live" => object[x] = "live"
  <2>1. ASSUME NEW a \in Assets, Delete(a)
        PROVE  \A x \in Assets \cup Uploads : object'[x] = "live" => object[x] = "live"
    BY <1>0, <2>1 DEF Delete, StoreTypes
  <2> QED BY <1>1, <2>1 DEF storage, FolderChanges, cleanup_expired_uploads, PutContent, Expires
<1> QED BY <1>2, <1>3, <1>4, Billed, Countable

\* No reservation, upload or completion takes the club beyond its limit, not even with
\* completions and deletions that overtake each other (app/storage/service.py).
THEOREM LimitHolds == Spec => WithinLimit
<1> DEFINE New == Reserved' > Reserved \/ \E x \in Assets \cup Uploads :
                                             object[x] # "live" /\ object'[x] = "live"
           Fit == Committed' + Reserved' <= Limit
<1>1. TypeInv /\ [Next]_vars => [New => Fit]_vars
  <2> SUFFICES ASSUME TypeInv, [Next]_vars, New PROVE Fit
    OBVIOUS
  <2>1. ~ (/\ Reserved' <= Reserved
           /\ \A x \in Assets \cup Uploads : object'[x] = "live" => object[x] = "live")
    <3>1. Reserved \in Nat /\ Reserved' \in Nat
      BY Billed, Countable DEF Reserved
    <3> QED BY <3>1
  <2>2. \/ \E a \in Assets : UploadPhoto(a)
        \/ \E u \in Uploads : create_direct_upload(u)
        \/ \E u \in Uploads : Complete(u) /\ ~ UNCHANGED <<object, upload>>
    BY <2>1, OthersReserveNothing
  <2> QED BY <2>2, UploadFits, CreateFits, CompleteFits
<1> QED BY <1>1, TypesHold, PTL DEF Spec, WithinLimit

-----------------------------------------------------------------------------
(* Photos shown once                                                       *)

\* One contribution for each game; what was read is still so when it is used, and a
\* choice once used is not taken back.
OneEach == \A s, t \in Scopes : Game[s] = Game[t] => s = t
Deliberated == {"delete", "select", "again"} \cap Perils = {}

LEMMA PhotoInit == Init => PhotoInv
  BY DEF Init, PhotoInv, UsesCounted, UseCounted, JobsHold, PhotoHeld, OnlyDeliberately, Deliberate,
         JobsAlone, JobAlone, ShownOnce, Absent, NoPost, NoJob, Unfinished

LEMMA GamesAreSome == ASSUME NEW s \in Scopes PROVE Game[s] \in Games /\ Game[s] # None
  BY MediaAssumption DEF Games

\* What a step does to a row as far as its reservation goes: it leaves the row, gives it
\* back for scope s, or takes it for scope s.
Left(c) == /\ asset'[c].reserved = asset[c].reserved /\ asset'[c].uses = asset[c].uses
           /\ asset'[c].state = "absent" => asset[c].state = "absent"
Taking(c, s) == /\ asset[c].state = "here" /\ asset[c].reserved = None
                /\ asset'[c] = Reserve(c, Game[s])[c]

\* A step of scope s disturbs no other game.
LEMMA OthersStay ==
    ASSUME OneEach, TypeInv, PhotoInv, NEW s \in Scopes,
           shown' = shown, history'.used = history.used,
           \A t \in Scopes \ {s} : post'[t] = post[t] /\ job'[t] = job[t] /\ pref'[t] = pref[t],
           \A c \in Assets : Left(c) \/ GivenBack(c, s) \/ Taking(c, s)
    PROVE  /\ UsesCounted' /\ ShownOnce'
           /\ \A t \in Scopes \ {s} : PhotoHeld(t)' /\ JobAlone(t)'
           /\ \A t \in Scopes \ {s}, c \in Assets : Deliberate(t, c)'
<1>0. RowTypes /\ \A t \in Scopes : Game[t] \in Games /\ Game[t] # None
  BY Types, GamesAreSome
<1>1. \A c \in Assets : asset[c].uses \in Nat
  BY <1>0 DEF RowTypes, Asset
<1>2. \A c \in Assets : GivenBack(c, s) =>
         /\ asset[c].reserved = Game[s] /\ ~UsedBy(c, s)
         /\ asset'[c].state = asset[c].state /\ asset'[c].reserved = None
         /\ asset'[c].uses = IF asset[c].uses > 0 THEN asset[c].uses - 1 ELSE 0
  BY GivenBackRow DEF GivenBack
<1>3. \A c \in Assets : Taking(c, s) =>
         /\ asset[c].state = "here" /\ asset[c].reserved = None
         /\ asset'[c].state = asset[c].state /\ asset'[c].reserved = Game[s]
         /\ asset'[c].uses = asset[c].uses + 1
  BY ReservedRow DEF Taking
<1>4. ASSUME NEW c \in Assets PROVE UseCounted(c)'
  <2>1. UseCounted(c)
    BY DEF PhotoInv, UsesCounted
  <2>2. CASE Left(c)
    BY <2>1, <2>2 DEF Left, UseCounted, UsedBy
  <2>3. CASE GivenBack(c, s)
    <3>1. /\ asset[c].reserved = Game[s] /\ ~UsedBy(c, s) /\ asset'[c].reserved = None
          /\ asset'[c].state = asset[c].state
          /\ asset'[c].uses = IF asset[c].uses > 0 THEN asset[c].uses - 1 ELSE 0
      BY <1>2, <2>3
    <3>2. asset[c].state # "absent" /\ (shown[c] # {} => asset[c].uses >= 2)
      BY <1>0, <2>1, <3>1 DEF UseCounted
    <3>3. shown[c] # {} => asset'[c].uses >= 1
      BY <1>1, <3>1, <3>2
    <3> QED BY <1>0, <3>1, <3>2, <3>3 DEF UseCounted
  <2>4. CASE Taking(c, s)
    BY <1>0, <1>1, <1>3, <2>1, <2>4 DEF UseCounted, UsedBy
  <2> QED BY <2>2, <2>3, <2>4
<1>5. ASSUME NEW t \in Scopes \ {s}, NEW c \in Assets, asset[c].reserved = Game[t]
      PROVE  Left(c)
  BY <1>0, <1>2, <1>3, <1>5 DEF OneEach
<1>6. ASSUME NEW t \in Scopes \ {s} PROVE PhotoHeld(t)'
  <2>1. PhotoHeld(t) /\ (Unfinished(t)' <=> Unfinished(t))
    BY DEF PhotoInv, JobsHold, Unfinished
  <2>2. Unfinished(t) => post[t].asset \in Assets
    BY <1>0 DEF Unfinished, RowTypes, Post, AssetOrNone
  <2> QED BY <2>1, <2>2, <1>5 DEF PhotoHeld, Left
<1>7. ASSUME NEW t \in Scopes \ {s}, NEW c \in Assets PROVE Deliberate(t, c)'
  <2>1. Deliberate(t, c)
    BY DEF PhotoInv, OnlyDeliberately
  <2>2. asset'[c].reserved = Game[t] => asset[c].reserved = Game[t]
    BY <1>0, <1>2, <1>3 DEF OneEach, Left
  <2> QED BY <2>1, <2>2 DEF Deliberate
<1>8. \A t \in Scopes \ {s} : JobAlone(t)'
  BY DEF PhotoInv, JobsAlone, JobAlone
<1> QED BY <1>4, <1>6, <1>7, <1>8 DEF PhotoInv, UsesCounted, ShownOnce

\* ... and is in order if it leaves its own game in order.
LEMMA ScopeStep ==
    ASSUME OneEach, TypeInv, PhotoInv, NEW s \in Scopes,
           shown' = shown, history'.used = history.used,
           \A t \in Scopes \ {s} : post'[t] = post[t] /\ job'[t] = job[t] /\ pref'[t] = pref[t],
           \A c \in Assets : Left(c) \/ GivenBack(c, s) \/ Taking(c, s),
           PhotoHeld(s)', JobAlone(s)', \A c \in Assets : Deliberate(s, c)'
    PROVE  PhotoInv'
  BY OthersStay DEF PhotoInv, JobsHold, JobsAlone, OnlyDeliberately

LEMMA CreateOnce ==
    ASSUME OneEach, TypeInv, PhotoInv, NEW s \in Scopes, Create(s)
    PROVE  PhotoInv'
<1>0. /\ RowTypes /\ Game[s] \in Games /\ Game[s] # None
      /\ PhotoHeld(s) /\ \A c \in Assets : Deliberate(s, c) /\ UseCounted(c)
  BY Types, GamesAreSome DEF PhotoInv, JobsHold, OnlyDeliberately, UsesCounted
<1>1. PICK a \in Assets :
         /\ reserve_media(s, a)
         /\ post' = [post EXCEPT ![s].asset = a]
         /\ job' = [job EXCEPT ![s] = [phase |-> "creating", manual |-> pref[s].mode = "manual",
                                      seen |-> asset'[a]]]
  BY DEF Create
<1>2. job[s].phase = "idle" /\ post[s].asset = None /\ UNCHANGED shown
  BY DEF Create
<1>3. /\ asset[a].state = "here"
      /\ \/ asset[a].reserved = Game[s] /\ asset'[a] = asset[a]
         \/ Taking(a, s) /\ (pref[s].mode = "manual" \/ asset[a].uses = 0)
      /\ \A b \in Assets \ {a} : asset'[b] = asset[b] \/ GivenBack(b, s)
      /\ pref[s].mode = "manual" => pref' = pref /\ pref[s].asset = a
      /\ pref[s].mode # "manual" =>
            /\ pref' = [pref EXCEPT ![s] = pref'[s]]
            /\ pref'[s].mode = "automatic" /\ pref'[s].asset = a
      /\ history'.used = history.used
  BY <1>1, Chosen DEF Taking
<1>4. \A c \in Assets : Left(c) \/ GivenBack(c, s) \/ Taking(c, s)
  BY <1>3 DEF Left
<1>5. asset'[a].reserved = Game[s]
  BY <1>3, ReservedRow DEF Taking
<1>6. /\ post'[s].asset = a /\ ~post[s].done /\ ~post'[s].done
      /\ post'[s].marked = post[s].marked /\ post[s].marked = {}
      /\ job'[s].phase = "creating" /\ job'[s].manual = (pref[s].mode = "manual")
      /\ job'[s].seen = asset'[a]
      /\ \A t \in Scopes \ {s} : post'[t] = post[t] /\ job'[t] = job[t] /\ pref'[t] = pref[t]
  BY <1>0, <1>1, <1>2, <1>3 DEF RowTypes, Post, PhotoHeld
<1>7. PhotoHeld(s)'
  BY <1>3, <1>5, <1>6 DEF PhotoHeld
<1>8. asset[a].reserved = Game[s] \/ asset[a].uses = 0 \/ pref[s].mode = "manual"
  BY <1>3
<1>9. pref[s].mode # "manual" => shown[a] \subseteq {Game[s]}
  <2>1. CASE asset[a].reserved = Game[s]
    BY <1>0, <2>1 DEF Deliberate
  <2>2. CASE asset[a].uses = 0
    BY <1>0, <2>2 DEF UseCounted
  <2> QED BY <1>8, <2>1, <2>2
<1>10. JobAlone(s)'
  BY <1>2, <1>6, <1>9 DEF JobAlone
<1>11. ASSUME NEW c \in Assets PROVE Deliberate(s, c)'
  <2>1. CASE c = a
    BY <1>2, <1>3, <1>6, <1>9, <2>1 DEF Deliberate
  <2>2. CASE c # a /\ asset'[c] = asset[c]
    BY <1>0, <1>2, <1>3, <1>6, <2>2 DEF Deliberate
  <2>3. CASE c # a /\ GivenBack(c, s)
    BY <1>0, <2>3, GivenBackRow DEF Deliberate
  <2> QED BY <1>3, <2>1, <2>2, <2>3
<1> QED BY <1>2, <1>3, <1>4, <1>6, <1>7, <1>10, <1>11, ScopeStep

LEMMA ResumeOnce ==
    ASSUME OneEach, TypeInv, PhotoInv, NEW s \in Scopes, Resume(s)
    PROVE  PhotoInv'
<1>0. /\ RowTypes /\ PhotoHeld(s) /\ \A c \in Assets : Deliberate(s, c)
  BY Types DEF PhotoInv, JobsHold, OnlyDeliberately
<1>1. /\ job[s].phase = "idle" /\ post[s].asset # None /\ ~post[s].done
      /\ job' = [job EXCEPT ![s] = [phase |-> "creating", manual |-> pref[s].mode = "manual",
                                   seen |-> asset[post[s].asset]]]
      /\ UNCHANGED <<asset, pref, history, post, shown>>
  BY DEF Resume
<1>2. post[s].asset \in Assets /\ asset[post[s].asset].reserved = Game[s]
  BY <1>0, <1>1 DEF PhotoHeld, Unfinished, RowTypes, Post, AssetOrNone
<1>3. /\ job'[s].phase = "creating" /\ job'[s].manual = (pref[s].mode = "manual")
      /\ job'[s].seen = asset[post[s].asset] /\ \A t \in Scopes \ {s} : job'[t] = job[t]
  BY <1>0, <1>1 DEF RowTypes
<1>4. PhotoHeld(s)'
  BY <1>0, <1>1, <1>2, <1>3 DEF PhotoHeld
<1>5. JobAlone(s)'
  BY <1>0, <1>1, <1>2, <1>3 DEF JobAlone, Deliberate
<1>6. \A c \in Assets : Deliberate(s, c)' /\ Left(c)
  BY <1>0, <1>1 DEF Deliberate, Left
<1> QED BY <1>1, <1>3, <1>4, <1>5, <1>6, ScopeStep

LEMMA RerenderOnce ==
    ASSUME OneEach, TypeInv, PhotoInv, NEW s \in Scopes, Rerender(s)
    PROVE  PhotoInv'
<1>0. /\ RowTypes /\ Game[s] \in Games /\ Game[s] # None
      /\ PhotoHeld(s) /\ \A c \in Assets : Deliberate(s, c) /\ UseCounted(c)
  BY Types, GamesAreSome DEF PhotoInv, JobsHold, OnlyDeliberately, UsesCounted
<1>1. PICK a \in Assets :
         /\ asset[a].state = "here" /\ asset[a].uses = 0
         /\ asset[a].reserved \in {None, Game[s]} /\ asset'[a] = Reserve(a, Game[s])[a]
         /\ \A b \in Assets \ {a} : asset'[b] = asset[b] \/ GivenBack(b, s)
         /\ pref' = [pref EXCEPT ![s] = [mode |-> "manual", asset |-> a, once |-> FALSE]]
         /\ history'.used = history.used
         /\ post' = [post EXCEPT ![s].asset = a]
         /\ job' = [job EXCEPT ![s] = [phase |-> "rerendering", manual |-> TRUE, seen |-> asset'[a]]]
  BY RerenderRows
<1>2. job[s].phase = "idle" /\ post[s].done /\ UNCHANGED shown
  BY DEF Rerender
<1>3. asset[a].reserved = None /\ shown[a] = {}
  BY <1>0, <1>1 DEF UseCounted
<1>4. \A c \in Assets : Left(c) \/ GivenBack(c, s) \/ Taking(c, s)
  BY <1>1, <1>3 DEF Left, Taking
<1>5. asset'[a].reserved = Game[s]
  BY <1>1, ReservedRow
<1>6. /\ post'[s].asset = a /\ post'[s].done
      /\ job'[s].phase = "rerendering" /\ job'[s].seen = asset'[a]
      /\ \A t \in Scopes \ {s} : post'[t] = post[t] /\ job'[t] = job[t] /\ pref'[t] = pref[t]
  BY <1>0, <1>1, <1>2 DEF RowTypes, Post
<1>7. PhotoHeld(s)'
  BY <1>5, <1>6 DEF PhotoHeld
<1>8. JobAlone(s)'
  BY <1>2, <1>3, <1>6 DEF JobAlone
<1>9. ASSUME NEW c \in Assets PROVE Deliberate(s, c)'
  <2>1. CASE c = a
    BY <1>2, <1>3, <2>1 DEF Deliberate
  <2>2. CASE c # a /\ asset'[c] = asset[c]
    BY <1>0, <1>2, <2>2 DEF Deliberate
  <2>3. CASE c # a /\ GivenBack(c, s)
    BY <1>0, <2>3, GivenBackRow DEF Deliberate
  <2> QED BY <1>1, <2>1, <2>2, <2>3
<1> QED BY <1>1, <1>2, <1>4, <1>6, <1>7, <1>8, <1>9, ScopeStep

LEMMA SelectOnce ==
    ASSUME OneEach, Deliberated, TypeInv, PhotoInv, NEW s \in Scopes,
           NEW mode \in {"manual", "automatic"}, NEW a \in Assets, NEW once \in BOOLEAN,
           Select(s, mode, a, once)
    PROVE  PhotoInv'
<1>0. /\ RowTypes /\ Game[s] # None /\ a # None
      /\ PhotoHeld(s) /\ \A c \in Assets : Deliberate(s, c)
      /\ JobAlone(s)
  BY Types, GamesAreSome, MediaAssumption DEF PhotoInv, JobsHold, OnlyDeliberately, JobsAlone
<1>1. PICK old, new : old = pref[s].asset /\ new = IF mode = "manual" THEN a ELSE None
  OBVIOUS
<1>2. PICK frees \in BOOLEAN :
         frees = (old # None /\ old # new /\ asset[old].reserved = Game[s] /\ ~UsedBy(old, s))
  OBVIOUS
<1>3. /\ \A b \in Assets : IF frees /\ b = old THEN GivenBack(b, s) ELSE asset'[b] = asset[b]
      /\ pref' = [pref EXCEPT ![s] = [mode |-> mode, asset |-> new, once |-> once /\ new # None]]
      /\ history'.used = history.used
  <2>1. /\ \A b \in Assets :
             IF /\ pref[s].asset # None /\ pref[s].asset # (IF mode = "manual" THEN a ELSE None)
                /\ asset[pref[s].asset].reserved = Game[s] /\ ~UsedBy(pref[s].asset, s)
                /\ b = pref[s].asset
             THEN GivenBack(b, s) ELSE asset'[b] = asset[b]
        /\ pref' = [pref EXCEPT ![s] =
                       [mode |-> mode, asset |-> IF mode = "manual" THEN a ELSE None,
                        once |-> once /\ (IF mode = "manual" THEN a ELSE None) # None]]
        /\ history'.used = history.used
    BY SelectRows
  <2> QED BY <1>1, <1>2, <2>1
<1>4. /\ ~Unfinished(s) /\ UNCHANGED <<post, job, shown>>
      /\ old # None /\ old # new /\ asset[old].reserved = Game[s] => frees
  BY <1>1, <1>2 DEF Select, Deliberated
<1>5. \A c \in Assets : Left(c) \/ GivenBack(c, s)
  BY <1>3 DEF Left
<1>6. PhotoHeld(s)'
  BY <1>0, <1>4 DEF PhotoHeld, Unfinished
<1>7. JobAlone(s)'
  BY <1>0, <1>4 DEF JobAlone
<1>8. ASSUME NEW c \in Assets, asset'[c].reserved = Game[s], shown[c] \ {Game[s]} # {}
      PROVE  pref'[s].mode = "manual" /\ pref'[s].asset = c /\ ~post[s].done
  <2>1. ~(frees /\ c = old) /\ asset[c].reserved = Game[s]
    BY <1>0, <1>3, <1>8, GivenBackRow
  <2>2. old = c /\ ~post[s].done
    BY <1>0, <1>1, <1>8, <2>1 DEF Deliberate
  <2>3. c # None
    BY MediaAssumption
  <2>4. new = c /\ mode = "manual"
    BY <1>1, <1>4, <2>1, <2>2, <2>3
  <2> QED BY <1>0, <1>3, <2>2, <2>4 DEF RowTypes
<1>9. \A c \in Assets : Deliberate(s, c)'
  BY <1>4, <1>8 DEF Deliberate
<1>10. \A t \in Scopes \ {s} : pref'[t] = pref[t]
  BY <1>0, <1>3 DEF RowTypes
<1> QED BY <1>3, <1>4, <1>5, <1>6, <1>7, <1>9, <1>10, ScopeStep

LEMMA FailOnce ==
    ASSUME OneEach, TypeInv, PhotoInv, NEW s \in Scopes, Fail(s) \/ DeletePost(s)
    PROVE  PhotoInv'
<1>0. /\ RowTypes /\ PhotoHeld(s) /\ \A c \in Assets : Deliberate(s, c)
  BY Types DEF PhotoInv, JobsHold, OnlyDeliberately
<1>1. /\ UNCHANGED <<asset, pref, history, shown>> /\ job'[s].phase = "idle"
      /\ post'[s] = post[s] \/ post'[s] = NoPost
      /\ \A t \in Scopes \ {s} : post'[t] = post[t] /\ job'[t] = job[t]
  BY <1>0 DEF Fail, DeletePost, RowTypes, NoJob
<1>2. JobAlone(s)' /\ \A c \in Assets : Deliberate(s, c)' /\ Left(c)
  BY <1>0, <1>1 DEF JobAlone, Deliberate, Left, NoPost
<1>3. PhotoHeld(s)'
  BY <1>0, <1>1 DEF PhotoHeld, Unfinished, NoPost
<1> QED BY <1>1, <1>2, <1>3, ScopeStep

LEMMA FinishOnce ==
    ASSUME OneEach, TypeInv, PhotoInv, NEW s \in Scopes, Finish(s)
    PROVE  PhotoInv'
<1>1. PICK a : a = post[s].asset
  OBVIOUS
<1>2. PICK r : r = IF a \notin post[s].marked /\ job[s].seen.reserved = Game[s]
                   THEN None ELSE asset[a].reserved
  OBVIOUS
<1>3. /\ a \in Assets
      /\ \A b \in Assets \ {a} : asset'[b] = asset[b]
      /\ asset'[a] = [asset[a] EXCEPT !.reserved = r, !.automatic = asset'[a].automatic]
  BY <1>1, <1>2, FinishRows
<1>4. /\ RowTypes /\ \A t \in Scopes : Game[t] \in Games /\ Game[t] # None
      /\ \A t \in Scopes : PhotoHeld(t) /\ JobAlone(t)
      /\ \A t \in Scopes, c \in Assets : Deliberate(t, c)
      /\ \A c \in Assets : UseCounted(c)
  BY Types, GamesAreSome DEF PhotoInv, JobsHold, OnlyDeliberately, JobsAlone, UsesCounted
<1>5. /\ job[s].phase \in {"creating", "rerendering"}
      /\ history'.used = history.used \cup {<<a, s>>}
      /\ post'[s].asset = a /\ post'[s].done /\ job'[s].phase = "idle"
      /\ \A t \in Scopes \ {s} : post'[t] = post[t] /\ job'[t] = job[t]
      /\ UNCHANGED pref
      /\ shown' = IF job[s].manual THEN shown ELSE [shown EXCEPT ![a] = @ \cup {Game[s]}]
  <2>1. job[s].phase \in {"creating", "rerendering"}
    BY <1>4 DEF Finish, RowTypes, Job
  <2>2. /\ post' = [post EXCEPT ![s].done = TRUE, ![s].marked = @ \cup {a}]
        /\ job' = [job EXCEPT ![s] = NoJob] /\ history'.used = history.used \cup {<<a, s>>}
        /\ UNCHANGED pref
        /\ shown' = IF job[s].manual THEN shown ELSE [shown EXCEPT ![a] = @ \cup {Game[s]}]
    BY <1>1 DEF Finish
  <2>3. post'[s].asset = a /\ post'[s].done /\ \A t \in Scopes \ {s} : post'[t] = post[t]
    BY <2>2, <1>1, <1>4 DEF RowTypes, Post
  <2>4. job'[s].phase = "idle" /\ \A t \in Scopes \ {s} : job'[t] = job[t]
    BY <2>2, <1>4 DEF RowTypes, NoJob
  <2> QED BY <2>1, <2>2, <2>3, <2>4
<1>6. /\ asset[a].reserved = Game[s] /\ job[s].seen.reserved = Game[s]
      /\ r = IF a \notin post[s].marked THEN None ELSE Game[s]
  BY <1>1, <1>2, <1>4, <1>5 DEF PhotoHeld, Unfinished
<1>7. /\ asset'[a].reserved = r /\ asset'[a].state = asset[a].state
      /\ asset'[a].uses = asset[a].uses
  <2>1. PICK m : m = asset'[a].automatic
    OBVIOUS
  <2>2. asset[a] \in Asset /\ asset'[a] = [asset[a] EXCEPT !.reserved = r, !.automatic = m]
    BY <1>3, <1>4, <2>1 DEF RowTypes
  <2> QED BY <2>2 DEF Asset
<1>8. /\ \A c \in Assets \ {a} : shown'[c] = shown[c]
      /\ shown'[a] = shown[a] \/ (~job[s].manual /\ shown'[a] = shown[a] \cup {Game[s]})
  BY <1>3, <1>4, <1>5 DEF RowTypes
\* Who does not get the photo by hand, or has used it before, is alone with it.
<1>9. job[s].phase = "rerendering" \/ ~job[s].manual => shown'[a] \subseteq {Game[s]}
  BY <1>1, <1>4, <1>5, <1>8 DEF JobAlone
<1>10. a \in post[s].marked => job[s].phase = "rerendering"
  BY <1>4, <1>5 DEF PhotoHeld
<1>11. UsesCounted'
  <2> SUFFICES ASSUME NEW c \in Assets PROVE UseCounted(c)'
    BY DEF UsesCounted
  <2>1. CASE c # a
    BY <1>3, <1>4, <1>5, <1>8, <2>1 DEF UseCounted, UsedBy
  <2>2. CASE c = a
    <3>1. asset[a].state # "absent" /\ asset[a].uses >= 1
      BY <1>3, <1>4, <1>6 DEF UseCounted
    <3>2. \A t \in Scopes : asset'[a].reserved = Game[t] => UsedBy(a, t)'
      BY <1>4, <1>5, <1>6, <1>7 DEF UsedBy, OneEach
    <3> QED BY <1>7, <2>2, <3>1, <3>2 DEF UseCounted
  <2> QED BY <2>1, <2>2
<1>12. ASSUME NEW t \in Scopes \ {s}, asset[post[t].asset].reserved = Game[t]
       PROVE  post[t].asset # a
  BY <1>4, <1>6, <1>12 DEF OneEach
<1>13. JobsHold'
  <2> SUFFICES ASSUME NEW t \in Scopes PROVE PhotoHeld(t)'
    BY DEF JobsHold
  <2>1. CASE t = s
    BY <1>5, <2>1 DEF PhotoHeld, Unfinished
  <2>2. CASE t # s
    <3>1. PhotoHeld(t) /\ (Unfinished(t)' <=> Unfinished(t))
      BY <1>4, <1>5, <2>2 DEF Unfinished
    <3>2. Unfinished(t) => post[t].asset \in Assets
      BY <1>4 DEF Unfinished, RowTypes, Post, AssetOrNone
    <3>3. Unfinished(t) => asset'[post[t].asset] = asset[post[t].asset]
      BY <1>3, <1>12, <2>2, <3>1, <3>2 DEF PhotoHeld
    <3> QED BY <1>5, <2>2, <3>1, <3>3 DEF PhotoHeld
  <2> QED BY <2>1, <2>2
<1>14. OnlyDeliberately'
  <2> SUFFICES ASSUME NEW t \in Scopes, NEW c \in Assets PROVE Deliberate(t, c)'
    BY DEF OnlyDeliberately
  <2>1. CASE c = a
    BY <1>4, <1>6, <1>7, <1>9, <1>10, <2>1 DEF Deliberate, OneEach
  <2>2. CASE c # a /\ t # s
    BY <1>3, <1>4, <1>5, <1>8, <2>2 DEF Deliberate
  <2>3. CASE c # a /\ t = s
    <3>1. a # None
      BY <1>3, MediaAssumption
    <3>2. Deliberate(s, c) /\ PhotoHeld(s)
      BY <1>4
    <3>3. ~(asset[c].reserved = Game[s] /\ shown[c] \ {Game[s]} # {})
      BY <1>1, <2>3, <3>1, <3>2 DEF Deliberate, PhotoHeld
    <3> QED BY <1>3, <1>8, <2>3, <3>3 DEF Deliberate
  <2> QED BY <2>1, <2>2, <2>3
<1>15. JobsAlone'
  <2> SUFFICES ASSUME NEW t \in Scopes PROVE JobAlone(t)'
    BY DEF JobsAlone
  <2>1. CASE t = s
    BY <1>5, <2>1 DEF JobAlone
  <2>2. CASE t # s /\ job[t].phase # "idle"
    <3>1. post[t].asset \in Assets /\ asset[post[t].asset].reserved = Game[t]
      BY <1>4, <2>2 DEF PhotoHeld, Unfinished, RowTypes, Post, AssetOrNone
    <3>2. shown'[post[t].asset] = shown[post[t].asset]
      BY <1>8, <1>12, <2>2, <3>1
    <3> QED BY <1>4, <1>5, <2>2, <3>2 DEF JobAlone
  <2>3. CASE t # s /\ job[t].phase = "idle"
    BY <1>5, <2>3 DEF JobAlone
  <2> QED BY <2>1, <2>2, <2>3
<1>16. ShownOnce'
  <2>1. \A g, h \in shown'[a] : g = h
    BY <1>3, <1>8, <1>9 DEF PhotoInv, ShownOnce
  <2> QED BY <1>8, <2>1 DEF PhotoInv, ShownOnce
<1> QED BY <1>11, <1>13, <1>14, <1>15, <1>16 DEF PhotoInv

\* Nothing is lost while reservations stay, and choices of reserved photos.
RowsLeft == \A c \in Assets : Left(c) \/ (asset[c].state = "absent" /\ asset'[c] = Arrived)
ChoicesLeft ==
    \A t \in Scopes : \/ pref'[t] = pref[t]
                      \/ pref'[t].mode = "automatic" /\ asset[pref[t].asset].reserved = None

LEMMA PhotosLeft ==
    ASSUME TypeInv, PhotoInv, RowsLeft, ChoicesLeft, UNCHANGED <<history, post, job, shown>>
    PROVE  PhotoInv'
<1>0. /\ RowTypes /\ \A t \in Scopes : Game[t] # None
      /\ \A t \in Scopes : PhotoHeld(t) /\ JobAlone(t)
      /\ \A t \in Scopes, c \in Assets : Deliberate(t, c)
      /\ \A c \in Assets : UseCounted(c)
  BY Types, GamesAreSome DEF PhotoInv, JobsHold, OnlyDeliberately, JobsAlone, UsesCounted
<1>1. \A t \in Scopes : Unfinished(t) => post[t].asset \in Assets
  BY <1>0 DEF Unfinished, RowTypes, Post, AssetOrNone
<1>2. \A c \in Assets : /\ asset'[c].reserved = asset[c].reserved
                        /\ shown[c] # {} \/ asset[c].reserved # None => Left(c)
  BY <1>0 DEF RowsLeft, Left, UseCounted, Arrived, Absent
<1>3. \A c \in Assets : UseCounted(c)'
  BY <1>0, <1>2 DEF RowsLeft, UseCounted, UsedBy, Left
<1>4. \A t \in Scopes : PhotoHeld(t)'
  BY <1>0, <1>1, <1>2 DEF ChoicesLeft, PhotoHeld, Unfinished
<1>5. \A t \in Scopes, c \in Assets : Deliberate(t, c)'
  BY <1>0, <1>2 DEF ChoicesLeft, Deliberate
<1>6. \A t \in Scopes : JobAlone(t)'
  BY <1>0 DEF JobAlone
<1> QED BY <1>3, <1>4, <1>5, <1>6
    DEF PhotoInv, UsesCounted, JobsHold, OnlyDeliberately, JobsAlone, ShownOnce

\* A request about one photo leaves the photo where it is, or no unfinished post holds it.
LEMMA PhotosOnce ==
    ASSUME Deliberated, TypeInv, PhotoInv,
           \/ \E a \in Assets : Toggle(a) \/ release_asset(a) \/ MoveToTeam(a) \/ Delete(a)
                                \/ UploadPhoto(a)
           \/ scan_media
    PROVE  PhotoInv'
<1>0. /\ RowTypes /\ \A t \in Scopes : Game[t] # None
      /\ \A t \in Scopes : PhotoHeld(t) /\ JobAlone(t)
      /\ \A t \in Scopes, c \in Assets : Deliberate(t, c)
      /\ \A c \in Assets : UseCounted(c)
  BY Types, GamesAreSome DEF PhotoInv, JobsHold, OnlyDeliberately, JobsAlone, UsesCounted
<1>1. \A t \in Scopes : Unfinished(t) => post[t].asset \in Assets
  BY <1>0 DEF Unfinished, RowTypes, Post, AssetOrNone
<1>2. UNCHANGED <<history, post, job>>
  BY DEF Toggle, release_asset, MoveToTeam, Delete, UploadPhoto, scan_media
<1>3. UNCHANGED pref => ChoicesLeft
  BY DEF ChoicesLeft
<1>4. ASSUME NEW a \in Assets, Toggle(a) \/ MoveToTeam(a) PROVE PhotoInv'
  <2>1. UNCHANGED <<pref, shown>>
    BY <1>4 DEF Toggle, MoveToTeam
  <2>2. RowsLeft
    BY <1>0, <1>4 DEF Toggle, MoveToTeam, RowTypes, Asset, RowsLeft, Left
  <2> QED BY <1>2, <1>3, <2>1, <2>2, PhotosLeft
<1>5. ASSUME NEW a \in Assets, Delete(a) PROVE PhotoInv'
  <2>1. PICK m : m = (asset[a].available /\ session[a] # "remove")
    OBVIOUS
  <2>2. /\ asset' = [asset EXCEPT ![a].state = "deleted", ![a].automatic = FALSE, ![a].available = m]
        /\ pref' = [s \in Scopes |->
                      IF s \in Choosing(a) /\ UsedBy(a, s)
                      THEN [mode |-> "automatic", asset |-> None, once |-> FALSE] ELSE pref[s]]
        /\ UNCHANGED shown
    BY <1>5, <2>1, <1>0 DEF Delete, RowTypes
  <2>3. RowsLeft
    BY <1>0, <2>2 DEF RowTypes, Asset, RowsLeft, Left
  <2>4. asset[a].reserved = None
    BY <1>5 DEF Delete, Deliberated, Deletable
  <2>5. ChoicesLeft
    BY <2>2, <2>4 DEF Choosing, ChoicesLeft
  <2> QED BY <1>2, <2>2, <2>3, <2>5, PhotosLeft
<1>6. ASSUME NEW a \in Assets, UploadPhoto(a) PROVE PhotoInv'
  <2>1. asset[a].state = "absent" /\ asset' = [asset EXCEPT ![a] = Arrived]
        /\ UNCHANGED <<pref, shown>>
    BY <1>6 DEF UploadPhoto
  <2>2. RowsLeft
    BY <1>0, <2>1 DEF RowTypes, RowsLeft, Left
  <2> QED BY <1>2, <1>3, <2>1, <2>2, PhotosLeft
<1>7. ASSUME scan_media PROVE PhotoInv'
  <2>1. RowsLeft
    BY <1>0, <1>7 DEF scan_media, RowTypes, Asset, RowsLeft, Left
  <2>2. UNCHANGED <<pref, shown>>
    BY <1>7 DEF scan_media
  <2> QED BY <1>2, <1>3, <2>1, <2>2, PhotosLeft
<1>8. ASSUME NEW a \in Assets, release_asset(a) PROVE PhotoInv'
  <2>1. /\ asset' = [asset EXCEPT ![a].reserved = None, ![a].uses = 0, ![a].automatic = TRUE]
        /\ shown' = [shown EXCEPT ![a] = {}] /\ UNCHANGED pref
        /\ asset[a].state # "absent" /\ ~Held(a)
    BY <1>8 DEF release_asset, Deliberated
  <2>2. /\ \A c \in Assets \ {a} : asset'[c] = asset[c] /\ shown'[c] = shown[c]
        /\ asset'[a].reserved = None /\ asset'[a].state = asset[a].state /\ shown'[a] = {}
    BY <1>0, <2>1 DEF RowTypes, Asset
  <2>3. \A c \in Assets : UseCounted(c)'
    BY <1>0, <1>2, <2>1, <2>2 DEF UseCounted, UsedBy
  <2>4. \A t \in Scopes : Unfinished(t) => asset'[post[t].asset] = asset[post[t].asset]
                                           /\ shown'[post[t].asset] = shown[post[t].asset]
    BY <1>1, <2>1, <2>2 DEF Held
  <2>5. ASSUME NEW t \in Scopes PROVE PhotoHeld(t)' /\ JobAlone(t)'
    <3>1. PhotoHeld(t) /\ JobAlone(t) /\ (Unfinished(t)' <=> Unfinished(t))
      BY <1>0, <1>2 DEF Unfinished
    <3>2. PhotoHeld(t)'
      BY <1>2, <2>1, <2>4, <3>1 DEF PhotoHeld
    <3>3. job[t].phase # "idle" => Unfinished(t)
      BY DEF Unfinished
    <3>4. JobAlone(t)'
      BY <1>2, <2>4, <3>1, <3>3 DEF JobAlone
    <3> QED BY <3>2, <3>4
  <2>6. \A t \in Scopes, c \in Assets : Deliberate(t, c)'
    BY <1>0, <1>2, <2>1, <2>2 DEF Deliberate
  <2>7. ShownOnce'
    BY <2>2 DEF PhotoInv, ShownOnce
  <2> QED BY <2>3, <2>5, <2>6, <2>7
      DEF PhotoInv, UsesCounted, JobsHold, OnlyDeliberately, JobsAlone
<1> QED BY <1>4, <1>5, <1>6, <1>7, <1>8

LEMMA PhotoStep == OneEach /\ Deliberated /\ TypeInv /\ PhotoInv /\ [Next]_vars => PhotoInv'
<1> SUFFICES ASSUME OneEach, Deliberated, TypeInv, PhotoInv, [Next]_vars PROVE PhotoInv'
  OBVIOUS
<1>1. ASSUME UNCHANGED selection PROVE PhotoInv'
  BY <1>1 DEF selection, PhotoInv, UsesCounted, UseCounted, JobsHold, PhotoHeld, OnlyDeliberately,
              Deliberate, JobsAlone, JobAlone, ShownOnce, Unfinished, UsedBy
<1>2. CASE UNCHANGED vars
  BY <1>1, <1>2 DEF vars, selection
<1>3. CASE \E s \in Scopes :
             \/ Create(s) \/ Resume(s) \/ Rerender(s) \/ Finish(s) \/ Fail(s) \/ DeletePost(s)
             \/ \E a \in Assets, once \in BOOLEAN : Select(s, "manual", a, once)
             \/ \E a \in Assets : Select(s, "automatic", a, FALSE)
  BY <1>3, CreateOnce, ResumeOnce, RerenderOnce, FinishOnce, FailOnce, SelectOnce
<1>4. CASE \E a \in Assets :
             \/ Toggle(a) \/ release_asset(a) \/ MoveToTeam(a) \/ ReadDelete(a) \/ Delete(a)
             \/ UploadPhoto(a) \/ FolderChanges(a)
  BY <1>1, <1>4, PhotosOnce DEF ReadDelete, FolderChanges
<1>5. CASE scan_media
  BY <1>5, PhotosOnce
<1>6. CASE \/ cleanup_expired_uploads
           \/ \E u \in Uploads :
                 \/ create_direct_upload(u) \/ (\E n \in 1..2 : PutContent(u, n)) \/ Expires(u)
                 \/ ReadComplete(u) \/ Complete(u)
  BY <1>1, <1>6 DEF cleanup_expired_uploads, create_direct_upload, PutContent, Expires,
                    ReadComplete, Complete
<1> QED BY <1>2, <1>3, <1>4, <1>5, <1>6 DEF Next

\* Where each game has one contribution and no request overtakes another, the automatic
\* choice never shows a photo for two games (app/media/library.py).
THEOREM NeverShownTwice == ASSUME OneEach, Deliberated PROVE Spec => []NeverReused
<1>1. TypeInv /\ PhotoInv => NeverReused
  <2> SUFFICES ASSUME TypeInv, PhotoInv, NEW a \in Assets PROVE Cardinality(shown[a]) <= 1
    BY DEF NeverReused
  <2>1. CASE shown[a] = {}
    BY <2>1, FS_EmptySet
  <2>2. CASE shown[a] # {}
    <3>1. PICK g : shown[a] = {g}
      BY <2>2 DEF PhotoInv, ShownOnce
    <3>2. Cardinality({g}) = 1
      BY FS_Singleton
    <3> QED BY <3>1, <3>2
  <2> QED BY <2>1, <2>2
<1> QED BY <1>1, PhotoInit, PhotoStep, TypesHold, PTL DEF Spec

=============================================================================
