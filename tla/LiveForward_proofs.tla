------------------------- MODULE LiveForward_proofs -------------------------
(***************************************************************************)
(* Proofs about LiveForward, for any number of routes and ingestions and   *)
(* any answers, crashes, retries and resends: a row is sent once to each   *)
(* route, and a download is deleted for it only after its copies are there *)
(* as the routes want them.                                                *)
(***************************************************************************)
EXTENDS LiveForward, FiniteSetTheorems, TLAPS

-----------------------------------------------------------------------------
(* The inductive invariant, one row at a time.                             *)

\* What a row, the post for it and the message may hold.
DestStates == {"pending", "processing", "forwarded", "uncertain", "failed"}
KnownIds == {"none", "live", "gone"}
JobRow == [status : {"none", "processing", "pending", "failed", "uncertain", "forwarded"},
           stage : {"none", "native_forward", "metadata", "fallback_download", "caption_edit_failed",
                    "fallback_upload", "upload"},
           path : BOOLEAN, tries : Nat, dest : [Routes -> DestStates], id : [Routes -> KnownIds]]
PostRow == [pc : {"off", "prepare", "next", "send", "edit", "clean", "upload", "answered", "served",
                  "posted", "failed"},
            by : {"none", "direct", "queue"}, at : Nat,
            error : {"none", "refused", "lost", "unresolved"}, id : KnownIds, upload : BOOLEAN]
MessageRow == [pc : {"queued", "ingest", "drain", "done"}, count : 0..MaxLiveIngests, forward : BOOLEAN]
LiveTypes ==
  /\ message \in MessageRow /\ entry \in 0..MaxLiveIngests /\ custom \subseteq Routes
  /\ job \in [Ingestions -> JobRow] /\ post \in [Ingestions -> PostRow]
  /\ settler \in [Ingestions -> {"off", "finish", "fail", "delete"}]
  /\ bare \in [Posts -> Nat] /\ right \in [Posts -> Nat] /\ deletedFor \subseteq Ingestions

\* An ingestion under way is counted, and the entry is of one that has begun.
CountIsKept == (message.pc \in {"ingest", "drain"} => message.count # 0) /\ entry <= message.count

\* What is to be seen of a row's copies at a route.
Present(r, d) == bare[<<r, d>>] + right[<<r, d>>] > 0
AtMostOne(r, d) == bare[<<r, d>>] + right[<<r, d>>] <= 1
AsWanted(r, d) == right[<<r, d>>] > 0

AtRoute(r) == post[r].pc \in {"send", "edit", "clean", "upload", "answered", "served"}

\* Who posts for a row has it in progress, and a copy at every route behind it.
PostIsHeld(r) ==
  /\ post[r].pc = "off" <=> post[r].by = "none"
  /\ post[r].pc # "off" =>
       /\ job[r].status = "processing" /\ post[r].at >= 1 /\ post[r].at <= LastRoute + 1
       /\ \A d \in Routes : d < post[r].at => job[r].dest[d] = "forwarded"
  /\ AtRoute(r) => post[r].at \in Routes /\ job[r].dest[post[r].at] \in {"processing", "uncertain"}
  /\ post[r].pc \in {"prepare", "upload", "served", "failed"} => post[r].by = "queue"
  /\ post[r].pc = "posted" /\ post[r].by = "queue" => post[r].at > LastRoute

\* A row without a status is nobody's, and nothing was sent for it.
RowIsNew(r) ==
  /\ r > message.count => job[r].status = "none"
  /\ job[r].status = "none" =>
       /\ job[r].stage = "none" /\ ~job[r].path /\ settler[r] = "off" /\ r \notin deletedFor
       /\ \A d \in Routes : job[r].dest[d] = "pending" /\ job[r].id[d] = "none" /\ ~Present(r, d)
  /\ message.pc = "ingest" /\ r = message.count =>
       settler[r] = "off" /\ (post[r].by # "direct" => job[r].status = "none")
  /\ settler[r] \in {"finish", "fail"} => post[r].by = "direct"

\* While a row is forwarded directly it has no file, and no stage before its end.
DirectIsFirst(r) == post[r].by = "direct" =>
  /\ ~job[r].path
  /\ job[r].stage \in {"native_forward", "fallback_download", "caption_edit_failed"}
  /\ job[r].stage # "native_forward" => post[r].pc = "posted" /\ post[r].at <= LastRoute
  /\ job[r].stage = "caption_edit_failed" => post[r].error = "unresolved"
  /\ \A d \in Routes : d > post[r].at \/ (d = post[r].at /\ post[r].pc = "next") => job[r].id[d] = "none"

\* Doubt is about the route at hand, or waits for the operator.
DoubtIsHeld(r) == \A d \in Routes : job[r].dest[d] = "uncertain" =>
  /\ job[r].status \notin {"none", "pending", "failed"}
  /\ post[r].pc # "off" => d = post[r].at /\
         post[r].pc \in {"upload", "answered", "served", "posted", "failed"}

\* What an answer says of the copy.
AnswerIsTrue(r) ==
  /\ post[r].pc \in {"answered", "served"} /\ post[r].error = "none" =>
       \A d \in Routes : d = post[r].at => AsWanted(r, d)
  /\ post[r].pc = "served" => post[r].error = "none" /\ post[r].upload
  /\ post[r].pc = "upload" \/ (post[r].pc = "answered" /\ post[r].upload) =>
       job[r].path /\ job[r].stage # "caption_edit_failed"
  /\ post[r].pc = "answered" /\ post[r].upload => post[r].error # "unresolved"
  /\ post[r].pc \in {"edit", "clean"} => Edits(r) /\ post[r].id # "none"
  /\ post[r].pc = "clean" => post[r].error \in {"refused", "lost"}
  /\ post[r].pc \in {"send", "edit", "clean"} => Native(r) /\ ~post[r].upload
  /\ post[r].pc = "send" => post[r].id = "none"
  /\ post[r].pc = "answered" /\ post[r].error = "unresolved" => Edits(r)

\* A copy known by its id is there.
KnownIsThere(r) ==
  /\ \A d \in Routes : job[r].id[d] = "live" => Present(r, d)
  /\ AtRoute(r) /\ post[r].id = "live" => \A d \in Routes : d = post[r].at => Present(r, d)

\* No copy of the row is at a route, but for one that was risked.
Unsent(r, d) == ~Present(r, d) \/ <<r, d>> \in excused

\* The routes that somebody would send to, or is going to.
Ahead(r, d) ==
  \/ job[r].status \in {"none", "pending", "failed"}
  \/ post[r].pc \in {"prepare", "next", "posted", "failed"} /\ d >= post[r].at
  \/ AtRoute(r) /\ d > post[r].at

\* Nothing is at a route that is still to be sent to, but for the copy without its caption that a
\* direct forward has left where it stopped.
AheadIsUnsent(r) == \A d \in Routes :
  /\ job[r].dest[d] = "failed" => Unsent(r, d)
  /\ Ahead(r, d) /\ job[r].dest[d] \in {"pending", "processing"} /\ ~Unsent(r, d) =>
       /\ job[r].stage = "caption_edit_failed" /\ d \in custom /\ job[r].id[d] # "gone"
       /\ \A e \in Routes : e < d => job[r].dest[e] = "forwarded"

\* Nor where a request goes out, was refused, or took its copy back.
TargetIsUnsent(r) == \A d \in Routes : d = post[r].at =>
  /\ post[r].pc \in {"send", "upload"} => Unsent(r, d)
  /\ post[r].pc = "answered" /\ post[r].error = "refused" => Unsent(r, d)
  /\ post[r].pc \in {"edit", "clean"} /\ post[r].id = "gone" => Unsent(r, d)
  /\ post[r].pc = "answered" /\ post[r].error = "unresolved" /\ post[r].id = "gone" => Unsent(r, d)

\* A worker edits only copies it knows.
CaptionsAreKnown(r) ==
  post[r].by = "queue" /\ job[r].stage = "caption_edit_failed" /\ (AtRoute(r) \/ post[r].pc = "next") =>
    \A d \in custom : (d > post[r].at \/ (d = post[r].at /\ post[r].pc = "next")) /\
        job[r].dest[d] # "forwarded" =>
      job[r].id[d] # "none"

\* A row whose download was deleted, or is about to be, is not forwarded natively any more.
DeletedIsOver(r) ==
  /\ r \in deletedFor \/ settler[r] = "delete" =>
       /\ job[r].path /\ job[r].stage # "caption_edit_failed" /\ r <= message.count
       /\ post[r].by # "direct" /\ post[r].pc \notin {"send", "edit", "clean"}
  /\ settler[r] = "delete" => job[r].status = "forwarded" /\ \A d \in Routes : job[r].dest[d] = "forwarded"
  /\ post[r].pc = "answered" /\ r \in deletedFor => post[r].upload

\* The promises, of one row.
RowIsDelivered(r) == r \in deletedFor => \A d \in Routes : AsWanted(r, d) \/ <<r, d>> \in vouched
RowIsShown(r) ==
  \A d \in Routes : job[r].dest[d] = "forwarded" => AsWanted(r, d) \/ <<r, d>> \in vouched
RowIsSentOnce(r) == \A d \in Routes : ~AtMostOne(r, d) => <<r, d>> \in excused

RowInv(r) ==
  /\ PostIsHeld(r) /\ RowIsNew(r) /\ DirectIsFirst(r) /\ DoubtIsHeld(r) /\ AnswerIsTrue(r)
  /\ KnownIsThere(r) /\ AheadIsUnsent(r) /\ TargetIsUnsent(r) /\ CaptionsAreKnown(r) /\ DeletedIsOver(r)
  /\ RowIsDelivered(r) /\ RowIsShown(r) /\ RowIsSentOnce(r)

LiveInv == LiveTypes /\ CountIsKept /\ \A r \in Ingestions : RowInv(r)

-----------------------------------------------------------------------------
(* What an action on one row leaves of the others.                         *)

\* Routes are numbered from 1.
LEMMA LastRouteTyped == LastRoute \in Nat /\ Routes = 1..LastRoute
  BY FS_CardinalityType, LiveForwardAssumption DEF LastRoute, LiveForwardAssumption

\* What the types say of one row.
RowTyped(r) ==
  /\ job[r] \in JobRow /\ post[r] \in PostRow
  /\ r \in Ingestions /\ r \in Nat /\ message.count \in Nat
  /\ job[r].dest \in [Routes -> DestStates] /\ job[r].id \in [Routes -> KnownIds]
  /\ \A d \in Routes : /\ job[r].dest[d] \in DestStates /\ job[r].id[d] \in KnownIds
                       /\ bare[<<r, d>>] \in Nat /\ right[<<r, d>>] \in Nat
                       /\ d \in Nat /\ d >= 1 /\ d <= LastRoute
  /\ post[r].at \in Nat /\ job[r].tries \in Nat /\ LastRoute \in Nat
  /\ job[r].path \in BOOLEAN /\ post[r].upload \in BOOLEAN

\* A typed state types every row.
LEMMA TypedRows == ASSUME LiveTypes, NEW r \in Ingestions PROVE RowTyped(r)
  <1>1. job[r] \in JobRow /\ post[r] \in PostRow /\ r \in Nat
    BY LiveForwardAssumption DEF LiveTypes, Ingestions, LiveForwardAssumption
  <1>2. /\ job[r].dest \in [Routes -> DestStates] /\ job[r].id \in [Routes -> KnownIds]
        /\ post[r].at \in Nat /\ job[r].tries \in Nat
        /\ job[r].path \in BOOLEAN /\ post[r].upload \in BOOLEAN
    BY <1>1 DEF JobRow, PostRow
  <1>3. message.count \in Nat
    BY LiveForwardAssumption DEF LiveTypes, MessageRow, LiveForwardAssumption
  <1>4. \A d \in Routes : bare[<<r, d>>] \in Nat /\ right[<<r, d>>] \in Nat
    BY DEF LiveTypes, Posts
  <1>5. \A d \in Routes : d \in Nat /\ d >= 1 /\ d <= LastRoute
    BY LastRouteTyped
  <1> QED
    BY <1>1, <1>2, <1>3, <1>4, <1>5, LastRouteTyped DEF RowTyped

\* What an action does not do to the copies: those of this row at other routes, and those of other rows.
ElsewhereShown(r) ==
  /\ \A e \in Routes : e # post[r].at =>
       /\ Present(r, e)' <=> Present(r, e)
       /\ AtMostOne(r, e)' <=> AtMostOne(r, e)
       /\ AsWanted(r, e)' <=> AsWanted(r, e)
  /\ \A q \in Ingestions, e \in Routes : q # r =>
       bare'[<<q, e>>] = bare[<<q, e>>] /\ right'[<<q, e>>] = right[<<q, e>>]
  /\ bare' \in [Posts -> Nat] /\ right' \in [Posts -> Nat]

\* A copy with the caption of the source,
LEMMA BareMade ==
  ASSUME LiveTypes, NEW r \in Ingestions, post[r].at \in Routes, More(bare, Target(r)), right' = right
  PROVE  /\ \A e \in Routes : e = post[r].at =>
              Present(r, e)' /\ (AtMostOne(r, e)' <=> ~Present(r, e)) /\ (AsWanted(r, e)' <=>
                  AsWanted(r, e))
         /\ ElsewhereShown(r)
  <1> DEFINE d == post[r].at
  <1>1. bare \in [Posts -> Nat] /\ right \in [Posts -> Nat] /\ d \in Routes /\ <<r, d>> \in Posts
    BY DEF LiveTypes, Posts
  <1>2. \A q \in Ingestions, e \in Routes : /\ bare[<<q, e>>] \in Nat /\ right[<<q, e>>] \in Nat
                                          /\ <<q, e>> \in Posts /\ (<<q, e>> = <<r, d>> <=> q = r /\ e = d)
    BY <1>1 DEF Posts
  <1> HIDE DEF d
  <1>3. bare' = [bare EXCEPT ![<<r, d>>] = IF bare[<<r, d>>] = 2 THEN 2 ELSE bare[<<r, d>>] + 1]
    BY DEF More, Target, d
  <1>4. (IF bare[<<r, d>>] = 2 THEN 2 ELSE bare[<<r, d>>] + 1) \in Nat
    BY <1>2, <1>1
  <1>5. bare' \in [Posts -> Nat]
    BY <1>1, <1>3, <1>4
  <1>6. /\ bare'[<<r, d>>] = IF bare[<<r, d>>] = 2 THEN 2 ELSE bare[<<r, d>>] + 1
        /\ \A q \in Ingestions, e \in Routes : q # r \/ e # d => bare'[<<q, e>>] = bare[<<q, e>>]
    BY <1>1, <1>2, <1>3
  <1>7. (bare'[<<r, d>>] + right'[<<r, d>>] > 0) /\ ((bare'[<<r, d>>] + right'[<<r, d>>] <= 1) <=>
            ~(bare[<<r, d>>] + right[<<r, d>>] > 0)) /\ ((right'[<<r, d>>] > 0) <=> (right[<<r, d>>] > 0))
    BY <1>1, <1>2, <1>6, <1>5
  <1>8. ElsewhereShown(r)
    BY <1>1, <1>2, <1>6, <1>5 DEF ElsewhereShown, Present, AtMostOne, AsWanted, d
  <1> QED
    BY <1>7, <1>8 DEF Present, AtMostOne, AsWanted, d
\* and one as the route wants it, are seen.
LEMMA WantedMade ==
  ASSUME LiveTypes, NEW r \in Ingestions, post[r].at \in Routes, More(right, Target(r)), bare' = bare
  PROVE  /\ \A e \in Routes : e = post[r].at =>
              Present(r, e)' /\ (AtMostOne(r, e)' <=> ~Present(r, e)) /\ AsWanted(r, e)'
         /\ ElsewhereShown(r)
  <1> DEFINE d == post[r].at
  <1>1. bare \in [Posts -> Nat] /\ right \in [Posts -> Nat] /\ d \in Routes /\ <<r, d>> \in Posts
    BY DEF LiveTypes, Posts
  <1>2. \A q \in Ingestions, e \in Routes : /\ bare[<<q, e>>] \in Nat /\ right[<<q, e>>] \in Nat
                                          /\ <<q, e>> \in Posts /\ (<<q, e>> = <<r, d>> <=> q = r /\ e = d)
    BY <1>1 DEF Posts
  <1> HIDE DEF d
  <1>3. right' = [right EXCEPT ![<<r, d>>] = IF right[<<r, d>>] = 2 THEN 2 ELSE right[<<r, d>>] + 1]
    BY DEF More, Target, d
  <1>4. (IF right[<<r, d>>] = 2 THEN 2 ELSE right[<<r, d>>] + 1) \in Nat
    BY <1>2, <1>1
  <1>5. right' \in [Posts -> Nat]
    BY <1>1, <1>3, <1>4
  <1>6. /\ right'[<<r, d>>] = IF right[<<r, d>>] = 2 THEN 2 ELSE right[<<r, d>>] + 1
        /\ \A q \in Ingestions, e \in Routes : q # r \/ e # d => right'[<<q, e>>] = right[<<q, e>>]
    BY <1>1, <1>2, <1>3
  <1>7. (bare'[<<r, d>>] + right'[<<r, d>>] > 0) /\ ((bare'[<<r, d>>] + right'[<<r, d>>] <= 1) <=>
            ~(bare[<<r, d>>] + right[<<r, d>>] > 0)) /\ (right'[<<r, d>>] > 0)
    BY <1>1, <1>2, <1>6, <1>5
  <1>8. ElsewhereShown(r)
    BY <1>1, <1>2, <1>6, <1>5 DEF ElsewhereShown, Present, AtMostOne, AsWanted, d
  <1> QED
    BY <1>7, <1>8 DEF Present, AtMostOne, AsWanted, d
\* An edit makes one of the other,
LEMMA CaptionPut ==
  ASSUME LiveTypes, NEW r \in Ingestions, post[r].at \in Routes, Captioned(Target(r))
  PROVE  /\ \A e \in Routes : e = post[r].at =>
              Present(r, e)' /\ (AtMostOne(r, e) => AtMostOne(r, e)') /\ AsWanted(r, e)'
         /\ ElsewhereShown(r)
  <1> DEFINE d == post[r].at
  <1>1. bare \in [Posts -> Nat] /\ right \in [Posts -> Nat] /\ d \in Routes /\ <<r, d>> \in Posts
    BY DEF LiveTypes, Posts
  <1>2. \A q \in Ingestions, e \in Routes : /\ bare[<<q, e>>] \in Nat /\ right[<<q, e>>] \in Nat
                                          /\ <<q, e>> \in Posts /\ (<<q, e>> = <<r, d>> <=> q = r /\ e = d)
    BY <1>1 DEF Posts
  <1> HIDE DEF d
  <1>3. bare' = [bare EXCEPT ![<<r, d>>] = IF bare[<<r, d>>] = 0 THEN 0 ELSE bare[<<r, d>>] - 1]
    BY DEF Fewer, Target, d, Captioned
  <1>4. (IF bare[<<r, d>>] = 0 THEN 0 ELSE bare[<<r, d>>] - 1) \in Nat
    BY <1>2, <1>1
  <1>5. bare' \in [Posts -> Nat]
    BY <1>1, <1>3, <1>4
  <1>6. /\ bare'[<<r, d>>] = IF bare[<<r, d>>] = 0 THEN 0 ELSE bare[<<r, d>>] - 1
        /\ \A q \in Ingestions, e \in Routes : q # r \/ e # d => bare'[<<q, e>>] = bare[<<q, e>>]
    BY <1>1, <1>2, <1>3
  <1>7. right' = [right EXCEPT ![<<r, d>>] = IF right[<<r, d>>] = 2 THEN 2 ELSE right[<<r, d>>] + 1]
    BY DEF More, Target, d, Captioned
  <1>8. (IF right[<<r, d>>] = 2 THEN 2 ELSE right[<<r, d>>] + 1) \in Nat
    BY <1>2, <1>1
  <1>9. right' \in [Posts -> Nat]
    BY <1>1, <1>7, <1>8
  <1>10. /\ right'[<<r, d>>] = IF right[<<r, d>>] = 2 THEN 2 ELSE right[<<r, d>>] + 1
        /\ \A q \in Ingestions, e \in Routes : q # r \/ e # d => right'[<<q, e>>] = right[<<q, e>>]
    BY <1>1, <1>2, <1>7
  <1>11. bare[<<r, d>>] > 0
    BY DEF Captioned, Target, d
  <1>12. (bare'[<<r, d>>] + right'[<<r, d>>] > 0) /\ ((bare[<<r, d>>] + right[<<r, d>>] <= 1) =>
             (bare'[<<r, d>>] + right'[<<r, d>>] <= 1)) /\ (right'[<<r, d>>] > 0)
    BY <1>1, <1>2, <1>6, <1>5, <1>10, <1>9, <1>11
  <1>13. ElsewhereShown(r)
    BY <1>1, <1>2, <1>6, <1>5, <1>10, <1>9, <1>11 DEF ElsewhereShown, Present, AtMostOne, AsWanted, d
  <1> QED
    BY <1>12, <1>13 DEF Present, AtMostOne, AsWanted, d
\* and what is taken back is gone.
LEMMA BareTaken ==
  ASSUME LiveTypes, NEW r \in Ingestions, post[r].at \in Routes, Fewer(bare, Target(r)),
             bare[Target(r)] > 0, right' = right
  PROVE  /\ \A e \in Routes : e = post[r].at =>
              (AtMostOne(r, e) => AtMostOne(r, e)' /\ ~Present(r, e)') /\ (AsWanted(r, e)' <=>
                  AsWanted(r, e))
         /\ ElsewhereShown(r)
  <1> DEFINE d == post[r].at
  <1>1. bare \in [Posts -> Nat] /\ right \in [Posts -> Nat] /\ d \in Routes /\ <<r, d>> \in Posts
    BY DEF LiveTypes, Posts
  <1>2. \A q \in Ingestions, e \in Routes : /\ bare[<<q, e>>] \in Nat /\ right[<<q, e>>] \in Nat
                                          /\ <<q, e>> \in Posts /\ (<<q, e>> = <<r, d>> <=> q = r /\ e = d)
    BY <1>1 DEF Posts
  <1> HIDE DEF d
  <1>3. bare' = [bare EXCEPT ![<<r, d>>] = IF bare[<<r, d>>] = 0 THEN 0 ELSE bare[<<r, d>>] - 1]
    BY DEF Fewer, Target, d
  <1>4. (IF bare[<<r, d>>] = 0 THEN 0 ELSE bare[<<r, d>>] - 1) \in Nat
    BY <1>2, <1>1
  <1>5. bare' \in [Posts -> Nat]
    BY <1>1, <1>3, <1>4
  <1>6. /\ bare'[<<r, d>>] = IF bare[<<r, d>>] = 0 THEN 0 ELSE bare[<<r, d>>] - 1
        /\ \A q \in Ingestions, e \in Routes : q # r \/ e # d => bare'[<<q, e>>] = bare[<<q, e>>]
    BY <1>1, <1>2, <1>3
  <1>7. bare[<<r, d>>] > 0
    BY DEF Target, d
  <1>8. ((bare[<<r, d>>] + right[<<r, d>>] <= 1) =>
            (bare'[<<r, d>>] + right'[<<r, d>>] <= 1) /\
            ~(bare'[<<r, d>>] + right'[<<r, d>>] > 0)) /\ ((right'[<<r, d>>] > 0) <=> (right[<<r, d>>] > 0))
    BY <1>1, <1>2, <1>6, <1>5, <1>7
  <1>9. ElsewhereShown(r)
    BY <1>1, <1>2, <1>6, <1>5, <1>7 DEF ElsewhereShown, Present, AtMostOne, AsWanted, d
  <1> QED
    BY <1>8, <1>9 DEF Present, AtMostOne, AsWanted, d
\* The same where the caption had been put.
LEMMA WantedTaken ==
  ASSUME LiveTypes, NEW r \in Ingestions, post[r].at \in Routes, Fewer(right, Target(r)),
             ~(bare[Target(r)] > 0), bare' = bare
  PROVE  /\ \A e \in Routes : e = post[r].at =>
              (AtMostOne(r, e) => AtMostOne(r, e)' /\ ~Present(r, e)') /\ (AsWanted(r, e)' =>
                  AsWanted(r, e))
         /\ ElsewhereShown(r)
  <1> DEFINE d == post[r].at
  <1>1. bare \in [Posts -> Nat] /\ right \in [Posts -> Nat] /\ d \in Routes /\ <<r, d>> \in Posts
    BY DEF LiveTypes, Posts
  <1>2. \A q \in Ingestions, e \in Routes : /\ bare[<<q, e>>] \in Nat /\ right[<<q, e>>] \in Nat
                                          /\ <<q, e>> \in Posts /\ (<<q, e>> = <<r, d>> <=> q = r /\ e = d)
    BY <1>1 DEF Posts
  <1> HIDE DEF d
  <1>3. right' = [right EXCEPT ![<<r, d>>] = IF right[<<r, d>>] = 0 THEN 0 ELSE right[<<r, d>>] - 1]
    BY DEF Fewer, Target, d
  <1>4. (IF right[<<r, d>>] = 0 THEN 0 ELSE right[<<r, d>>] - 1) \in Nat
    BY <1>2, <1>1
  <1>5. right' \in [Posts -> Nat]
    BY <1>1, <1>3, <1>4
  <1>6. /\ right'[<<r, d>>] = IF right[<<r, d>>] = 0 THEN 0 ELSE right[<<r, d>>] - 1
        /\ \A q \in Ingestions, e \in Routes : q # r \/ e # d => right'[<<q, e>>] = right[<<q, e>>]
    BY <1>1, <1>2, <1>3
  <1>7. ~(bare[<<r, d>>] > 0)
    BY DEF Target, d
  <1>8. ((bare[<<r, d>>] + right[<<r, d>>] <= 1) =>
            (bare'[<<r, d>>] + right'[<<r, d>>] <= 1) /\
            ~(bare'[<<r, d>>] + right'[<<r, d>>] > 0)) /\ ((right'[<<r, d>>] > 0) => (right[<<r, d>>] > 0))
    BY <1>1, <1>2, <1>6, <1>5, <1>7
  <1>9. ElsewhereShown(r)
    BY <1>1, <1>2, <1>6, <1>5, <1>7 DEF ElsewhereShown, Present, AtMostOne, AsWanted, d
  <1> QED
    BY <1>8, <1>9 DEF Present, AtMostOne, AsWanted, d
\* A step on one row leaves the others, and the message unless it is being taken in with that row.
OnlyRow(r) ==
  /\ custom' = custom
  /\ message' = message \/ (message'.count >= message.count /\ (message'.pc = "ingest" =>
         message'.count = r))
  /\ \A q \in Ingestions : q # r =>
       /\ job'[q] = job[q] /\ post'[q] = post[q] /\ settler'[q] = settler[q]
       /\ q \in deletedFor' <=> q \in deletedFor
       /\ \A d \in Routes : /\ bare'[<<q, d>>] = bare[<<q, d>>] /\ right'[<<q, d>>] = right[<<q, d>>]
                            /\ <<q, d>> \in excused' <=> <<q, d>> \in excused
                            /\ <<q, d>> \in vouched' <=> <<q, d>> \in vouched

\* It keeps the invariant, if it keeps that of its row.
LEMMA OneRow ==
  ASSUME LiveInv, NEW r \in Ingestions, OnlyRow(r), LiveTypes', CountIsKept', RowInv(r)'
  PROVE  LiveInv'
  <1>1. ASSUME NEW q \in Ingestions, q # r PROVE RowInv(q)'
    <2>1. /\ RowInv(q) /\ post[q] \in PostRow /\ job[q] \in JobRow
      BY DEF LiveInv, LiveTypes
    <2>2. /\ job'[q] = job[q] /\ post'[q] = post[q] /\ settler'[q] = settler[q]
          /\ q \in deletedFor' <=> q \in deletedFor
          /\ \A d \in Routes : /\ bare'[<<q, d>>] = bare[<<q, d>>] /\ right'[<<q, d>>] = right[<<q, d>>]
                               /\ <<q, d>> \in excused' <=> <<q, d>> \in excused
                               /\ <<q, d>> \in vouched' <=> <<q, d>> \in vouched
          /\ custom' = custom
          /\ message' = message \/ (message'.count >= message.count /\ (message'.pc = "ingest" =>
                 message'.count = r))
      BY <1>1 DEF OnlyRow
    <2>p. \A d \in Routes : /\ Present(q, d)' <=> Present(q, d)
                            /\ AtMostOne(q, d)' <=> AtMostOne(q, d)
                            /\ AsWanted(q, d)' <=> AsWanted(q, d)
      BY <2>2 DEF Present, AtMostOne, AsWanted
    <2>n. q \in Nat /\ r \in Nat /\ message.count \in Nat /\ message'.count \in Nat
      BY LiveForwardAssumption DEF LiveInv, LiveTypes, MessageRow, Ingestions, LiveForwardAssumption
    <2>3. AtRoute(q) => post[q].at \in Routes
      BY <2>1 DEF RowInv, PostIsHeld
    <2>4. PostIsHeld(q)' /\ DirectIsFirst(q)' /\ DoubtIsHeld(q)'
      BY <2>1, <2>2, <2>p DEF RowInv, PostIsHeld, DirectIsFirst, DoubtIsHeld, AtRoute
    <2>9. RowIsNew(q)'
      BY <1>1, <2>1, <2>2, <2>p, <2>n DEF RowInv, RowIsNew
    <2>5. AnswerIsTrue(q)' /\ KnownIsThere(q)'
      BY <2>1, <2>2, <2>p, <2>3 DEF RowInv, AnswerIsTrue, KnownIsThere, AtRoute, Target, Edits, Native
    <2>6. AheadIsUnsent(q)' /\ CaptionsAreKnown(q)'
      BY <2>1, <2>2, <2>p DEF RowInv, AheadIsUnsent, CaptionsAreKnown, AtRoute, Unsent, Ahead
    <2>7. TargetIsUnsent(q)'
      BY <2>1, <2>2, <2>p, <2>3 DEF RowInv, TargetIsUnsent, AtRoute, Unsent
    <2>8. DeletedIsOver(q)' /\ RowIsDelivered(q)' /\ RowIsShown(q)' /\ RowIsSentOnce(q)'
      BY <2>1, <2>2, <2>p, <2>n DEF RowInv, DeletedIsOver, RowIsDelivered, RowIsShown, RowIsSentOnce
    <2> QED
      BY <2>9, <2>4, <2>5, <2>6, <2>7, <2>8 DEF RowInv
  <1> QED
    BY <1>1 DEF LiveInv

\* Routes against the one at hand and the next.
RouteOrder(r) == \A e \in Routes :
  /\ e < post[r].at \/ e = post[r].at \/ e > post[r].at
  /\ ~(e < post[r].at /\ e > post[r].at) /\ (e = post[r].at => ~(e < post[r].at) /\ ~(e > post[r].at))
  /\ e >= post[r].at <=> e = post[r].at \/ e > post[r].at
  /\ e < post[r].at + 1 <=> e < post[r].at \/ e = post[r].at
  /\ e >= post[r].at + 1 <=> e > post[r].at
  /\ e = post[r].at + 1 \/ e > post[r].at + 1 => e > post[r].at
  /\ e <= LastRoute /\ (post[r].at > LastRoute => e < post[r].at) /\ (post[r].at = LastRoute =>
         ~(e > post[r].at))
  /\ e + 1 >= 1 /\ e + 1 <= LastRoute + 1
  /\ e >= 1 /\ ~(e < 1) /\ \A f \in Routes : (f < e /\ ~(e > post[r].at)) => f < post[r].at

\* The order of the routes, for provers that do not compute with it.
LEMMA RoutesOrdered == ASSUME NEW r, RowTyped(r) PROVE RouteOrder(r)
  <1>1. post[r].at \in Nat /\ LastRoute \in Nat /\ \A e \in Routes : e \in Nat /\ e >= 1 /\ e <= LastRoute
    BY DEF RowTyped
  <1> DEFINE n == post[r].at
  <1>2. n \in Nat /\ n = post[r].at
    BY <1>1
  <1> HIDE DEF n
  <1>3. ASSUME NEW e \in Routes, NEW f \in Routes
        PROVE  /\ e < n \/ e = n \/ e > n
               /\ ~(e < n /\ e > n) /\ (e = n => ~(e < n) /\ ~(e > n))
               /\ e >= n <=> e = n \/ e > n
               /\ e < n + 1 <=> e < n \/ e = n
               /\ e >= n + 1 <=> e > n
               /\ e = n + 1 \/ e > n + 1 => e > n
               /\ e <= LastRoute /\ (n > LastRoute => e < n) /\ (n = LastRoute => ~(e > n))
               /\ e + 1 >= 1 /\ e + 1 <= LastRoute + 1
               /\ e >= 1 /\ ~(e < 1) /\ (f < e /\ ~(e > n) => f < n)
    <2>1. e \in Nat /\ f \in Nat /\ e >= 1 /\ e <= LastRoute
      BY <1>1
    <2> QED
      BY <1>1, <1>2, <2>1
  <1> QED
    BY <1>2, <1>3 DEF RouteOrder

\* What NextRoute does once it knows whether there is a copy whose caption is to be edited.
CopyKnown(r) == Edits(r) /\ job[r].id[post[r].at] # "none"
Starts(r, known) ==
  post' = [post EXCEPT ![r].error = "none", ![r].upload = FALSE,
             ![r].id = IF known THEN job[r].id[post[r].at] ELSE "none",
             ![r].pc = IF post[r].by = "direct" THEN "send" ELSE IF ~Native(r) THEN "upload"
                       ELSE IF known THEN "edit" ELSE "send"]

LEMMA RouteStarts ==
  ASSUME NEW r \in Ingestions, NextRoute(r), ~(post[r].at > LastRoute),
         job[r].dest[post[r].at] \notin {"forwarded", "uncertain"}
  PROVE  Starts(r, CopyKnown(r))
  <1>1. \E known \in {CopyKnown(r)} : Starts(r, known)
    BY DEF NextRoute, CopyKnown, Starts
  <1> QED
    BY <1>1

\* Who posts for nobody, a worker at its claim, and a direct forward at its start.
LEMMA SilentRow ==
  /\ Silent \in PostRow /\ Silent.pc = "off" /\ Silent.by = "none" /\ Silent.at = 0
  /\ Silent.error = "none" /\ Silent.id = "none" /\ Silent.upload = FALSE
  BY DEF Silent, PostRow, KnownIds

LEMMA ClaimedRow ==
  ASSUME NEW x, x = [Silent EXCEPT !.pc = "prepare", !.by = "queue", !.at = 1]
  PROVE  /\ x \in PostRow /\ x.pc = "prepare" /\ x.by = "queue" /\ x.at = 1
         /\ x.error = "none" /\ x.id = "none" /\ x.upload = FALSE
  BY SilentRow DEF PostRow

LEMMA DirectRow ==
  ASSUME NEW x, x = [Silent EXCEPT !.pc = "next", !.by = "direct", !.at = 1]
  PROVE  /\ x \in PostRow /\ x.pc = "next" /\ x.by = "direct" /\ x.at = 1
         /\ x.error = "none" /\ x.id = "none" /\ x.upload = FALSE
  BY SilentRow DEF PostRow

-----------------------------------------------------------------------------
(* The actions (app/ingest.go, app/forward.go, telegram/forward.go).       *)

\* The next route has no copy, or one that is known.
LEMMA NextRouteKept ==
  ASSUME LiveInv, NEW r \in Ingestions, NextRoute(r)
  PROVE  LiveInv'
  <1>t. LiveTypes /\ CountIsKept /\ RowTyped(r)
    BY TypedRows DEF LiveInv
  <1>r. RowInv(r)
    BY DEF LiveInv
  <1>o. RouteOrder(r) /\ custom \subseteq Routes
    BY <1>t, RoutesOrdered DEF LiveTypes
  <1>y. /\ job \in [Ingestions -> JobRow] /\ post \in [Ingestions -> PostRow]
        /\ job[r] \in JobRow /\ post[r] \in PostRow /\ r \in Ingestions
        /\ job[r].dest \in [Routes -> DestStates] /\ job[r].id \in [Routes -> KnownIds]
        /\ post[r].at + 1 \in Nat /\ job[r].tries + 1 \in Nat
    BY <1>t DEF LiveTypes, RowTyped
  <1>1. CASE post[r].at > LastRoute
    <2>1. post[r].pc = "next"
      BY <1>1 DEF NextRoute
    <2>2. post' = [post EXCEPT ![r] = [post[r] EXCEPT !.pc = "posted"]]
      BY <1>1 DEF NextRoute, GoPost
    <2>3. /\ post'[r] \in PostRow /\ post'[r].pc = "posted" /\ post'[r].by = post[r].by
          /\ post'[r].at = post[r].at /\ post'[r].error = post[r].error /\ post'[r].id = post[r].id
          /\ post'[r].upload = post[r].upload
          /\ \A q \in Ingestions : q # r => post'[q] = post[q]
          /\ post' \in [Ingestions -> PostRow]
      BY <1>y, <2>2 DEF PostRow, KnownIds
    <2>4. UNCHANGED <<custom, message, entry, job, settler, bare, right, vouched, excused, deletedFor>>
      BY <1>1 DEF NextRoute, shown, record, budget
    <2>5. /\ \A e \in Routes : (Present(r, e)' <=> Present(r, e)) /\ (AtMostOne(r, e)' <=> AtMostOne(r, e))
          /\ \A e \in Routes : AsWanted(r, e)' <=> AsWanted(r, e)
      BY <2>4 DEF Present, AtMostOne, AsWanted
    <2>6. RowInv(r)'
      BY <1>r, <2>1, <2>3, <2>4, <2>5, <1>1 DEF RowInv, PostIsHeld, AtRoute, RowIsNew,
         DirectIsFirst, DoubtIsHeld, AnswerIsTrue, Edits, Native, KnownIsThere, AheadIsUnsent,
         Unsent, Ahead, TargetIsUnsent, CaptionsAreKnown, DeletedIsOver, RowIsDelivered, RowIsShown,
         RowIsSentOnce
    <2>7. LiveTypes' /\ CountIsKept' /\ OnlyRow(r)
      BY <1>t, <2>3, <2>4, <2>1, <1>1 DEF OnlyRow, LiveTypes, CountIsKept
    <2> QED
      BY <1>t, <2>6, <2>7, OneRow
  <1>2. CASE post[r].at <= LastRoute /\ job[r].dest[post[r].at] \in {"forwarded", "uncertain"}
    <2>1. post[r].pc = "next" /\ post[r].at \in Routes /\ post[r].at + 1 >= 1 /\
              post[r].at + 1 <= LastRoute + 1
      BY <1>2, <1>t, <1>r, LastRouteTyped DEF NextRoute, RowInv, PostIsHeld, RowTyped
    <2>2. post' = [post EXCEPT ![r] = [post[r] EXCEPT !.at = post[r].at + 1]]
      BY <1>2, <1>t DEF NextRoute, RowTyped
    <2>3. /\ post'[r] \in PostRow /\ post'[r].pc = post[r].pc /\ post'[r].by = post[r].by
          /\ post'[r].at = post[r].at + 1 /\ post'[r].error = post[r].error
          /\ post'[r].id = post[r].id /\ post'[r].upload = post[r].upload
          /\ \A q \in Ingestions : q # r => post'[q] = post[q]
          /\ post' \in [Ingestions -> PostRow]
      BY <1>y, <2>2 DEF PostRow, KnownIds
    <2>4. UNCHANGED <<custom, message, entry, job, settler, bare, right, vouched, excused, deletedFor>>
      BY <1>2 DEF NextRoute, shown, record, budget, RowTyped
    <2>5. /\ \A e \in Routes : (Present(r, e)' <=> Present(r, e)) /\ (AtMostOne(r, e)' <=> AtMostOne(r, e))
          /\ \A e \in Routes : AsWanted(r, e)' <=> AsWanted(r, e)
      BY <2>4 DEF Present, AtMostOne, AsWanted
    <2>6. /\ RowIsNew(r)' /\ DoubtIsHeld(r)' /\ AnswerIsTrue(r)' /\ KnownIsThere(r)'
          /\ TargetIsUnsent(r)' /\ DeletedIsOver(r)' /\ RowIsDelivered(r)' /\ RowIsShown(r)'
          /\ RowIsSentOnce(r)'
      BY <1>r, <2>1, <2>3, <2>4, <2>5, <1>2 DEF RowInv, RowIsNew, DoubtIsHeld, AnswerIsTrue, Edits,
         Native, KnownIsThere, AtRoute, TargetIsUnsent, Unsent, DeletedIsOver, RowIsDelivered,
         RowIsShown, RowIsSentOnce
    <2>7. PostIsHeld(r)'
      BY <1>t, <1>o, <1>r, <2>1, <2>3, <2>4, <2>5, <1>2 DEF RowInv, PostIsHeld, AtRoute, RowIsNew,
         DirectIsFirst, DoubtIsHeld, AnswerIsTrue, Edits, Native, KnownIsThere, AheadIsUnsent,
         Unsent, Ahead, TargetIsUnsent, CaptionsAreKnown, DeletedIsOver, RowIsDelivered, RowIsShown,
         RowIsSentOnce, RouteOrder, RowTyped
    <2>8. DirectIsFirst(r)'
      BY <1>o, <1>r, <2>1, <2>3, <2>4, <2>5, <1>2 DEF RowInv, DirectIsFirst, PostIsHeld, AtRoute,
         AnswerIsTrue, Edits, Native, RouteOrder
    <2>9. AheadIsUnsent(r)'
      BY <1>o, <1>r, <2>1, <2>3, <2>4, <2>5, <1>2 DEF RowInv, AheadIsUnsent, Unsent, Ahead, AtRoute,
         PostIsHeld, DirectIsFirst, TargetIsUnsent, Native, Edits, AnswerIsTrue, RouteOrder
    <2>10. CaptionsAreKnown(r)'
      BY <1>o, <1>r, <2>1, <2>3, <2>4, <2>5, <1>2 DEF RowInv, CaptionsAreKnown, AtRoute, PostIsHeld,
         RouteOrder
    <2>11. LiveTypes' /\ CountIsKept' /\ OnlyRow(r)
      BY <1>t, <2>3, <2>4, <2>1, <1>2 DEF OnlyRow, LiveTypes, CountIsKept
    <2> QED
      BY <1>t, <2>6, <2>7, <2>8, <2>9, <2>10, <2>11, OneRow DEF RowInv
  <1>3. CASE post[r].at <= LastRoute /\
                 job[r].dest[post[r].at] \notin {"forwarded", "uncertain"} /\ post[r].by = "direct"
    <2>1. post[r].pc = "next" /\ post[r].at \in Routes /\ ~(post[r].at > LastRoute)
      BY <1>3, <1>t, <1>r, LastRouteTyped DEF NextRoute, RowInv, PostIsHeld, RowTyped
    <2>2. job[r].dest[post[r].at] \in {"pending", "processing", "failed"}
      BY <1>3, <2>1, <1>y DEF DestStates
    <2>3. Native(r)
      BY <1>3, <2>2, <2>1, <1>r DEF RowInv, DirectIsFirst, Native
    <2>4. ~CopyKnown(r)
      BY <1>3, <2>2, <2>3, <2>1, <1>r DEF CopyKnown, Edits, Native, RowInv, DirectIsFirst
    <2>5. job' = [job EXCEPT ![r] = [job[r] EXCEPT !.dest[post[r].at] = "processing"]]
      BY <1>3, <2>2, <2>3, <2>4, <1>t DEF NextRoute, RowTyped
    <2>6. [job[r].dest EXCEPT ![post[r].at] = "processing"] \in [Routes -> DestStates]
      BY <1>y, <2>1, <1>3, <2>2, <2>3, <2>4 DEF DestStates, KnownIds, PostRow
    <2>7. /\ job'[r] \in JobRow /\ job'[r].status = job[r].status /\ job'[r].stage = job[r].stage
          /\ job'[r].path = job[r].path /\ job'[r].tries = job[r].tries
          /\ job'[r].dest = [job[r].dest EXCEPT ![post[r].at] = "processing"]
          /\ job'[r].id = job[r].id
          /\ \A q \in Ingestions : q # r => job'[q] = job[q]
          /\ job' \in [Ingestions -> JobRow]
      BY <1>y, <2>5, <2>6 DEF JobRow
    <2>8. \A e \in Routes : job'[r].dest[e] = IF e = post[r].at THEN "processing" ELSE job[r].dest[e]
      BY <1>y, <2>7, <2>1
    <2>9. Starts(r, CopyKnown(r))
      BY <1>3, <2>2, <2>3, <2>4, <2>1, RouteStarts
    <2>10. post' = [post EXCEPT ![r].error = "none", ![r].upload = FALSE, ![r].id = "none",
               ![r].pc = "send"]
      BY <2>9, <1>3, <2>2, <2>3, <2>4, <1>t DEF Starts
    <2>11. post' = [post EXCEPT ![r] = [post[r] EXCEPT !.error = "none", !.upload = FALSE,
               !.id = "none", !.pc = "send"]]
      BY <1>y, <2>10
    <2>12. /\ post'[r] \in PostRow /\ post'[r].pc = "send" /\ post'[r].by = post[r].by
           /\ post'[r].at = post[r].at /\ post'[r].error = "none" /\ post'[r].id = "none"
           /\ post'[r].upload = FALSE
           /\ \A q \in Ingestions : q # r => post'[q] = post[q]
           /\ post' \in [Ingestions -> PostRow]
      BY <1>y, <2>11 DEF PostRow, KnownIds
    <2>13. UNCHANGED <<custom, message, entry, settler, bare, right, vouched, excused, deletedFor>>
      BY <1>3, <2>2, <2>3, <2>4 DEF NextRoute, shown, record, budget
    <2>14. /\ \A e \in Routes : (Present(r, e)' <=> Present(r, e)) /\ (AtMostOne(r, e)' <=> AtMostOne(r, e))
           /\ \A e \in Routes : AsWanted(r, e)' <=> AsWanted(r, e)
      BY <2>13 DEF Present, AtMostOne, AsWanted
    <2>15. /\ PostIsHeld(r)' /\ DirectIsFirst(r)' /\ DoubtIsHeld(r)' /\ KnownIsThere(r)'
           /\ CaptionsAreKnown(r)'
      BY <1>r, <2>1, <2>7, <2>8, <2>12, <2>13, <2>14, <1>3, <2>2, <2>3, <2>4 DEF RowInv, PostIsHeld,
         AtRoute, DirectIsFirst, DoubtIsHeld, KnownIsThere, CaptionsAreKnown
    <2>16. DeletedIsOver(r)' /\ RowIsDelivered(r)' /\ RowIsShown(r)' /\ RowIsSentOnce(r)'
      BY <1>r, <2>1, <2>7, <2>8, <2>12, <2>13, <2>14, <1>3, <2>2, <2>3, <2>4 DEF RowInv,
         DeletedIsOver, RowIsDelivered, RowIsShown, RowIsSentOnce
    <2>17. RowIsNew(r)'
      BY <1>r, <2>1, <2>7, <2>8, <2>12, <2>13, <2>14, <1>3, <2>2, <2>3, <2>4 DEF RowInv, RowIsNew,
         PostIsHeld, AtRoute
    <2>18. AnswerIsTrue(r)'
      BY <1>r, <2>1, <2>7, <2>8, <2>12, <2>13, <2>14, <1>3, <2>2, <2>3, <2>4 DEF RowInv,
         AnswerIsTrue, Edits, Native, PostIsHeld, AtRoute
    <2>19. AheadIsUnsent(r)'
      BY <1>o, <1>r, <2>1, <2>7, <2>8, <2>12, <2>13, <2>14, <1>3, <2>2, <2>3, <2>4 DEF RowInv,
         AheadIsUnsent, Unsent, Ahead, AtRoute, PostIsHeld, DirectIsFirst, TargetIsUnsent, Native,
         Edits, AnswerIsTrue, RouteOrder
    <2>20. TargetIsUnsent(r)'
      BY <1>o, <1>r, <2>1, <2>7, <2>8, <2>12, <2>13, <2>14, <1>3, <2>2, <2>3, <2>4 DEF RowInv,
         TargetIsUnsent, Unsent, Native, Edits, AheadIsUnsent, Ahead, AtRoute, AnswerIsTrue,
         DirectIsFirst, CaptionsAreKnown, RouteOrder
    <2>21. LiveTypes' /\ CountIsKept' /\ OnlyRow(r)
      BY <1>t, <2>7, <2>12, <2>13, <2>1, <1>3, <2>2, <2>3, <2>4 DEF OnlyRow, LiveTypes, CountIsKept
    <2> QED
      BY <1>t, <2>15, <2>16, <2>17, <2>18, <2>19, <2>20, <2>21, OneRow DEF RowInv
  <1>4. CASE post[r].at <= LastRoute /\
                 job[r].dest[post[r].at] \notin {"forwarded", "uncertain"} /\
                 post[r].by # "direct" /\ ~Native(r) /\ CopyKnown(r)
    <2>1. post[r].pc = "next" /\ post[r].at \in Routes /\ ~(post[r].at > LastRoute)
      BY <1>4, <1>t, <1>r, LastRouteTyped DEF NextRoute, RowInv, PostIsHeld, RowTyped
    <2>2. job[r].dest[post[r].at] \in {"pending", "processing", "failed"}
      BY <1>4, <2>1, <1>y DEF DestStates
    <2>3. Edits(r) /\ job[r].id[post[r].at] # "none"
      BY <1>4, <2>2, <2>1 DEF CopyKnown
    <2>4. post[r].by = "queue"
      BY <1>4, <2>2, <2>3, <2>1, <1>y, <1>r DEF PostRow, RowInv, PostIsHeld
    <2>5. job' = [job EXCEPT ![r] = [job[r] EXCEPT !.dest[post[r].at] = "processing"]]
      BY <1>4, <2>2, <2>3, <2>4, <1>t DEF NextRoute, RowTyped
    <2>6. [job[r].dest EXCEPT ![post[r].at] = "processing"] \in [Routes -> DestStates]
      BY <1>y, <2>1, <1>4, <2>2, <2>3, <2>4 DEF DestStates, KnownIds, PostRow
    <2>7. /\ job'[r] \in JobRow /\ job'[r].status = job[r].status /\ job'[r].stage = job[r].stage
          /\ job'[r].path = job[r].path /\ job'[r].tries = job[r].tries
          /\ job'[r].dest = [job[r].dest EXCEPT ![post[r].at] = "processing"]
          /\ job'[r].id = job[r].id
          /\ \A q \in Ingestions : q # r => job'[q] = job[q]
          /\ job' \in [Ingestions -> JobRow]
      BY <1>y, <2>5, <2>6 DEF JobRow
    <2>8. \A e \in Routes : job'[r].dest[e] = IF e = post[r].at THEN "processing" ELSE job[r].dest[e]
      BY <1>y, <2>7, <2>1
    <2>9. Starts(r, CopyKnown(r))
      BY <1>4, <2>2, <2>3, <2>4, <2>1, RouteStarts
    <2>10. post' = [post EXCEPT ![r].error = "none", ![r].upload = FALSE,
               ![r].id = job[r].id[post[r].at], ![r].pc = "upload"]
      BY <2>9, <1>4, <2>2, <2>3, <2>4, <1>t DEF Starts
    <2>11. post' = [post EXCEPT ![r] = [post[r] EXCEPT !.error = "none", !.upload = FALSE,
               !.id = job[r].id[post[r].at], !.pc = "upload"]]
      BY <1>y, <2>10
    <2>12. /\ post'[r] \in PostRow /\ post'[r].pc = "upload" /\ post'[r].by = post[r].by
           /\ post'[r].at = post[r].at /\ post'[r].error = "none"
           /\ post'[r].id = job[r].id[post[r].at] /\ post'[r].upload = FALSE
           /\ \A q \in Ingestions : q # r => post'[q] = post[q]
           /\ post' \in [Ingestions -> PostRow]
      BY <1>y, <2>11, <2>1, <1>4, <2>2, <2>3, <2>4 DEF PostRow, KnownIds
    <2>13. UNCHANGED <<custom, message, entry, settler, bare, right, vouched, excused, deletedFor>>
      BY <1>4, <2>2, <2>3, <2>4 DEF NextRoute, shown, record, budget
    <2>14. /\ \A e \in Routes : (Present(r, e)' <=> Present(r, e)) /\ (AtMostOne(r, e)' <=> AtMostOne(r, e))
           /\ \A e \in Routes : AsWanted(r, e)' <=> AsWanted(r, e)
      BY <2>13 DEF Present, AtMostOne, AsWanted
    <2>15. /\ RowIsNew(r)' /\ DirectIsFirst(r)' /\ DoubtIsHeld(r)' /\ AnswerIsTrue(r)'
           /\ KnownIsThere(r)'
      BY <1>r, <2>1, <2>7, <2>8, <2>12, <2>13, <2>14, <1>4, <2>2, <2>3, <2>4 DEF RowInv, RowIsNew,
         DirectIsFirst, DoubtIsHeld, AnswerIsTrue, Edits, Native, KnownIsThere, AtRoute
    <2>16. /\ CaptionsAreKnown(r)' /\ DeletedIsOver(r)' /\ RowIsDelivered(r)' /\ RowIsShown(r)'
           /\ RowIsSentOnce(r)'
      BY <1>r, <2>1, <2>7, <2>8, <2>12, <2>13, <2>14, <1>4, <2>2, <2>3, <2>4 DEF RowInv,
         CaptionsAreKnown, AtRoute, DeletedIsOver, RowIsDelivered, RowIsShown, RowIsSentOnce
    <2>17. PostIsHeld(r)'
      BY <1>o, <1>r, <2>1, <2>7, <2>8, <2>12, <2>13, <2>14, <1>4, <2>2, <2>3, <2>4 DEF RowInv,
         PostIsHeld, AtRoute, RouteOrder
    <2>18. AheadIsUnsent(r)'
      BY <1>o, <1>r, <2>1, <2>7, <2>8, <2>12, <2>13, <2>14, <1>4, <2>2, <2>3, <2>4 DEF RowInv,
         AheadIsUnsent, Unsent, Ahead, AtRoute, PostIsHeld, DirectIsFirst, TargetIsUnsent, Native,
         Edits, AnswerIsTrue, RouteOrder
    <2>19. TargetIsUnsent(r)'
      BY <1>o, <1>r, <2>1, <2>7, <2>8, <2>12, <2>13, <2>14, <1>4, <2>2, <2>3, <2>4 DEF RowInv,
         TargetIsUnsent, Unsent, Native, Edits, AheadIsUnsent, Ahead, AtRoute, AnswerIsTrue,
         DirectIsFirst, CaptionsAreKnown, RouteOrder
    <2>20. LiveTypes' /\ CountIsKept' /\ OnlyRow(r)
      BY <1>t, <2>7, <2>12, <2>13, <2>1, <1>4, <2>2, <2>3, <2>4 DEF OnlyRow, LiveTypes, CountIsKept
    <2> QED
      BY <1>t, <2>15, <2>16, <2>17, <2>18, <2>19, <2>20, OneRow DEF RowInv
  <1>5. CASE post[r].at <= LastRoute /\
                 job[r].dest[post[r].at] \notin {"forwarded", "uncertain"} /\
                 post[r].by # "direct" /\ ~Native(r) /\ ~CopyKnown(r)
    <2>1. post[r].pc = "next" /\ post[r].at \in Routes /\ ~(post[r].at > LastRoute)
      BY <1>5, <1>t, <1>r, LastRouteTyped DEF NextRoute, RowInv, PostIsHeld, RowTyped
    <2>2. job[r].dest[post[r].at] \in {"pending", "processing", "failed"}
      BY <1>5, <2>1, <1>y DEF DestStates
    <2>3. ~(Edits(r) /\ job[r].id[post[r].at] # "none")
      BY <1>5, <2>2, <2>1 DEF CopyKnown
    <2>4. post[r].by = "queue"
      BY <1>5, <2>2, <2>3, <2>1, <1>y, <1>r DEF PostRow, RowInv, PostIsHeld
    <2>5. job' = [job EXCEPT ![r] = [job[r] EXCEPT !.dest[post[r].at] = "processing"]]
      BY <1>5, <2>2, <2>3, <2>4, <1>t DEF NextRoute, RowTyped
    <2>6. [job[r].dest EXCEPT ![post[r].at] = "processing"] \in [Routes -> DestStates]
      BY <1>y, <2>1, <1>5, <2>2, <2>3, <2>4 DEF DestStates, KnownIds, PostRow
    <2>7. /\ job'[r] \in JobRow /\ job'[r].status = job[r].status /\ job'[r].stage = job[r].stage
          /\ job'[r].path = job[r].path /\ job'[r].tries = job[r].tries
          /\ job'[r].dest = [job[r].dest EXCEPT ![post[r].at] = "processing"]
          /\ job'[r].id = job[r].id
          /\ \A q \in Ingestions : q # r => job'[q] = job[q]
          /\ job' \in [Ingestions -> JobRow]
      BY <1>y, <2>5, <2>6 DEF JobRow
    <2>8. \A e \in Routes : job'[r].dest[e] = IF e = post[r].at THEN "processing" ELSE job[r].dest[e]
      BY <1>y, <2>7, <2>1
    <2>9. Starts(r, CopyKnown(r))
      BY <1>5, <2>2, <2>3, <2>4, <2>1, RouteStarts
    <2>10. post' = [post EXCEPT ![r].error = "none", ![r].upload = FALSE, ![r].id = "none",
               ![r].pc = "upload"]
      BY <2>9, <1>5, <2>2, <2>3, <2>4, <1>t DEF Starts
    <2>11. post' = [post EXCEPT ![r] = [post[r] EXCEPT !.error = "none", !.upload = FALSE,
               !.id = "none", !.pc = "upload"]]
      BY <1>y, <2>10
    <2>12. /\ post'[r] \in PostRow /\ post'[r].pc = "upload" /\ post'[r].by = post[r].by
           /\ post'[r].at = post[r].at /\ post'[r].error = "none" /\ post'[r].id = "none"
           /\ post'[r].upload = FALSE
           /\ \A q \in Ingestions : q # r => post'[q] = post[q]
           /\ post' \in [Ingestions -> PostRow]
      BY <1>y, <2>11 DEF PostRow, KnownIds
    <2>13. UNCHANGED <<custom, message, entry, settler, bare, right, vouched, excused, deletedFor>>
      BY <1>5, <2>2, <2>3, <2>4 DEF NextRoute, shown, record, budget
    <2>14. /\ \A e \in Routes : (Present(r, e)' <=> Present(r, e)) /\ (AtMostOne(r, e)' <=> AtMostOne(r, e))
           /\ \A e \in Routes : AsWanted(r, e)' <=> AsWanted(r, e)
      BY <2>13 DEF Present, AtMostOne, AsWanted
    <2>15. /\ DirectIsFirst(r)' /\ DoubtIsHeld(r)' /\ AnswerIsTrue(r)' /\ KnownIsThere(r)'
           /\ CaptionsAreKnown(r)'
      BY <1>r, <2>1, <2>7, <2>8, <2>12, <2>13, <2>14, <1>5, <2>2, <2>3, <2>4 DEF RowInv,
         DirectIsFirst, DoubtIsHeld, AnswerIsTrue, Edits, Native, KnownIsThere, AtRoute,
         CaptionsAreKnown
    <2>16. DeletedIsOver(r)' /\ RowIsDelivered(r)' /\ RowIsShown(r)' /\ RowIsSentOnce(r)'
      BY <1>r, <2>1, <2>7, <2>8, <2>12, <2>13, <2>14, <1>5, <2>2, <2>3, <2>4 DEF RowInv,
         DeletedIsOver, RowIsDelivered, RowIsShown, RowIsSentOnce
    <2>17. PostIsHeld(r)'
      BY <1>o, <1>r, <2>1, <2>7, <2>8, <2>12, <2>13, <2>14, <1>5, <2>2, <2>3, <2>4 DEF RowInv,
         PostIsHeld, AtRoute, RouteOrder
    <2>18. RowIsNew(r)'
      BY <1>r, <2>1, <2>7, <2>8, <2>12, <2>13, <2>14, <1>5, <2>2, <2>3, <2>4 DEF RowInv, RowIsNew,
         PostIsHeld, AtRoute
    <2>19. AheadIsUnsent(r)'
      BY <1>o, <1>r, <2>1, <2>7, <2>8, <2>12, <2>13, <2>14, <1>5, <2>2, <2>3, <2>4 DEF RowInv,
         AheadIsUnsent, Unsent, Ahead, AtRoute, PostIsHeld, DirectIsFirst, TargetIsUnsent, Native,
         Edits, AnswerIsTrue, RouteOrder
    <2>20. TargetIsUnsent(r)'
      BY <1>o, <1>r, <2>1, <2>7, <2>8, <2>12, <2>13, <2>14, <1>5, <2>2, <2>3, <2>4 DEF RowInv,
         TargetIsUnsent, Unsent, Native, Edits, AheadIsUnsent, Ahead, AtRoute, AnswerIsTrue,
         DirectIsFirst, CaptionsAreKnown, RouteOrder
    <2>21. LiveTypes' /\ CountIsKept' /\ OnlyRow(r)
      BY <1>t, <2>7, <2>12, <2>13, <2>1, <1>5, <2>2, <2>3, <2>4 DEF OnlyRow, LiveTypes, CountIsKept
    <2> QED
      BY <1>t, <2>15, <2>16, <2>17, <2>18, <2>19, <2>20, <2>21, OneRow DEF RowInv
  <1>6. CASE post[r].at <= LastRoute /\
                 job[r].dest[post[r].at] \notin {"forwarded", "uncertain"} /\
                 post[r].by # "direct" /\ Native(r) /\ CopyKnown(r)
    <2>1. post[r].pc = "next" /\ post[r].at \in Routes /\ ~(post[r].at > LastRoute)
      BY <1>6, <1>t, <1>r, LastRouteTyped DEF NextRoute, RowInv, PostIsHeld, RowTyped
    <2>2. job[r].dest[post[r].at] \in {"pending", "processing", "failed"}
      BY <1>6, <2>1, <1>y DEF DestStates
    <2>3. Edits(r) /\ job[r].id[post[r].at] # "none"
      BY <1>6, <2>2, <2>1 DEF CopyKnown
    <2>4. post[r].by = "queue"
      BY <1>6, <2>2, <2>3, <2>1, <1>y, <1>r DEF PostRow, RowInv, PostIsHeld
    <2>5. job' = [job EXCEPT ![r] = [job[r] EXCEPT !.dest[post[r].at] = "processing"]]
      BY <1>6, <2>2, <2>3, <2>4, <1>t DEF NextRoute, RowTyped
    <2>6. [job[r].dest EXCEPT ![post[r].at] = "processing"] \in [Routes -> DestStates]
      BY <1>y, <2>1, <1>6, <2>2, <2>3, <2>4 DEF DestStates, KnownIds, PostRow
    <2>7. /\ job'[r] \in JobRow /\ job'[r].status = job[r].status /\ job'[r].stage = job[r].stage
          /\ job'[r].path = job[r].path /\ job'[r].tries = job[r].tries
          /\ job'[r].dest = [job[r].dest EXCEPT ![post[r].at] = "processing"]
          /\ job'[r].id = job[r].id
          /\ \A q \in Ingestions : q # r => job'[q] = job[q]
          /\ job' \in [Ingestions -> JobRow]
      BY <1>y, <2>5, <2>6 DEF JobRow
    <2>8. \A e \in Routes : job'[r].dest[e] = IF e = post[r].at THEN "processing" ELSE job[r].dest[e]
      BY <1>y, <2>7, <2>1
    <2>9. Starts(r, CopyKnown(r))
      BY <1>6, <2>2, <2>3, <2>4, <2>1, RouteStarts
    <2>10. post' = [post EXCEPT ![r].error = "none", ![r].upload = FALSE,
               ![r].id = job[r].id[post[r].at], ![r].pc = "edit"]
      BY <2>9, <1>6, <2>2, <2>3, <2>4, <1>t DEF Starts
    <2>11. post' = [post EXCEPT ![r] = [post[r] EXCEPT !.error = "none", !.upload = FALSE,
               !.id = job[r].id[post[r].at], !.pc = "edit"]]
      BY <1>y, <2>10
    <2>12. /\ post'[r] \in PostRow /\ post'[r].pc = "edit" /\ post'[r].by = post[r].by
           /\ post'[r].at = post[r].at /\ post'[r].error = "none"
           /\ post'[r].id = job[r].id[post[r].at] /\ post'[r].upload = FALSE
           /\ \A q \in Ingestions : q # r => post'[q] = post[q]
           /\ post' \in [Ingestions -> PostRow]
      BY <1>y, <2>11, <2>1, <1>6, <2>2, <2>3, <2>4 DEF PostRow, KnownIds
    <2>13. UNCHANGED <<custom, message, entry, settler, bare, right, vouched, excused, deletedFor>>
      BY <1>6, <2>2, <2>3, <2>4 DEF NextRoute, shown, record, budget
    <2>14. /\ \A e \in Routes : (Present(r, e)' <=> Present(r, e)) /\ (AtMostOne(r, e)' <=> AtMostOne(r, e))
           /\ \A e \in Routes : AsWanted(r, e)' <=> AsWanted(r, e)
      BY <2>13 DEF Present, AtMostOne, AsWanted
    <2>15. /\ PostIsHeld(r)' /\ RowIsNew(r)' /\ DirectIsFirst(r)' /\ DoubtIsHeld(r)'
           /\ AnswerIsTrue(r)'
      BY <1>r, <2>1, <2>7, <2>8, <2>12, <2>13, <2>14, <1>6, <2>2, <2>3, <2>4 DEF RowInv, PostIsHeld,
         AtRoute, RowIsNew, DirectIsFirst, DoubtIsHeld, AnswerIsTrue, Edits, Native
    <2>16. /\ KnownIsThere(r)' /\ CaptionsAreKnown(r)' /\ RowIsDelivered(r)' /\ RowIsShown(r)'
           /\ RowIsSentOnce(r)'
      BY <1>r, <2>1, <2>7, <2>8, <2>12, <2>13, <2>14, <1>6, <2>2, <2>3, <2>4 DEF RowInv,
         KnownIsThere, AtRoute, CaptionsAreKnown, RowIsDelivered, RowIsShown, RowIsSentOnce
    <2>17. AheadIsUnsent(r)'
      BY <1>o, <1>r, <2>1, <2>7, <2>8, <2>12, <2>13, <2>14, <1>6, <2>2, <2>3, <2>4 DEF RowInv,
         AheadIsUnsent, Unsent, Ahead, AtRoute, PostIsHeld, DirectIsFirst, TargetIsUnsent, Native,
         Edits, AnswerIsTrue, RouteOrder
    <2>18. TargetIsUnsent(r)'
      BY <1>o, <1>r, <2>1, <2>7, <2>8, <2>12, <2>13, <2>14, <1>6, <2>2, <2>3, <2>4 DEF RowInv,
         TargetIsUnsent, Unsent, Native, Edits, AheadIsUnsent, Ahead, AtRoute, AnswerIsTrue,
         DirectIsFirst, CaptionsAreKnown, RouteOrder
    <2>19. DeletedIsOver(r)'
      BY <1>r, <2>1, <2>7, <2>8, <2>12, <2>13, <2>14, <1>6, <2>2, <2>3, <2>4 DEF RowInv,
         DeletedIsOver, PostIsHeld, AtRoute, AnswerIsTrue, Edits, Native
    <2>20. LiveTypes' /\ CountIsKept' /\ OnlyRow(r)
      BY <1>t, <2>7, <2>12, <2>13, <2>1, <1>6, <2>2, <2>3, <2>4 DEF OnlyRow, LiveTypes, CountIsKept
    <2> QED
      BY <1>t, <2>15, <2>16, <2>17, <2>18, <2>19, <2>20, OneRow DEF RowInv
  <1>7. CASE post[r].at <= LastRoute /\
                 job[r].dest[post[r].at] \notin {"forwarded", "uncertain"} /\
                 post[r].by # "direct" /\ Native(r) /\ ~CopyKnown(r)
    <2>1. post[r].pc = "next" /\ post[r].at \in Routes /\ ~(post[r].at > LastRoute)
      BY <1>7, <1>t, <1>r, LastRouteTyped DEF NextRoute, RowInv, PostIsHeld, RowTyped
    <2>2. job[r].dest[post[r].at] \in {"pending", "processing", "failed"}
      BY <1>7, <2>1, <1>y DEF DestStates
    <2>3. ~(Edits(r) /\ job[r].id[post[r].at] # "none")
      BY <1>7, <2>2, <2>1 DEF CopyKnown
    <2>4. post[r].by = "queue"
      BY <1>7, <2>2, <2>3, <2>1, <1>y, <1>r DEF PostRow, RowInv, PostIsHeld
    <2>5. job' = [job EXCEPT ![r] = [job[r] EXCEPT !.dest[post[r].at] = "processing"]]
      BY <1>7, <2>2, <2>3, <2>4, <1>t DEF NextRoute, RowTyped
    <2>6. [job[r].dest EXCEPT ![post[r].at] = "processing"] \in [Routes -> DestStates]
      BY <1>y, <2>1, <1>7, <2>2, <2>3, <2>4 DEF DestStates, KnownIds, PostRow
    <2>7. /\ job'[r] \in JobRow /\ job'[r].status = job[r].status /\ job'[r].stage = job[r].stage
          /\ job'[r].path = job[r].path /\ job'[r].tries = job[r].tries
          /\ job'[r].dest = [job[r].dest EXCEPT ![post[r].at] = "processing"]
          /\ job'[r].id = job[r].id
          /\ \A q \in Ingestions : q # r => job'[q] = job[q]
          /\ job' \in [Ingestions -> JobRow]
      BY <1>y, <2>5, <2>6 DEF JobRow
    <2>8. \A e \in Routes : job'[r].dest[e] = IF e = post[r].at THEN "processing" ELSE job[r].dest[e]
      BY <1>y, <2>7, <2>1
    <2>9. Starts(r, CopyKnown(r))
      BY <1>7, <2>2, <2>3, <2>4, <2>1, RouteStarts
    <2>10. post' = [post EXCEPT ![r].error = "none", ![r].upload = FALSE, ![r].id = "none",
               ![r].pc = "send"]
      BY <2>9, <1>7, <2>2, <2>3, <2>4, <1>t DEF Starts
    <2>11. post' = [post EXCEPT ![r] = [post[r] EXCEPT !.error = "none", !.upload = FALSE,
               !.id = "none", !.pc = "send"]]
      BY <1>y, <2>10
    <2>12. /\ post'[r] \in PostRow /\ post'[r].pc = "send" /\ post'[r].by = post[r].by
           /\ post'[r].at = post[r].at /\ post'[r].error = "none" /\ post'[r].id = "none"
           /\ post'[r].upload = FALSE
           /\ \A q \in Ingestions : q # r => post'[q] = post[q]
           /\ post' \in [Ingestions -> PostRow]
      BY <1>y, <2>11 DEF PostRow, KnownIds
    <2>13. UNCHANGED <<custom, message, entry, settler, bare, right, vouched, excused, deletedFor>>
      BY <1>7, <2>2, <2>3, <2>4 DEF NextRoute, shown, record, budget
    <2>14. /\ \A e \in Routes : (Present(r, e)' <=> Present(r, e)) /\ (AtMostOne(r, e)' <=> AtMostOne(r, e))
           /\ \A e \in Routes : AsWanted(r, e)' <=> AsWanted(r, e)
      BY <2>13 DEF Present, AtMostOne, AsWanted
    <2>15. /\ PostIsHeld(r)' /\ DirectIsFirst(r)' /\ DoubtIsHeld(r)' /\ AnswerIsTrue(r)'
           /\ KnownIsThere(r)'
      BY <1>r, <2>1, <2>7, <2>8, <2>12, <2>13, <2>14, <1>7, <2>2, <2>3, <2>4 DEF RowInv, PostIsHeld,
         AtRoute, DirectIsFirst, DoubtIsHeld, AnswerIsTrue, Edits, Native, KnownIsThere
    <2>16. CaptionsAreKnown(r)' /\ RowIsDelivered(r)' /\ RowIsShown(r)' /\ RowIsSentOnce(r)'
      BY <1>r, <2>1, <2>7, <2>8, <2>12, <2>13, <2>14, <1>7, <2>2, <2>3, <2>4 DEF RowInv,
         CaptionsAreKnown, AtRoute, RowIsDelivered, RowIsShown, RowIsSentOnce
    <2>17. RowIsNew(r)'
      BY <1>r, <2>1, <2>7, <2>8, <2>12, <2>13, <2>14, <1>7, <2>2, <2>3, <2>4 DEF RowInv, RowIsNew,
         PostIsHeld, AtRoute
    <2>18. AheadIsUnsent(r)'
      BY <1>o, <1>r, <2>1, <2>7, <2>8, <2>12, <2>13, <2>14, <1>7, <2>2, <2>3, <2>4 DEF RowInv,
         AheadIsUnsent, Unsent, Ahead, AtRoute, PostIsHeld, DirectIsFirst, TargetIsUnsent, Native,
         Edits, AnswerIsTrue, RouteOrder
    <2>19. TargetIsUnsent(r)'
      BY <1>o, <1>r, <2>1, <2>7, <2>8, <2>12, <2>13, <2>14, <1>7, <2>2, <2>3, <2>4 DEF RowInv,
         TargetIsUnsent, Unsent, Native, Edits, AheadIsUnsent, Ahead, AtRoute, AnswerIsTrue,
         DirectIsFirst, CaptionsAreKnown, RouteOrder
    <2>20. DeletedIsOver(r)'
      BY <1>r, <2>1, <2>7, <2>8, <2>12, <2>13, <2>14, <1>7, <2>2, <2>3, <2>4 DEF RowInv,
         DeletedIsOver, PostIsHeld, AtRoute, AnswerIsTrue, Edits, Native
    <2>21. LiveTypes' /\ CountIsKept' /\ OnlyRow(r)
      BY <1>t, <2>7, <2>12, <2>13, <2>1, <1>7, <2>2, <2>3, <2>4 DEF OnlyRow, LiveTypes, CountIsKept
    <2> QED
      BY <1>t, <2>15, <2>16, <2>17, <2>18, <2>19, <2>20, <2>21, OneRow DEF RowInv
  <1> QED
    BY <1>1, <1>2, <1>3, <1>4, <1>5, <1>6, <1>7, <1>t DEF RowTyped

\* Telegram forwards the message once,
LEMMA SendNativeKept ==
  ASSUME LiveInv, NEW r \in Ingestions, SendNative(r)
  PROVE  LiveInv'
  <1>t. LiveTypes /\ CountIsKept /\ RowTyped(r)
    BY TypedRows DEF LiveInv
  <1>r. RowInv(r)
    BY DEF LiveInv
  <1>o. RouteOrder(r) /\ custom \subseteq Routes
    BY <1>t, RoutesOrdered DEF LiveTypes
  <1>y. /\ job \in [Ingestions -> JobRow] /\ post \in [Ingestions -> PostRow]
        /\ job[r] \in JobRow /\ post[r] \in PostRow /\ r \in Ingestions
        /\ job[r].dest \in [Routes -> DestStates] /\ job[r].id \in [Routes -> KnownIds]
        /\ post[r].at + 1 \in Nat /\ job[r].tries + 1 \in Nat
    BY <1>t DEF LiveTypes, RowTyped
  <1>1. CASE Edits(r) /\ More(bare, Target(r)) /\ right' = right /\
                 post' = [post EXCEPT ![r].pc = "edit", ![r].id = "live"]
    <2>1. post[r].pc = "send" /\ post[r].at \in Routes
      BY <1>1, <1>r DEF SendNative, RowInv, PostIsHeld, AtRoute
    <2>2. post' = [post EXCEPT ![r] = [post[r] EXCEPT !.pc = "edit", !.id = "live"]]
      BY <1>1 DEF SendNative
    <2>3. /\ post'[r] \in PostRow /\ post'[r].pc = "edit" /\ post'[r].by = post[r].by
          /\ post'[r].at = post[r].at /\ post'[r].error = post[r].error /\ post'[r].id = "live"
          /\ post'[r].upload = post[r].upload
          /\ \A q \in Ingestions : q # r => post'[q] = post[q]
          /\ post' \in [Ingestions -> PostRow]
      BY <1>y, <2>2 DEF PostRow, KnownIds
    <2>4. UNCHANGED <<custom, message, entry, job, settler, right, vouched, excused, deletedFor>>
      BY <1>1 DEF SendNative, shown, record, budget
    <2>5. /\ \A e \in Routes : e = post[r].at =>
                 Present(r, e)' /\ (AtMostOne(r, e)' <=> ~Present(r, e)) /\ (AsWanted(r, e)' <=>
                 AsWanted(r, e))
          /\ ElsewhereShown(r)
      BY <1>t, <1>1, <2>1, <2>4, BareMade
    <2>6. /\ PostIsHeld(r)' /\ DirectIsFirst(r)' /\ DoubtIsHeld(r)' /\ AnswerIsTrue(r)'
          /\ KnownIsThere(r)'
      BY <1>r, <2>1, <2>3, <2>4, <2>5, <1>1 DEF RowInv, PostIsHeld, AtRoute, DirectIsFirst,
         DoubtIsHeld, AnswerIsTrue, Edits, Native, KnownIsThere, ElsewhereShown
    <2>7. /\ TargetIsUnsent(r)' /\ CaptionsAreKnown(r)' /\ DeletedIsOver(r)' /\ RowIsDelivered(r)'
          /\ RowIsShown(r)'
      BY <1>r, <2>1, <2>3, <2>4, <2>5, <1>1 DEF RowInv, TargetIsUnsent, Unsent, Native, Edits,
         CaptionsAreKnown, AtRoute, DeletedIsOver, RowIsDelivered, RowIsShown, ElsewhereShown
    <2>8. RowIsNew(r)'
      BY <1>r, <2>1, <2>3, <2>4, <2>5, <1>1 DEF RowInv, RowIsNew, PostIsHeld, AtRoute,
         ElsewhereShown
    <2>9. AheadIsUnsent(r)'
      BY <1>o, <1>r, <2>1, <2>3, <2>4, <2>5, <1>1 DEF RowInv, AheadIsUnsent, Unsent, Ahead, AtRoute,
         PostIsHeld, DirectIsFirst, TargetIsUnsent, Native, Edits, AnswerIsTrue, ElsewhereShown,
         RouteOrder
    <2>10. RowIsSentOnce(r)'
      BY <1>r, <2>1, <2>3, <2>4, <2>5, <1>1 DEF RowInv, RowIsSentOnce, TargetIsUnsent, Unsent,
         Native, Edits, ElsewhereShown
    <2>11. LiveTypes' /\ CountIsKept' /\ OnlyRow(r)
      BY <1>t, <2>3, <2>4, <2>5, <2>1, <1>1 DEF OnlyRow, LiveTypes, CountIsKept, ElsewhereShown
    <2> QED
      BY <1>t, <2>6, <2>7, <2>8, <2>9, <2>10, <2>11, OneRow DEF RowInv
  <1>2. CASE ~Edits(r) /\ More(right, Target(r)) /\ bare' = bare /\ AnswerPost(r, "none")
    <2>1. post[r].pc = "send" /\ post[r].at \in Routes
      BY <1>2, <1>r DEF SendNative, RowInv, PostIsHeld, AtRoute
    <2>2. post' = [post EXCEPT ![r] = [post[r] EXCEPT !.pc = "answered", !.error = "none"]]
      BY <1>2 DEF SendNative, AnswerPost
    <2>3. /\ post'[r] \in PostRow /\ post'[r].pc = "answered" /\ post'[r].by = post[r].by
          /\ post'[r].at = post[r].at /\ post'[r].error = "none" /\ post'[r].id = post[r].id
          /\ post'[r].upload = post[r].upload
          /\ \A q \in Ingestions : q # r => post'[q] = post[q]
          /\ post' \in [Ingestions -> PostRow]
      BY <1>y, <2>2 DEF PostRow, KnownIds
    <2>4. UNCHANGED <<custom, message, entry, job, settler, bare, vouched, excused, deletedFor>>
      BY <1>2 DEF SendNative, shown, record, budget
    <2>5. /\ \A e \in Routes : e = post[r].at =>
                 Present(r, e)' /\ (AtMostOne(r, e)' <=> ~Present(r, e)) /\ AsWanted(r, e)'
          /\ ElsewhereShown(r)
      BY <1>t, <1>2, <2>1, <2>4, WantedMade
    <2>6. /\ PostIsHeld(r)' /\ DirectIsFirst(r)' /\ DoubtIsHeld(r)' /\ AnswerIsTrue(r)'
          /\ KnownIsThere(r)'
      BY <1>r, <2>1, <2>3, <2>4, <2>5, <1>2 DEF RowInv, PostIsHeld, AtRoute, DirectIsFirst,
         DoubtIsHeld, AnswerIsTrue, Edits, Native, KnownIsThere, ElsewhereShown
    <2>7. /\ TargetIsUnsent(r)' /\ CaptionsAreKnown(r)' /\ DeletedIsOver(r)' /\ RowIsDelivered(r)'
          /\ RowIsShown(r)'
      BY <1>r, <2>1, <2>3, <2>4, <2>5, <1>2 DEF RowInv, TargetIsUnsent, Unsent, Native, Edits,
         CaptionsAreKnown, AtRoute, DeletedIsOver, RowIsDelivered, RowIsShown, ElsewhereShown
    <2>8. RowIsNew(r)'
      BY <1>r, <2>1, <2>3, <2>4, <2>5, <1>2 DEF RowInv, RowIsNew, PostIsHeld, AtRoute,
         ElsewhereShown
    <2>9. AheadIsUnsent(r)'
      BY <1>o, <1>r, <2>1, <2>3, <2>4, <2>5, <1>2 DEF RowInv, AheadIsUnsent, Unsent, Ahead, AtRoute,
         PostIsHeld, DirectIsFirst, TargetIsUnsent, Native, Edits, AnswerIsTrue, ElsewhereShown,
         RouteOrder
    <2>10. RowIsSentOnce(r)'
      BY <1>r, <2>1, <2>3, <2>4, <2>5, <1>2 DEF RowInv, RowIsSentOnce, TargetIsUnsent, Unsent,
         Native, Edits, ElsewhereShown
    <2>11. LiveTypes' /\ CountIsKept' /\ OnlyRow(r)
      BY <1>t, <2>3, <2>4, <2>5, <2>1, <1>2 DEF OnlyRow, LiveTypes, CountIsKept, ElsewhereShown
    <2> QED
      BY <1>t, <2>6, <2>7, <2>8, <2>9, <2>10, <2>11, OneRow DEF RowInv
  <1>3. CASE Edits(r) /\ More(bare, Target(r)) /\ right' = right /\ AnswerPost(r, "unresolved")
    <2>1. post[r].pc = "send" /\ post[r].at \in Routes
      BY <1>3, <1>r DEF SendNative, RowInv, PostIsHeld, AtRoute
    <2>2. post' = [post EXCEPT ![r] = [post[r] EXCEPT !.pc = "answered", !.error = "unresolved"]]
      BY <1>3 DEF SendNative, AnswerPost
    <2>3. /\ post'[r] \in PostRow /\ post'[r].pc = "answered" /\ post'[r].by = post[r].by
          /\ post'[r].at = post[r].at /\ post'[r].error = "unresolved" /\ post'[r].id = post[r].id
          /\ post'[r].upload = post[r].upload
          /\ \A q \in Ingestions : q # r => post'[q] = post[q]
          /\ post' \in [Ingestions -> PostRow]
      BY <1>y, <2>2 DEF PostRow, KnownIds
    <2>4. UNCHANGED <<custom, message, entry, job, settler, right, vouched, excused, deletedFor>>
      BY <1>3 DEF SendNative, shown, record, budget
    <2>5. /\ \A e \in Routes : e = post[r].at =>
                 Present(r, e)' /\ (AtMostOne(r, e)' <=> ~Present(r, e)) /\ (AsWanted(r, e)' <=>
                 AsWanted(r, e))
          /\ ElsewhereShown(r)
      BY <1>t, <1>3, <2>1, <2>4, BareMade
    <2>6. /\ PostIsHeld(r)' /\ DirectIsFirst(r)' /\ DoubtIsHeld(r)' /\ AnswerIsTrue(r)'
          /\ KnownIsThere(r)'
      BY <1>r, <2>1, <2>3, <2>4, <2>5, <1>3 DEF RowInv, PostIsHeld, AtRoute, DirectIsFirst,
         DoubtIsHeld, AnswerIsTrue, Edits, Native, KnownIsThere, ElsewhereShown
    <2>7. CaptionsAreKnown(r)' /\ DeletedIsOver(r)' /\ RowIsDelivered(r)' /\ RowIsShown(r)'
      BY <1>r, <2>1, <2>3, <2>4, <2>5, <1>3 DEF RowInv, CaptionsAreKnown, AtRoute, DeletedIsOver,
         RowIsDelivered, RowIsShown, ElsewhereShown
    <2>8. RowIsNew(r)'
      BY <1>r, <2>1, <2>3, <2>4, <2>5, <1>3 DEF RowInv, RowIsNew, PostIsHeld, AtRoute,
         ElsewhereShown
    <2>9. AheadIsUnsent(r)'
      BY <1>o, <1>r, <2>1, <2>3, <2>4, <2>5, <1>3 DEF RowInv, AheadIsUnsent, Unsent, Ahead, AtRoute,
         PostIsHeld, DirectIsFirst, TargetIsUnsent, Native, Edits, AnswerIsTrue, ElsewhereShown,
         RouteOrder
    <2>10. TargetIsUnsent(r)'
      BY <1>o, <1>r, <2>1, <2>3, <2>4, <2>5, <1>3 DEF RowInv, TargetIsUnsent, Unsent, Native, Edits,
         AheadIsUnsent, Ahead, AtRoute, AnswerIsTrue, DirectIsFirst, CaptionsAreKnown,
         ElsewhereShown, RouteOrder
    <2>11. RowIsSentOnce(r)'
      BY <1>r, <2>1, <2>3, <2>4, <2>5, <1>3 DEF RowInv, RowIsSentOnce, TargetIsUnsent, Unsent,
         Native, Edits, ElsewhereShown
    <2>12. LiveTypes' /\ CountIsKept' /\ OnlyRow(r)
      BY <1>t, <2>3, <2>4, <2>5, <2>1, <1>3 DEF OnlyRow, LiveTypes, CountIsKept, ElsewhereShown
    <2> QED
      BY <1>t, <2>6, <2>7, <2>8, <2>9, <2>10, <2>11, <2>12, OneRow DEF RowInv
  <1>4. CASE UNCHANGED <<bare, right>> /\ AnswerPost(r, "refused")
    <2>1. post[r].pc = "send" /\ post[r].at \in Routes
      BY <1>4, <1>r DEF SendNative, RowInv, PostIsHeld, AtRoute
    <2>2. post' = [post EXCEPT ![r] = [post[r] EXCEPT !.pc = "answered", !.error = "refused"]]
      BY <1>4 DEF SendNative, AnswerPost
    <2>3. /\ post'[r] \in PostRow /\ post'[r].pc = "answered" /\ post'[r].by = post[r].by
          /\ post'[r].at = post[r].at /\ post'[r].error = "refused" /\ post'[r].id = post[r].id
          /\ post'[r].upload = post[r].upload
          /\ \A q \in Ingestions : q # r => post'[q] = post[q]
          /\ post' \in [Ingestions -> PostRow]
      BY <1>y, <2>2 DEF PostRow, KnownIds
    <2>4. UNCHANGED <<custom, message, entry, job, settler, bare, right, vouched, excused, deletedFor>>
      BY <1>4 DEF SendNative, shown, record, budget
    <2>5. /\ \A e \in Routes : (Present(r, e)' <=> Present(r, e)) /\ (AtMostOne(r, e)' <=> AtMostOne(r, e))
          /\ \A e \in Routes : AsWanted(r, e)' <=> AsWanted(r, e)
      BY <2>4 DEF Present, AtMostOne, AsWanted
    <2>6. RowInv(r)'
      BY <1>r, <2>1, <2>3, <2>4, <2>5, <1>4 DEF RowInv, PostIsHeld, AtRoute, RowIsNew,
         DirectIsFirst, DoubtIsHeld, AnswerIsTrue, Edits, Native, KnownIsThere, AheadIsUnsent,
         Unsent, Ahead, TargetIsUnsent, CaptionsAreKnown, DeletedIsOver, RowIsDelivered, RowIsShown,
         RowIsSentOnce
    <2>7. LiveTypes' /\ CountIsKept' /\ OnlyRow(r)
      BY <1>t, <2>3, <2>4, <2>1, <1>4 DEF OnlyRow, LiveTypes, CountIsKept
    <2> QED
      BY <1>t, <2>6, <2>7, OneRow
  <1>5. CASE UNCHANGED <<bare, right>> /\ AnswerPost(r, "lost")
    <2>1. post[r].pc = "send" /\ post[r].at \in Routes
      BY <1>5, <1>r DEF SendNative, RowInv, PostIsHeld, AtRoute
    <2>2. post' = [post EXCEPT ![r] = [post[r] EXCEPT !.pc = "answered", !.error = "lost"]]
      BY <1>5 DEF SendNative, AnswerPost
    <2>3. /\ post'[r] \in PostRow /\ post'[r].pc = "answered" /\ post'[r].by = post[r].by
          /\ post'[r].at = post[r].at /\ post'[r].error = "lost" /\ post'[r].id = post[r].id
          /\ post'[r].upload = post[r].upload
          /\ \A q \in Ingestions : q # r => post'[q] = post[q]
          /\ post' \in [Ingestions -> PostRow]
      BY <1>y, <2>2 DEF PostRow, KnownIds
    <2>4. UNCHANGED <<custom, message, entry, job, settler, bare, right, vouched, excused, deletedFor>>
      BY <1>5 DEF SendNative, shown, record, budget
    <2>5. /\ \A e \in Routes : (Present(r, e)' <=> Present(r, e)) /\ (AtMostOne(r, e)' <=> AtMostOne(r, e))
          /\ \A e \in Routes : AsWanted(r, e)' <=> AsWanted(r, e)
      BY <2>4 DEF Present, AtMostOne, AsWanted
    <2>6. RowInv(r)'
      BY <1>r, <2>1, <2>3, <2>4, <2>5, <1>5 DEF RowInv, PostIsHeld, AtRoute, RowIsNew,
         DirectIsFirst, DoubtIsHeld, AnswerIsTrue, Edits, Native, KnownIsThere, AheadIsUnsent,
         Unsent, Ahead, TargetIsUnsent, CaptionsAreKnown, DeletedIsOver, RowIsDelivered, RowIsShown,
         RowIsSentOnce
    <2>7. LiveTypes' /\ CountIsKept' /\ OnlyRow(r)
      BY <1>t, <2>3, <2>4, <2>1, <1>5 DEF OnlyRow, LiveTypes, CountIsKept
    <2> QED
      BY <1>t, <2>6, <2>7, OneRow
  <1>6. CASE Edits(r) /\ More(bare, Target(r)) /\ right' = right /\ AnswerPost(r, "lost")
    <2>1. post[r].pc = "send" /\ post[r].at \in Routes
      BY <1>6, <1>r DEF SendNative, RowInv, PostIsHeld, AtRoute
    <2>2. post' = [post EXCEPT ![r] = [post[r] EXCEPT !.pc = "answered", !.error = "lost"]]
      BY <1>6 DEF SendNative, AnswerPost
    <2>3. /\ post'[r] \in PostRow /\ post'[r].pc = "answered" /\ post'[r].by = post[r].by
          /\ post'[r].at = post[r].at /\ post'[r].error = "lost" /\ post'[r].id = post[r].id
          /\ post'[r].upload = post[r].upload
          /\ \A q \in Ingestions : q # r => post'[q] = post[q]
          /\ post' \in [Ingestions -> PostRow]
      BY <1>y, <2>2 DEF PostRow, KnownIds
    <2>4. UNCHANGED <<custom, message, entry, job, settler, right, vouched, excused, deletedFor>>
      BY <1>6 DEF SendNative, shown, record, budget
    <2>5. /\ \A e \in Routes : e = post[r].at =>
                 Present(r, e)' /\ (AtMostOne(r, e)' <=> ~Present(r, e)) /\ (AsWanted(r, e)' <=>
                 AsWanted(r, e))
          /\ ElsewhereShown(r)
      BY <1>t, <1>6, <2>1, <2>4, BareMade
    <2>6. /\ PostIsHeld(r)' /\ DirectIsFirst(r)' /\ DoubtIsHeld(r)' /\ AnswerIsTrue(r)'
          /\ KnownIsThere(r)'
      BY <1>r, <2>1, <2>3, <2>4, <2>5, <1>6 DEF RowInv, PostIsHeld, AtRoute, DirectIsFirst,
         DoubtIsHeld, AnswerIsTrue, Edits, Native, KnownIsThere, ElsewhereShown
    <2>7. /\ TargetIsUnsent(r)' /\ CaptionsAreKnown(r)' /\ DeletedIsOver(r)' /\ RowIsDelivered(r)'
          /\ RowIsShown(r)'
      BY <1>r, <2>1, <2>3, <2>4, <2>5, <1>6 DEF RowInv, TargetIsUnsent, Unsent, Native, Edits,
         CaptionsAreKnown, AtRoute, DeletedIsOver, RowIsDelivered, RowIsShown, ElsewhereShown
    <2>8. RowIsNew(r)'
      BY <1>r, <2>1, <2>3, <2>4, <2>5, <1>6 DEF RowInv, RowIsNew, PostIsHeld, AtRoute,
         ElsewhereShown
    <2>9. AheadIsUnsent(r)'
      BY <1>o, <1>r, <2>1, <2>3, <2>4, <2>5, <1>6 DEF RowInv, AheadIsUnsent, Unsent, Ahead, AtRoute,
         PostIsHeld, DirectIsFirst, TargetIsUnsent, Native, Edits, AnswerIsTrue, ElsewhereShown,
         RouteOrder
    <2>10. RowIsSentOnce(r)'
      BY <1>r, <2>1, <2>3, <2>4, <2>5, <1>6 DEF RowInv, RowIsSentOnce, TargetIsUnsent, Unsent,
         Native, Edits, ElsewhereShown
    <2>11. LiveTypes' /\ CountIsKept' /\ OnlyRow(r)
      BY <1>t, <2>3, <2>4, <2>5, <2>1, <1>6 DEF OnlyRow, LiveTypes, CountIsKept, ElsewhereShown
    <2> QED
      BY <1>t, <2>6, <2>7, <2>8, <2>9, <2>10, <2>11, OneRow DEF RowInv
  <1>7. CASE ~Edits(r) /\ More(right, Target(r)) /\ bare' = bare /\ AnswerPost(r, "lost")
    <2>1. post[r].pc = "send" /\ post[r].at \in Routes
      BY <1>7, <1>r DEF SendNative, RowInv, PostIsHeld, AtRoute
    <2>2. post' = [post EXCEPT ![r] = [post[r] EXCEPT !.pc = "answered", !.error = "lost"]]
      BY <1>7 DEF SendNative, AnswerPost
    <2>3. /\ post'[r] \in PostRow /\ post'[r].pc = "answered" /\ post'[r].by = post[r].by
          /\ post'[r].at = post[r].at /\ post'[r].error = "lost" /\ post'[r].id = post[r].id
          /\ post'[r].upload = post[r].upload
          /\ \A q \in Ingestions : q # r => post'[q] = post[q]
          /\ post' \in [Ingestions -> PostRow]
      BY <1>y, <2>2 DEF PostRow, KnownIds
    <2>4. UNCHANGED <<custom, message, entry, job, settler, bare, vouched, excused, deletedFor>>
      BY <1>7 DEF SendNative, shown, record, budget
    <2>5. /\ \A e \in Routes : e = post[r].at =>
                 Present(r, e)' /\ (AtMostOne(r, e)' <=> ~Present(r, e)) /\ AsWanted(r, e)'
          /\ ElsewhereShown(r)
      BY <1>t, <1>7, <2>1, <2>4, WantedMade
    <2>6. /\ PostIsHeld(r)' /\ DirectIsFirst(r)' /\ DoubtIsHeld(r)' /\ AnswerIsTrue(r)'
          /\ KnownIsThere(r)'
      BY <1>r, <2>1, <2>3, <2>4, <2>5, <1>7 DEF RowInv, PostIsHeld, AtRoute, DirectIsFirst,
         DoubtIsHeld, AnswerIsTrue, Edits, Native, KnownIsThere, ElsewhereShown
    <2>7. /\ TargetIsUnsent(r)' /\ CaptionsAreKnown(r)' /\ DeletedIsOver(r)' /\ RowIsDelivered(r)'
          /\ RowIsShown(r)'
      BY <1>r, <2>1, <2>3, <2>4, <2>5, <1>7 DEF RowInv, TargetIsUnsent, Unsent, Native, Edits,
         CaptionsAreKnown, AtRoute, DeletedIsOver, RowIsDelivered, RowIsShown, ElsewhereShown
    <2>8. RowIsNew(r)'
      BY <1>r, <2>1, <2>3, <2>4, <2>5, <1>7 DEF RowInv, RowIsNew, PostIsHeld, AtRoute,
         ElsewhereShown
    <2>9. AheadIsUnsent(r)'
      BY <1>o, <1>r, <2>1, <2>3, <2>4, <2>5, <1>7 DEF RowInv, AheadIsUnsent, Unsent, Ahead, AtRoute,
         PostIsHeld, DirectIsFirst, TargetIsUnsent, Native, Edits, AnswerIsTrue, ElsewhereShown,
         RouteOrder
    <2>10. RowIsSentOnce(r)'
      BY <1>r, <2>1, <2>3, <2>4, <2>5, <1>7 DEF RowInv, RowIsSentOnce, TargetIsUnsent, Unsent,
         Native, Edits, ElsewhereShown
    <2>11. LiveTypes' /\ CountIsKept' /\ OnlyRow(r)
      BY <1>t, <2>3, <2>4, <2>5, <2>1, <1>7 DEF OnlyRow, LiveTypes, CountIsKept, ElsewhereShown
    <2> QED
      BY <1>t, <2>6, <2>7, <2>8, <2>9, <2>10, <2>11, OneRow DEF RowInv
  <1> QED
    BY <1>1, <1>2, <1>3, <1>4, <1>5, <1>6, <1>7 DEF SendNative, shown

\* edits the copy it has made
LEMMA EditCaptionKept ==
  ASSUME LiveInv, NEW r \in Ingestions, EditCaption(r)
  PROVE  LiveInv'
  <1>t. LiveTypes /\ CountIsKept /\ RowTyped(r)
    BY TypedRows DEF LiveInv
  <1>r. RowInv(r)
    BY DEF LiveInv
  <1>o. RouteOrder(r) /\ custom \subseteq Routes
    BY <1>t, RoutesOrdered DEF LiveTypes
  <1>y. /\ job \in [Ingestions -> JobRow] /\ post \in [Ingestions -> PostRow]
        /\ job[r] \in JobRow /\ post[r] \in PostRow /\ r \in Ingestions
        /\ job[r].dest \in [Routes -> DestStates] /\ job[r].id \in [Routes -> KnownIds]
        /\ post[r].at + 1 \in Nat /\ job[r].tries + 1 \in Nat
    BY <1>t DEF LiveTypes, RowTyped
  <1>1. CASE post[r].id = "live" /\ AnswerPost(r, "none") /\ Captioned(Target(r))
    <2>1. post[r].pc = "edit" /\ post[r].at \in Routes
      BY <1>1, <1>r DEF EditCaption, RowInv, PostIsHeld, AtRoute
    <2>2. post' = [post EXCEPT ![r] = [post[r] EXCEPT !.pc = "answered", !.error = "none"]]
      BY <1>1 DEF EditCaption, AnswerPost
    <2>3. /\ post'[r] \in PostRow /\ post'[r].pc = "answered" /\ post'[r].by = post[r].by
          /\ post'[r].at = post[r].at /\ post'[r].error = "none" /\ post'[r].id = post[r].id
          /\ post'[r].upload = post[r].upload
          /\ \A q \in Ingestions : q # r => post'[q] = post[q]
          /\ post' \in [Ingestions -> PostRow]
      BY <1>y, <2>2 DEF PostRow, KnownIds
    <2>4. UNCHANGED <<custom, message, entry, job, settler, vouched, excused, deletedFor>>
      BY <1>1 DEF EditCaption, shown, record, budget
    <2>5. /\ \A e \in Routes : e = post[r].at => Present(r, e)' /\ (AtMostOne(r, e) =>
                 AtMostOne(r, e)') /\ AsWanted(r, e)'
          /\ ElsewhereShown(r)
      BY <1>t, <1>1, <2>1, <2>4, CaptionPut
    <2>6. /\ PostIsHeld(r)' /\ DirectIsFirst(r)' /\ DoubtIsHeld(r)' /\ AnswerIsTrue(r)'
          /\ KnownIsThere(r)'
      BY <1>r, <2>1, <2>3, <2>4, <2>5, <1>1 DEF RowInv, PostIsHeld, AtRoute, DirectIsFirst,
         DoubtIsHeld, AnswerIsTrue, Edits, Native, KnownIsThere, ElsewhereShown
    <2>7. /\ TargetIsUnsent(r)' /\ CaptionsAreKnown(r)' /\ DeletedIsOver(r)' /\ RowIsDelivered(r)'
          /\ RowIsShown(r)'
      BY <1>r, <2>1, <2>3, <2>4, <2>5, <1>1 DEF RowInv, TargetIsUnsent, Unsent, Native, Edits,
         CaptionsAreKnown, AtRoute, DeletedIsOver, RowIsDelivered, RowIsShown, ElsewhereShown
    <2>8. RowIsSentOnce(r)'
      BY <1>r, <2>1, <2>3, <2>4, <2>5, <1>1 DEF RowInv, RowIsSentOnce, ElsewhereShown
    <2>9. RowIsNew(r)'
      BY <1>r, <2>1, <2>3, <2>4, <2>5, <1>1 DEF RowInv, RowIsNew, PostIsHeld, AtRoute,
         ElsewhereShown
    <2>10. AheadIsUnsent(r)'
      BY <1>o, <1>r, <2>1, <2>3, <2>4, <2>5, <1>1 DEF RowInv, AheadIsUnsent, Unsent, Ahead, AtRoute,
         PostIsHeld, DirectIsFirst, TargetIsUnsent, Native, Edits, AnswerIsTrue, ElsewhereShown,
         RouteOrder
    <2>11. LiveTypes' /\ CountIsKept' /\ OnlyRow(r)
      BY <1>t, <2>3, <2>4, <2>5, <2>1, <1>1 DEF OnlyRow, LiveTypes, CountIsKept, ElsewhereShown
    <2> QED
      BY <1>t, <2>6, <2>7, <2>8, <2>9, <2>10, <2>11, OneRow DEF RowInv
  <1>2. CASE post[r].id = "live" /\ AnswerPost(r, "none") /\ bare[Target(r)] = 0 /\
                 UNCHANGED <<bare, right>>
    <2>1. post[r].pc = "edit" /\ post[r].at \in Routes
      BY <1>2, <1>r DEF EditCaption, RowInv, PostIsHeld, AtRoute
    <2>2. post' = [post EXCEPT ![r] = [post[r] EXCEPT !.pc = "answered", !.error = "none"]]
      BY <1>2 DEF EditCaption, AnswerPost
    <2>3. /\ post'[r] \in PostRow /\ post'[r].pc = "answered" /\ post'[r].by = post[r].by
          /\ post'[r].at = post[r].at /\ post'[r].error = "none" /\ post'[r].id = post[r].id
          /\ post'[r].upload = post[r].upload
          /\ \A q \in Ingestions : q # r => post'[q] = post[q]
          /\ post' \in [Ingestions -> PostRow]
      BY <1>y, <2>2 DEF PostRow, KnownIds
    <2>4. UNCHANGED <<custom, message, entry, job, settler, bare, right, vouched, excused, deletedFor>>
      BY <1>2 DEF EditCaption, shown, record, budget
    <2>5. /\ \A e \in Routes : (Present(r, e)' <=> Present(r, e)) /\ (AtMostOne(r, e)' <=> AtMostOne(r, e))
          /\ \A e \in Routes : AsWanted(r, e)' <=> AsWanted(r, e)
      BY <2>4 DEF Present, AtMostOne, AsWanted
    <2>6. Present(r, post[r].at) => AsWanted(r, post[r].at)
      BY <1>2, <2>1, <1>t DEF Target, Present, AsWanted, RowTyped
    <2>7. /\ PostIsHeld(r)' /\ RowIsNew(r)' /\ DirectIsFirst(r)' /\ DoubtIsHeld(r)'
          /\ KnownIsThere(r)' /\ AheadIsUnsent(r)' /\ TargetIsUnsent(r)' /\ CaptionsAreKnown(r)'
          /\ DeletedIsOver(r)' /\ RowIsDelivered(r)' /\ RowIsShown(r)' /\ RowIsSentOnce(r)'
      BY <1>r, <2>1, <2>3, <2>4, <2>5, <2>6, <1>2 DEF RowInv, PostIsHeld, AtRoute, RowIsNew,
         DirectIsFirst, DoubtIsHeld, KnownIsThere, AheadIsUnsent, Unsent, Ahead, TargetIsUnsent,
         Native, Edits, CaptionsAreKnown, DeletedIsOver, RowIsDelivered, RowIsShown, RowIsSentOnce
    <2>8. AnswerIsTrue(r)'
      BY <1>o, <1>r, <2>1, <2>3, <2>4, <2>5, <2>6, <1>2 DEF RowInv, AnswerIsTrue, Edits, Native,
         PostIsHeld, AtRoute, RowIsNew, DirectIsFirst, DoubtIsHeld, KnownIsThere, AheadIsUnsent,
         Unsent, Ahead, TargetIsUnsent, CaptionsAreKnown, DeletedIsOver, RowIsDelivered, RowIsShown,
         RowIsSentOnce, RouteOrder
    <2>9. LiveTypes' /\ CountIsKept' /\ OnlyRow(r)
      BY <1>t, <2>3, <2>4, <2>6, <2>1, <1>2 DEF OnlyRow, LiveTypes, CountIsKept
    <2> QED
      BY <1>t, <2>7, <2>8, <2>9, OneRow DEF RowInv
  <1>3. CASE post' = [post EXCEPT ![r].pc = "clean", ![r].error = "refused"] /\ UNCHANGED <<bare, right>>
    <2>1. post[r].pc = "edit" /\ post[r].at \in Routes
      BY <1>3, <1>r DEF EditCaption, RowInv, PostIsHeld, AtRoute
    <2>2. post' = [post EXCEPT ![r] = [post[r] EXCEPT !.pc = "clean", !.error = "refused"]]
      BY <1>3 DEF EditCaption
    <2>3. /\ post'[r] \in PostRow /\ post'[r].pc = "clean" /\ post'[r].by = post[r].by
          /\ post'[r].at = post[r].at /\ post'[r].error = "refused" /\ post'[r].id = post[r].id
          /\ post'[r].upload = post[r].upload
          /\ \A q \in Ingestions : q # r => post'[q] = post[q]
          /\ post' \in [Ingestions -> PostRow]
      BY <1>y, <2>2 DEF PostRow, KnownIds
    <2>4. UNCHANGED <<custom, message, entry, job, settler, bare, right, vouched, excused, deletedFor>>
      BY <1>3 DEF EditCaption, shown, record, budget
    <2>5. /\ \A e \in Routes : (Present(r, e)' <=> Present(r, e)) /\ (AtMostOne(r, e)' <=> AtMostOne(r, e))
          /\ \A e \in Routes : AsWanted(r, e)' <=> AsWanted(r, e)
      BY <2>4 DEF Present, AtMostOne, AsWanted
    <2>6. RowInv(r)'
      BY <1>r, <2>1, <2>3, <2>4, <2>5, <1>3 DEF RowInv, PostIsHeld, AtRoute, RowIsNew,
         DirectIsFirst, DoubtIsHeld, AnswerIsTrue, Edits, Native, KnownIsThere, AheadIsUnsent,
         Unsent, Ahead, TargetIsUnsent, CaptionsAreKnown, DeletedIsOver, RowIsDelivered, RowIsShown,
         RowIsSentOnce
    <2>7. LiveTypes' /\ CountIsKept' /\ OnlyRow(r)
      BY <1>t, <2>3, <2>4, <2>1, <1>3 DEF OnlyRow, LiveTypes, CountIsKept
    <2> QED
      BY <1>t, <2>6, <2>7, OneRow
  <1>4. CASE post' = [post EXCEPT ![r].pc = "clean", ![r].error = "lost"] /\ UNCHANGED <<bare, right>>
    <2>1. post[r].pc = "edit" /\ post[r].at \in Routes
      BY <1>4, <1>r DEF EditCaption, RowInv, PostIsHeld, AtRoute
    <2>2. post' = [post EXCEPT ![r] = [post[r] EXCEPT !.pc = "clean", !.error = "lost"]]
      BY <1>4 DEF EditCaption
    <2>3. /\ post'[r] \in PostRow /\ post'[r].pc = "clean" /\ post'[r].by = post[r].by
          /\ post'[r].at = post[r].at /\ post'[r].error = "lost" /\ post'[r].id = post[r].id
          /\ post'[r].upload = post[r].upload
          /\ \A q \in Ingestions : q # r => post'[q] = post[q]
          /\ post' \in [Ingestions -> PostRow]
      BY <1>y, <2>2 DEF PostRow, KnownIds
    <2>4. UNCHANGED <<custom, message, entry, job, settler, bare, right, vouched, excused, deletedFor>>
      BY <1>4 DEF EditCaption, shown, record, budget
    <2>5. /\ \A e \in Routes : (Present(r, e)' <=> Present(r, e)) /\ (AtMostOne(r, e)' <=> AtMostOne(r, e))
          /\ \A e \in Routes : AsWanted(r, e)' <=> AsWanted(r, e)
      BY <2>4 DEF Present, AtMostOne, AsWanted
    <2>6. RowInv(r)'
      BY <1>r, <2>1, <2>3, <2>4, <2>5, <1>4 DEF RowInv, PostIsHeld, AtRoute, RowIsNew,
         DirectIsFirst, DoubtIsHeld, AnswerIsTrue, Edits, Native, KnownIsThere, AheadIsUnsent,
         Unsent, Ahead, TargetIsUnsent, CaptionsAreKnown, DeletedIsOver, RowIsDelivered, RowIsShown,
         RowIsSentOnce
    <2>7. LiveTypes' /\ CountIsKept' /\ OnlyRow(r)
      BY <1>t, <2>3, <2>4, <2>1, <1>4 DEF OnlyRow, LiveTypes, CountIsKept
    <2> QED
      BY <1>t, <2>6, <2>7, OneRow
  <1>5. CASE post' = [post EXCEPT ![r].pc = "clean", ![r].error = "lost"] /\ post[r].id = "live" /\
                 Captioned(Target(r))
    <2>1. post[r].pc = "edit" /\ post[r].at \in Routes
      BY <1>5, <1>r DEF EditCaption, RowInv, PostIsHeld, AtRoute
    <2>2. post' = [post EXCEPT ![r] = [post[r] EXCEPT !.pc = "clean", !.error = "lost"]]
      BY <1>5 DEF EditCaption
    <2>3. /\ post'[r] \in PostRow /\ post'[r].pc = "clean" /\ post'[r].by = post[r].by
          /\ post'[r].at = post[r].at /\ post'[r].error = "lost" /\ post'[r].id = post[r].id
          /\ post'[r].upload = post[r].upload
          /\ \A q \in Ingestions : q # r => post'[q] = post[q]
          /\ post' \in [Ingestions -> PostRow]
      BY <1>y, <2>2 DEF PostRow, KnownIds
    <2>4. UNCHANGED <<custom, message, entry, job, settler, vouched, excused, deletedFor>>
      BY <1>5 DEF EditCaption, shown, record, budget
    <2>5. /\ \A e \in Routes : e = post[r].at => Present(r, e)' /\ (AtMostOne(r, e) =>
                 AtMostOne(r, e)') /\ AsWanted(r, e)'
          /\ ElsewhereShown(r)
      BY <1>t, <1>5, <2>1, <2>4, CaptionPut
    <2>6. /\ PostIsHeld(r)' /\ DirectIsFirst(r)' /\ DoubtIsHeld(r)' /\ AnswerIsTrue(r)'
          /\ KnownIsThere(r)'
      BY <1>r, <2>1, <2>3, <2>4, <2>5, <1>5 DEF RowInv, PostIsHeld, AtRoute, DirectIsFirst,
         DoubtIsHeld, AnswerIsTrue, Edits, Native, KnownIsThere, ElsewhereShown
    <2>7. /\ TargetIsUnsent(r)' /\ CaptionsAreKnown(r)' /\ DeletedIsOver(r)' /\ RowIsDelivered(r)'
          /\ RowIsShown(r)'
      BY <1>r, <2>1, <2>3, <2>4, <2>5, <1>5 DEF RowInv, TargetIsUnsent, Unsent, Native, Edits,
         CaptionsAreKnown, AtRoute, DeletedIsOver, RowIsDelivered, RowIsShown, ElsewhereShown
    <2>8. RowIsSentOnce(r)'
      BY <1>r, <2>1, <2>3, <2>4, <2>5, <1>5 DEF RowInv, RowIsSentOnce, ElsewhereShown
    <2>9. RowIsNew(r)'
      BY <1>r, <2>1, <2>3, <2>4, <2>5, <1>5 DEF RowInv, RowIsNew, PostIsHeld, AtRoute,
         ElsewhereShown
    <2>10. AheadIsUnsent(r)'
      BY <1>o, <1>r, <2>1, <2>3, <2>4, <2>5, <1>5 DEF RowInv, AheadIsUnsent, Unsent, Ahead, AtRoute,
         PostIsHeld, DirectIsFirst, TargetIsUnsent, Native, Edits, AnswerIsTrue, ElsewhereShown,
         RouteOrder
    <2>11. LiveTypes' /\ CountIsKept' /\ OnlyRow(r)
      BY <1>t, <2>3, <2>4, <2>5, <2>1, <1>5 DEF OnlyRow, LiveTypes, CountIsKept, ElsewhereShown
    <2> QED
      BY <1>t, <2>6, <2>7, <2>8, <2>9, <2>10, <2>11, OneRow DEF RowInv
  <1> QED
    BY <1>1, <1>2, <1>3, <1>4, <1>5 DEF EditCaption, shown

\* or takes it back;
LEMMA TakeBackKept ==
  ASSUME LiveInv, NEW r \in Ingestions, TakeBack(r)
  PROVE  LiveInv'
  <1>t. LiveTypes /\ CountIsKept /\ RowTyped(r)
    BY TypedRows DEF LiveInv
  <1>r. RowInv(r)
    BY DEF LiveInv
  <1>o. RouteOrder(r) /\ custom \subseteq Routes
    BY <1>t, RoutesOrdered DEF LiveTypes
  <1>y. /\ job \in [Ingestions -> JobRow] /\ post \in [Ingestions -> PostRow]
        /\ job[r] \in JobRow /\ post[r] \in PostRow /\ r \in Ingestions
        /\ job[r].dest \in [Routes -> DestStates] /\ job[r].id \in [Routes -> KnownIds]
        /\ post[r].at + 1 \in Nat /\ job[r].tries + 1 \in Nat
    BY <1>t DEF LiveTypes, RowTyped
  <1>1. CASE job' = [job EXCEPT ![r].id[post[r].at] = IF @ = "live" THEN "gone"
                 ELSE @] /\ AnswerWith(r, post[r].error, "none") /\ post[r].id = "gone" /\
                 UNCHANGED <<bare, right>>
    <2>1. post[r].pc = "clean" /\ post[r].at \in Routes
      BY <1>1, <1>r DEF TakeBack, RowInv, PostIsHeld, AtRoute
    <2>2. job' = [job EXCEPT ![r] = [job[r] EXCEPT !.id[post[r].at] = IF @ = "live" THEN "gone" ELSE @]]
      BY <1>1 DEF TakeBack
    <2>3. [job[r].id EXCEPT ![post[r].at] = IF @ = "live" THEN "gone" ELSE @] \in [Routes -> KnownIds]
      BY <1>y, <2>1, <1>1 DEF DestStates, KnownIds, PostRow
    <2>4. /\ job'[r] \in JobRow /\ job'[r].status = job[r].status /\ job'[r].stage = job[r].stage
          /\ job'[r].path = job[r].path /\ job'[r].tries = job[r].tries
          /\ job'[r].dest = job[r].dest
          /\ job'[r].id = [job[r].id EXCEPT ![post[r].at] = IF @ = "live" THEN "gone" ELSE @]
          /\ \A q \in Ingestions : q # r => job'[q] = job[q]
          /\ job' \in [Ingestions -> JobRow]
      BY <1>y, <2>2, <2>3 DEF JobRow
    <2>5. \A e \in Routes : job'[r].id[e] = IF e = post[r].at /\ job[r].id[e] = "live"
              THEN "gone" ELSE job[r].id[e]
      BY <1>y, <2>4, <2>1
    <2>6. post' = [post EXCEPT ![r] = [post[r] EXCEPT !.pc = "answered", !.error = post[r].error,
              !.id = "none"]]
      BY <1>1 DEF TakeBack, AnswerWith
    <2>7. /\ post'[r] \in PostRow /\ post'[r].pc = "answered" /\ post'[r].by = post[r].by
          /\ post'[r].at = post[r].at /\ post'[r].error = post[r].error /\ post'[r].id = "none"
          /\ post'[r].upload = post[r].upload
          /\ \A q \in Ingestions : q # r => post'[q] = post[q]
          /\ post' \in [Ingestions -> PostRow]
      BY <1>y, <2>6 DEF PostRow, KnownIds
    <2>8. UNCHANGED <<custom, message, entry, settler, bare, right, vouched, excused, deletedFor>>
      BY <1>1 DEF TakeBack, shown, record, budget
    <2>9. /\ \A e \in Routes : (Present(r, e)' <=> Present(r, e)) /\ (AtMostOne(r, e)' <=> AtMostOne(r, e))
          /\ \A e \in Routes : AsWanted(r, e)' <=> AsWanted(r, e)
      BY <2>8 DEF Present, AtMostOne, AsWanted
    <2>10. /\ PostIsHeld(r)' /\ RowIsNew(r)' /\ DirectIsFirst(r)' /\ DoubtIsHeld(r)'
           /\ AnswerIsTrue(r)'
      BY <1>r, <2>1, <2>4, <2>5, <2>7, <2>8, <2>9, <1>1 DEF RowInv, PostIsHeld, AtRoute, RowIsNew,
         DirectIsFirst, DoubtIsHeld, AnswerIsTrue, Edits, Native
    <2>11. /\ KnownIsThere(r)' /\ TargetIsUnsent(r)' /\ CaptionsAreKnown(r)' /\ DeletedIsOver(r)'
           /\ RowIsDelivered(r)'
      BY <1>r, <2>1, <2>4, <2>5, <2>7, <2>8, <2>9, <1>1 DEF RowInv, KnownIsThere, AtRoute,
         TargetIsUnsent, Unsent, Native, Edits, CaptionsAreKnown, DeletedIsOver, RowIsDelivered
    <2>12. RowIsShown(r)' /\ RowIsSentOnce(r)'
      BY <1>r, <2>1, <2>4, <2>5, <2>7, <2>8, <2>9, <1>1 DEF RowInv, RowIsShown, RowIsSentOnce
    <2>13. AheadIsUnsent(r)'
      BY <1>o, <1>r, <2>1, <2>4, <2>5, <2>7, <2>8, <2>9, <1>1 DEF RowInv, AheadIsUnsent, Unsent,
         Ahead, AtRoute, PostIsHeld, DirectIsFirst, TargetIsUnsent, Native, Edits, AnswerIsTrue,
         RouteOrder
    <2>14. LiveTypes' /\ CountIsKept' /\ OnlyRow(r)
      BY <1>t, <2>4, <2>7, <2>8, <2>1, <1>1 DEF OnlyRow, LiveTypes, CountIsKept
    <2> QED
      BY <1>t, <2>10, <2>11, <2>12, <2>13, <2>14, OneRow DEF RowInv
  <1>2. CASE job' = [job EXCEPT ![r].id[post[r].at] = IF @ = "live" THEN "gone"
                 ELSE @] /\ AnswerWith(r, post[r].error, "none") /\ bare[Target(r)] > 0 /\
                 Fewer(bare, Target(r)) /\ right' = right
    <2>1. post[r].pc = "clean" /\ post[r].at \in Routes
      BY <1>2, <1>r DEF TakeBack, RowInv, PostIsHeld, AtRoute
    <2>2. job' = [job EXCEPT ![r] = [job[r] EXCEPT !.id[post[r].at] = IF @ = "live" THEN "gone" ELSE @]]
      BY <1>2 DEF TakeBack
    <2>3. [job[r].id EXCEPT ![post[r].at] = IF @ = "live" THEN "gone" ELSE @] \in [Routes -> KnownIds]
      BY <1>y, <2>1, <1>2 DEF DestStates, KnownIds, PostRow
    <2>4. /\ job'[r] \in JobRow /\ job'[r].status = job[r].status /\ job'[r].stage = job[r].stage
          /\ job'[r].path = job[r].path /\ job'[r].tries = job[r].tries
          /\ job'[r].dest = job[r].dest
          /\ job'[r].id = [job[r].id EXCEPT ![post[r].at] = IF @ = "live" THEN "gone" ELSE @]
          /\ \A q \in Ingestions : q # r => job'[q] = job[q]
          /\ job' \in [Ingestions -> JobRow]
      BY <1>y, <2>2, <2>3 DEF JobRow
    <2>5. \A e \in Routes : job'[r].id[e] = IF e = post[r].at /\ job[r].id[e] = "live"
              THEN "gone" ELSE job[r].id[e]
      BY <1>y, <2>4, <2>1
    <2>6. post' = [post EXCEPT ![r] = [post[r] EXCEPT !.pc = "answered", !.error = post[r].error,
              !.id = "none"]]
      BY <1>2 DEF TakeBack, AnswerWith
    <2>7. /\ post'[r] \in PostRow /\ post'[r].pc = "answered" /\ post'[r].by = post[r].by
          /\ post'[r].at = post[r].at /\ post'[r].error = post[r].error /\ post'[r].id = "none"
          /\ post'[r].upload = post[r].upload
          /\ \A q \in Ingestions : q # r => post'[q] = post[q]
          /\ post' \in [Ingestions -> PostRow]
      BY <1>y, <2>6 DEF PostRow, KnownIds
    <2>8. UNCHANGED <<custom, message, entry, settler, right, vouched, excused, deletedFor>>
      BY <1>2 DEF TakeBack, shown, record, budget
    <2>9. /\ \A e \in Routes : e = post[r].at => (AtMostOne(r, e) =>
                 AtMostOne(r, e)' /\ ~Present(r, e)') /\ (AsWanted(r, e)' <=> AsWanted(r, e))
          /\ ElsewhereShown(r)
      BY <1>t, <1>2, <2>1, <2>8, BareTaken
    <2>10. /\ PostIsHeld(r)' /\ DirectIsFirst(r)' /\ DoubtIsHeld(r)' /\ AnswerIsTrue(r)'
           /\ KnownIsThere(r)'
      BY <1>r, <2>1, <2>4, <2>5, <2>7, <2>8, <2>9, <1>2 DEF RowInv, PostIsHeld, AtRoute,
         DirectIsFirst, DoubtIsHeld, AnswerIsTrue, Edits, Native, KnownIsThere, ElsewhereShown
    <2>11. /\ CaptionsAreKnown(r)' /\ DeletedIsOver(r)' /\ RowIsDelivered(r)' /\ RowIsShown(r)'
           /\ RowIsSentOnce(r)'
      BY <1>r, <2>1, <2>4, <2>5, <2>7, <2>8, <2>9, <1>2 DEF RowInv, CaptionsAreKnown, AtRoute,
         DeletedIsOver, RowIsDelivered, RowIsShown, RowIsSentOnce, ElsewhereShown
    <2>12. RowIsNew(r)'
      BY <1>r, <2>1, <2>4, <2>5, <2>7, <2>8, <2>9, <1>2 DEF RowInv, RowIsNew, PostIsHeld, AtRoute,
         ElsewhereShown
    <2>13. AheadIsUnsent(r)'
      BY <1>o, <1>r, <2>1, <2>4, <2>5, <2>7, <2>8, <2>9, <1>2 DEF RowInv, AheadIsUnsent, Unsent,
         Ahead, AtRoute, PostIsHeld, DirectIsFirst, TargetIsUnsent, Native, Edits, AnswerIsTrue,
         ElsewhereShown, RouteOrder
    <2>14. TargetIsUnsent(r)'
      BY <1>o, <1>r, <2>1, <2>4, <2>5, <2>7, <2>8, <2>9, <1>2 DEF RowInv, TargetIsUnsent, Unsent,
         Native, Edits, PostIsHeld, AtRoute, RowIsNew, DirectIsFirst, DoubtIsHeld, AnswerIsTrue,
         KnownIsThere, AheadIsUnsent, Ahead, CaptionsAreKnown, DeletedIsOver, RowIsDelivered,
         RowIsShown, RowIsSentOnce, ElsewhereShown, RouteOrder
    <2>15. LiveTypes' /\ CountIsKept' /\ OnlyRow(r)
      BY <1>t, <2>4, <2>7, <2>8, <2>9, <2>1, <1>2 DEF OnlyRow, LiveTypes, CountIsKept,
         ElsewhereShown
    <2> QED
      BY <1>t, <2>10, <2>11, <2>12, <2>13, <2>14, <2>15, OneRow DEF RowInv
  <1>3. CASE job' = [job EXCEPT ![r].id[post[r].at] = IF @ = "live" THEN "gone"
                 ELSE @] /\ AnswerWith(r, post[r].error, "none") /\ ~(bare[Target(r)] > 0) /\
                 Fewer(right, Target(r)) /\ bare' = bare
    <2>1. post[r].pc = "clean" /\ post[r].at \in Routes
      BY <1>3, <1>r DEF TakeBack, RowInv, PostIsHeld, AtRoute
    <2>2. job' = [job EXCEPT ![r] = [job[r] EXCEPT !.id[post[r].at] = IF @ = "live" THEN "gone" ELSE @]]
      BY <1>3 DEF TakeBack
    <2>3. [job[r].id EXCEPT ![post[r].at] = IF @ = "live" THEN "gone" ELSE @] \in [Routes -> KnownIds]
      BY <1>y, <2>1, <1>3 DEF DestStates, KnownIds, PostRow
    <2>4. /\ job'[r] \in JobRow /\ job'[r].status = job[r].status /\ job'[r].stage = job[r].stage
          /\ job'[r].path = job[r].path /\ job'[r].tries = job[r].tries
          /\ job'[r].dest = job[r].dest
          /\ job'[r].id = [job[r].id EXCEPT ![post[r].at] = IF @ = "live" THEN "gone" ELSE @]
          /\ \A q \in Ingestions : q # r => job'[q] = job[q]
          /\ job' \in [Ingestions -> JobRow]
      BY <1>y, <2>2, <2>3 DEF JobRow
    <2>5. \A e \in Routes : job'[r].id[e] = IF e = post[r].at /\ job[r].id[e] = "live"
              THEN "gone" ELSE job[r].id[e]
      BY <1>y, <2>4, <2>1
    <2>6. post' = [post EXCEPT ![r] = [post[r] EXCEPT !.pc = "answered", !.error = post[r].error,
              !.id = "none"]]
      BY <1>3 DEF TakeBack, AnswerWith
    <2>7. /\ post'[r] \in PostRow /\ post'[r].pc = "answered" /\ post'[r].by = post[r].by
          /\ post'[r].at = post[r].at /\ post'[r].error = post[r].error /\ post'[r].id = "none"
          /\ post'[r].upload = post[r].upload
          /\ \A q \in Ingestions : q # r => post'[q] = post[q]
          /\ post' \in [Ingestions -> PostRow]
      BY <1>y, <2>6 DEF PostRow, KnownIds
    <2>8. UNCHANGED <<custom, message, entry, settler, bare, vouched, excused, deletedFor>>
      BY <1>3 DEF TakeBack, shown, record, budget
    <2>9. /\ \A e \in Routes : e = post[r].at => (AtMostOne(r, e) =>
                 AtMostOne(r, e)' /\ ~Present(r, e)') /\ (AsWanted(r, e)' => AsWanted(r, e))
          /\ ElsewhereShown(r)
      BY <1>t, <1>3, <2>1, <2>8, WantedTaken
    <2>10. /\ PostIsHeld(r)' /\ DirectIsFirst(r)' /\ DoubtIsHeld(r)' /\ AnswerIsTrue(r)'
           /\ KnownIsThere(r)'
      BY <1>r, <2>1, <2>4, <2>5, <2>7, <2>8, <2>9, <1>3 DEF RowInv, PostIsHeld, AtRoute,
         DirectIsFirst, DoubtIsHeld, AnswerIsTrue, Edits, Native, KnownIsThere, ElsewhereShown
    <2>11. CaptionsAreKnown(r)' /\ DeletedIsOver(r)' /\ RowIsSentOnce(r)'
      BY <1>r, <2>1, <2>4, <2>5, <2>7, <2>8, <2>9, <1>3 DEF RowInv, CaptionsAreKnown, AtRoute,
         DeletedIsOver, RowIsSentOnce, ElsewhereShown
    <2>12. RowIsNew(r)'
      BY <1>r, <2>1, <2>4, <2>5, <2>7, <2>8, <2>9, <1>3 DEF RowInv, RowIsNew, PostIsHeld, AtRoute,
         ElsewhereShown
    <2>13. AheadIsUnsent(r)'
      BY <1>o, <1>r, <2>1, <2>4, <2>5, <2>7, <2>8, <2>9, <1>3 DEF RowInv, AheadIsUnsent, Unsent,
         Ahead, AtRoute, PostIsHeld, DirectIsFirst, TargetIsUnsent, Native, Edits, AnswerIsTrue,
         ElsewhereShown, RouteOrder
    <2>14. TargetIsUnsent(r)'
      BY <1>o, <1>r, <2>1, <2>4, <2>5, <2>7, <2>8, <2>9, <1>3 DEF RowInv, TargetIsUnsent, Unsent,
         Native, Edits, PostIsHeld, AtRoute, RowIsNew, DirectIsFirst, DoubtIsHeld, AnswerIsTrue,
         KnownIsThere, AheadIsUnsent, Ahead, CaptionsAreKnown, DeletedIsOver, RowIsDelivered,
         RowIsShown, RowIsSentOnce, ElsewhereShown, RouteOrder
    <2>15. RowIsDelivered(r)'
      BY <1>r, <2>1, <2>4, <2>5, <2>7, <2>8, <2>9, <1>3 DEF RowInv, RowIsDelivered, DeletedIsOver,
         ElsewhereShown
    <2>16. RowIsShown(r)'
      BY <1>o, <1>r, <2>1, <2>4, <2>5, <2>7, <2>8, <2>9, <1>3 DEF RowInv, RowIsShown, PostIsHeld,
         AtRoute, RowIsNew, DirectIsFirst, DoubtIsHeld, AnswerIsTrue, Edits, Native, KnownIsThere,
         AheadIsUnsent, Unsent, Ahead, TargetIsUnsent, CaptionsAreKnown, DeletedIsOver,
         RowIsDelivered, RowIsSentOnce, ElsewhereShown, RouteOrder
    <2>17. LiveTypes' /\ CountIsKept' /\ OnlyRow(r)
      BY <1>t, <2>4, <2>7, <2>8, <2>9, <2>1, <1>3 DEF OnlyRow, LiveTypes, CountIsKept,
         ElsewhereShown
    <2> QED
      BY <1>t, <2>10, <2>11, <2>12, <2>13, <2>14, <2>15, <2>16, <2>17, OneRow DEF RowInv
  <1>4. CASE job' = [job EXCEPT ![r].id[post[r].at] = IF @ = "live" THEN "gone"
                 ELSE @] /\ AnswerWith(r, "unresolved", "gone") /\ post[r].id = "gone" /\
                 UNCHANGED <<bare, right>>
    <2>1. post[r].pc = "clean" /\ post[r].at \in Routes
      BY <1>4, <1>r DEF TakeBack, RowInv, PostIsHeld, AtRoute
    <2>2. job' = [job EXCEPT ![r] = [job[r] EXCEPT !.id[post[r].at] = IF @ = "live" THEN "gone" ELSE @]]
      BY <1>4 DEF TakeBack
    <2>3. [job[r].id EXCEPT ![post[r].at] = IF @ = "live" THEN "gone" ELSE @] \in [Routes -> KnownIds]
      BY <1>y, <2>1, <1>4 DEF DestStates, KnownIds, PostRow
    <2>4. /\ job'[r] \in JobRow /\ job'[r].status = job[r].status /\ job'[r].stage = job[r].stage
          /\ job'[r].path = job[r].path /\ job'[r].tries = job[r].tries
          /\ job'[r].dest = job[r].dest
          /\ job'[r].id = [job[r].id EXCEPT ![post[r].at] = IF @ = "live" THEN "gone" ELSE @]
          /\ \A q \in Ingestions : q # r => job'[q] = job[q]
          /\ job' \in [Ingestions -> JobRow]
      BY <1>y, <2>2, <2>3 DEF JobRow
    <2>5. \A e \in Routes : job'[r].id[e] = IF e = post[r].at /\ job[r].id[e] = "live"
              THEN "gone" ELSE job[r].id[e]
      BY <1>y, <2>4, <2>1
    <2>6. post' = [post EXCEPT ![r] = [post[r] EXCEPT !.pc = "answered", !.error = "unresolved",
              !.id = "gone"]]
      BY <1>4 DEF TakeBack, AnswerWith
    <2>7. /\ post'[r] \in PostRow /\ post'[r].pc = "answered" /\ post'[r].by = post[r].by
          /\ post'[r].at = post[r].at /\ post'[r].error = "unresolved" /\ post'[r].id = "gone"
          /\ post'[r].upload = post[r].upload
          /\ \A q \in Ingestions : q # r => post'[q] = post[q]
          /\ post' \in [Ingestions -> PostRow]
      BY <1>y, <2>6 DEF PostRow, KnownIds
    <2>8. UNCHANGED <<custom, message, entry, settler, bare, right, vouched, excused, deletedFor>>
      BY <1>4 DEF TakeBack, shown, record, budget
    <2>9. /\ \A e \in Routes : (Present(r, e)' <=> Present(r, e)) /\ (AtMostOne(r, e)' <=> AtMostOne(r, e))
          /\ \A e \in Routes : AsWanted(r, e)' <=> AsWanted(r, e)
      BY <2>8 DEF Present, AtMostOne, AsWanted
    <2>10. /\ PostIsHeld(r)' /\ RowIsNew(r)' /\ DirectIsFirst(r)' /\ DoubtIsHeld(r)'
           /\ AnswerIsTrue(r)'
      BY <1>r, <2>1, <2>4, <2>5, <2>7, <2>8, <2>9, <1>4 DEF RowInv, PostIsHeld, AtRoute, RowIsNew,
         DirectIsFirst, DoubtIsHeld, AnswerIsTrue, Edits, Native
    <2>11. /\ KnownIsThere(r)' /\ TargetIsUnsent(r)' /\ CaptionsAreKnown(r)' /\ DeletedIsOver(r)'
           /\ RowIsDelivered(r)'
      BY <1>r, <2>1, <2>4, <2>5, <2>7, <2>8, <2>9, <1>4 DEF RowInv, KnownIsThere, AtRoute,
         TargetIsUnsent, Unsent, Native, Edits, CaptionsAreKnown, DeletedIsOver, RowIsDelivered
    <2>12. RowIsShown(r)' /\ RowIsSentOnce(r)'
      BY <1>r, <2>1, <2>4, <2>5, <2>7, <2>8, <2>9, <1>4 DEF RowInv, RowIsShown, RowIsSentOnce
    <2>13. AheadIsUnsent(r)'
      BY <1>o, <1>r, <2>1, <2>4, <2>5, <2>7, <2>8, <2>9, <1>4 DEF RowInv, AheadIsUnsent, Unsent,
         Ahead, AtRoute, PostIsHeld, DirectIsFirst, TargetIsUnsent, Native, Edits, AnswerIsTrue,
         RouteOrder
    <2>14. LiveTypes' /\ CountIsKept' /\ OnlyRow(r)
      BY <1>t, <2>4, <2>7, <2>8, <2>1, <1>4 DEF OnlyRow, LiveTypes, CountIsKept
    <2> QED
      BY <1>t, <2>10, <2>11, <2>12, <2>13, <2>14, OneRow DEF RowInv
  <1>5. CASE job' = [job EXCEPT ![r].id[post[r].at] = IF @ = "live" THEN "gone"
                 ELSE @] /\ AnswerWith(r, "unresolved", "gone") /\ bare[Target(r)] > 0 /\
                 Fewer(bare, Target(r)) /\ right' = right
    <2>1. post[r].pc = "clean" /\ post[r].at \in Routes
      BY <1>5, <1>r DEF TakeBack, RowInv, PostIsHeld, AtRoute
    <2>2. job' = [job EXCEPT ![r] = [job[r] EXCEPT !.id[post[r].at] = IF @ = "live" THEN "gone" ELSE @]]
      BY <1>5 DEF TakeBack
    <2>3. [job[r].id EXCEPT ![post[r].at] = IF @ = "live" THEN "gone" ELSE @] \in [Routes -> KnownIds]
      BY <1>y, <2>1, <1>5 DEF DestStates, KnownIds, PostRow
    <2>4. /\ job'[r] \in JobRow /\ job'[r].status = job[r].status /\ job'[r].stage = job[r].stage
          /\ job'[r].path = job[r].path /\ job'[r].tries = job[r].tries
          /\ job'[r].dest = job[r].dest
          /\ job'[r].id = [job[r].id EXCEPT ![post[r].at] = IF @ = "live" THEN "gone" ELSE @]
          /\ \A q \in Ingestions : q # r => job'[q] = job[q]
          /\ job' \in [Ingestions -> JobRow]
      BY <1>y, <2>2, <2>3 DEF JobRow
    <2>5. \A e \in Routes : job'[r].id[e] = IF e = post[r].at /\ job[r].id[e] = "live"
              THEN "gone" ELSE job[r].id[e]
      BY <1>y, <2>4, <2>1
    <2>6. post' = [post EXCEPT ![r] = [post[r] EXCEPT !.pc = "answered", !.error = "unresolved",
              !.id = "gone"]]
      BY <1>5 DEF TakeBack, AnswerWith
    <2>7. /\ post'[r] \in PostRow /\ post'[r].pc = "answered" /\ post'[r].by = post[r].by
          /\ post'[r].at = post[r].at /\ post'[r].error = "unresolved" /\ post'[r].id = "gone"
          /\ post'[r].upload = post[r].upload
          /\ \A q \in Ingestions : q # r => post'[q] = post[q]
          /\ post' \in [Ingestions -> PostRow]
      BY <1>y, <2>6 DEF PostRow, KnownIds
    <2>8. UNCHANGED <<custom, message, entry, settler, right, vouched, excused, deletedFor>>
      BY <1>5 DEF TakeBack, shown, record, budget
    <2>9. /\ \A e \in Routes : e = post[r].at => (AtMostOne(r, e) =>
                 AtMostOne(r, e)' /\ ~Present(r, e)') /\ (AsWanted(r, e)' <=> AsWanted(r, e))
          /\ ElsewhereShown(r)
      BY <1>t, <1>5, <2>1, <2>8, BareTaken
    <2>10. /\ PostIsHeld(r)' /\ DirectIsFirst(r)' /\ DoubtIsHeld(r)' /\ AnswerIsTrue(r)'
           /\ KnownIsThere(r)'
      BY <1>r, <2>1, <2>4, <2>5, <2>7, <2>8, <2>9, <1>5 DEF RowInv, PostIsHeld, AtRoute,
         DirectIsFirst, DoubtIsHeld, AnswerIsTrue, Edits, Native, KnownIsThere, ElsewhereShown
    <2>11. /\ CaptionsAreKnown(r)' /\ DeletedIsOver(r)' /\ RowIsDelivered(r)' /\ RowIsShown(r)'
           /\ RowIsSentOnce(r)'
      BY <1>r, <2>1, <2>4, <2>5, <2>7, <2>8, <2>9, <1>5 DEF RowInv, CaptionsAreKnown, AtRoute,
         DeletedIsOver, RowIsDelivered, RowIsShown, RowIsSentOnce, ElsewhereShown
    <2>12. RowIsNew(r)'
      BY <1>r, <2>1, <2>4, <2>5, <2>7, <2>8, <2>9, <1>5 DEF RowInv, RowIsNew, PostIsHeld, AtRoute,
         ElsewhereShown
    <2>13. AheadIsUnsent(r)'
      BY <1>o, <1>r, <2>1, <2>4, <2>5, <2>7, <2>8, <2>9, <1>5 DEF RowInv, AheadIsUnsent, Unsent,
         Ahead, AtRoute, PostIsHeld, DirectIsFirst, TargetIsUnsent, Native, Edits, AnswerIsTrue,
         ElsewhereShown, RouteOrder
    <2>14. TargetIsUnsent(r)'
      BY <1>o, <1>r, <2>1, <2>4, <2>5, <2>7, <2>8, <2>9, <1>5 DEF RowInv, TargetIsUnsent, Unsent,
         Native, Edits, PostIsHeld, AtRoute, RowIsNew, DirectIsFirst, DoubtIsHeld, AnswerIsTrue,
         KnownIsThere, AheadIsUnsent, Ahead, CaptionsAreKnown, DeletedIsOver, RowIsDelivered,
         RowIsShown, RowIsSentOnce, ElsewhereShown, RouteOrder
    <2>15. LiveTypes' /\ CountIsKept' /\ OnlyRow(r)
      BY <1>t, <2>4, <2>7, <2>8, <2>9, <2>1, <1>5 DEF OnlyRow, LiveTypes, CountIsKept,
         ElsewhereShown
    <2> QED
      BY <1>t, <2>10, <2>11, <2>12, <2>13, <2>14, <2>15, OneRow DEF RowInv
  <1>6. CASE job' = [job EXCEPT ![r].id[post[r].at] = IF @ = "live" THEN "gone"
                 ELSE @] /\ AnswerWith(r, "unresolved", "gone") /\ ~(bare[Target(r)] > 0) /\
                 Fewer(right, Target(r)) /\ bare' = bare
    <2>1. post[r].pc = "clean" /\ post[r].at \in Routes
      BY <1>6, <1>r DEF TakeBack, RowInv, PostIsHeld, AtRoute
    <2>2. job' = [job EXCEPT ![r] = [job[r] EXCEPT !.id[post[r].at] = IF @ = "live" THEN "gone" ELSE @]]
      BY <1>6 DEF TakeBack
    <2>3. [job[r].id EXCEPT ![post[r].at] = IF @ = "live" THEN "gone" ELSE @] \in [Routes -> KnownIds]
      BY <1>y, <2>1, <1>6 DEF DestStates, KnownIds, PostRow
    <2>4. /\ job'[r] \in JobRow /\ job'[r].status = job[r].status /\ job'[r].stage = job[r].stage
          /\ job'[r].path = job[r].path /\ job'[r].tries = job[r].tries
          /\ job'[r].dest = job[r].dest
          /\ job'[r].id = [job[r].id EXCEPT ![post[r].at] = IF @ = "live" THEN "gone" ELSE @]
          /\ \A q \in Ingestions : q # r => job'[q] = job[q]
          /\ job' \in [Ingestions -> JobRow]
      BY <1>y, <2>2, <2>3 DEF JobRow
    <2>5. \A e \in Routes : job'[r].id[e] = IF e = post[r].at /\ job[r].id[e] = "live"
              THEN "gone" ELSE job[r].id[e]
      BY <1>y, <2>4, <2>1
    <2>6. post' = [post EXCEPT ![r] = [post[r] EXCEPT !.pc = "answered", !.error = "unresolved",
              !.id = "gone"]]
      BY <1>6 DEF TakeBack, AnswerWith
    <2>7. /\ post'[r] \in PostRow /\ post'[r].pc = "answered" /\ post'[r].by = post[r].by
          /\ post'[r].at = post[r].at /\ post'[r].error = "unresolved" /\ post'[r].id = "gone"
          /\ post'[r].upload = post[r].upload
          /\ \A q \in Ingestions : q # r => post'[q] = post[q]
          /\ post' \in [Ingestions -> PostRow]
      BY <1>y, <2>6 DEF PostRow, KnownIds
    <2>8. UNCHANGED <<custom, message, entry, settler, bare, vouched, excused, deletedFor>>
      BY <1>6 DEF TakeBack, shown, record, budget
    <2>9. /\ \A e \in Routes : e = post[r].at => (AtMostOne(r, e) =>
                 AtMostOne(r, e)' /\ ~Present(r, e)') /\ (AsWanted(r, e)' => AsWanted(r, e))
          /\ ElsewhereShown(r)
      BY <1>t, <1>6, <2>1, <2>8, WantedTaken
    <2>10. /\ PostIsHeld(r)' /\ DirectIsFirst(r)' /\ DoubtIsHeld(r)' /\ AnswerIsTrue(r)'
           /\ KnownIsThere(r)'
      BY <1>r, <2>1, <2>4, <2>5, <2>7, <2>8, <2>9, <1>6 DEF RowInv, PostIsHeld, AtRoute,
         DirectIsFirst, DoubtIsHeld, AnswerIsTrue, Edits, Native, KnownIsThere, ElsewhereShown
    <2>11. CaptionsAreKnown(r)' /\ DeletedIsOver(r)' /\ RowIsSentOnce(r)'
      BY <1>r, <2>1, <2>4, <2>5, <2>7, <2>8, <2>9, <1>6 DEF RowInv, CaptionsAreKnown, AtRoute,
         DeletedIsOver, RowIsSentOnce, ElsewhereShown
    <2>12. RowIsNew(r)'
      BY <1>r, <2>1, <2>4, <2>5, <2>7, <2>8, <2>9, <1>6 DEF RowInv, RowIsNew, PostIsHeld, AtRoute,
         ElsewhereShown
    <2>13. AheadIsUnsent(r)'
      BY <1>o, <1>r, <2>1, <2>4, <2>5, <2>7, <2>8, <2>9, <1>6 DEF RowInv, AheadIsUnsent, Unsent,
         Ahead, AtRoute, PostIsHeld, DirectIsFirst, TargetIsUnsent, Native, Edits, AnswerIsTrue,
         ElsewhereShown, RouteOrder
    <2>14. TargetIsUnsent(r)'
      BY <1>o, <1>r, <2>1, <2>4, <2>5, <2>7, <2>8, <2>9, <1>6 DEF RowInv, TargetIsUnsent, Unsent,
         Native, Edits, PostIsHeld, AtRoute, RowIsNew, DirectIsFirst, DoubtIsHeld, AnswerIsTrue,
         KnownIsThere, AheadIsUnsent, Ahead, CaptionsAreKnown, DeletedIsOver, RowIsDelivered,
         RowIsShown, RowIsSentOnce, ElsewhereShown, RouteOrder
    <2>15. RowIsDelivered(r)'
      BY <1>r, <2>1, <2>4, <2>5, <2>7, <2>8, <2>9, <1>6 DEF RowInv, RowIsDelivered, DeletedIsOver,
         ElsewhereShown
    <2>16. RowIsShown(r)'
      BY <1>o, <1>r, <2>1, <2>4, <2>5, <2>7, <2>8, <2>9, <1>6 DEF RowInv, RowIsShown, PostIsHeld,
         AtRoute, RowIsNew, DirectIsFirst, DoubtIsHeld, AnswerIsTrue, Edits, Native, KnownIsThere,
         AheadIsUnsent, Unsent, Ahead, TargetIsUnsent, CaptionsAreKnown, DeletedIsOver,
         RowIsDelivered, RowIsSentOnce, ElsewhereShown, RouteOrder
    <2>17. LiveTypes' /\ CountIsKept' /\ OnlyRow(r)
      BY <1>t, <2>4, <2>7, <2>8, <2>9, <2>1, <1>6 DEF OnlyRow, LiveTypes, CountIsKept,
         ElsewhereShown
    <2> QED
      BY <1>t, <2>10, <2>11, <2>12, <2>13, <2>14, <2>15, <2>16, <2>17, OneRow DEF RowInv
  <1>7. CASE AnswerPost(r, "unresolved") /\ UNCHANGED <<bare, right, job>>
    <2>1. post[r].pc = "clean" /\ post[r].at \in Routes
      BY <1>7, <1>r DEF TakeBack, RowInv, PostIsHeld, AtRoute
    <2>2. post' = [post EXCEPT ![r] = [post[r] EXCEPT !.pc = "answered", !.error = "unresolved"]]
      BY <1>7 DEF TakeBack, AnswerPost
    <2>3. /\ post'[r] \in PostRow /\ post'[r].pc = "answered" /\ post'[r].by = post[r].by
          /\ post'[r].at = post[r].at /\ post'[r].error = "unresolved" /\ post'[r].id = post[r].id
          /\ post'[r].upload = post[r].upload
          /\ \A q \in Ingestions : q # r => post'[q] = post[q]
          /\ post' \in [Ingestions -> PostRow]
      BY <1>y, <2>2 DEF PostRow, KnownIds
    <2>4. UNCHANGED <<custom, message, entry, job, settler, bare, right, vouched, excused, deletedFor>>
      BY <1>7 DEF TakeBack, shown, record, budget
    <2>5. /\ \A e \in Routes : (Present(r, e)' <=> Present(r, e)) /\ (AtMostOne(r, e)' <=> AtMostOne(r, e))
          /\ \A e \in Routes : AsWanted(r, e)' <=> AsWanted(r, e)
      BY <2>4 DEF Present, AtMostOne, AsWanted
    <2>6. RowInv(r)'
      BY <1>r, <2>1, <2>3, <2>4, <2>5, <1>7 DEF RowInv, PostIsHeld, AtRoute, RowIsNew,
         DirectIsFirst, DoubtIsHeld, AnswerIsTrue, Edits, Native, KnownIsThere, AheadIsUnsent,
         Unsent, Ahead, TargetIsUnsent, CaptionsAreKnown, DeletedIsOver, RowIsDelivered, RowIsShown,
         RowIsSentOnce
    <2>7. LiveTypes' /\ CountIsKept' /\ OnlyRow(r)
      BY <1>t, <2>3, <2>4, <2>1, <1>7 DEF OnlyRow, LiveTypes, CountIsKept
    <2> QED
      BY <1>t, <2>6, <2>7, OneRow
  <1> QED
    BY <1>1, <1>2, <1>3, <1>4, <1>5, <1>6, <1>7 DEF TakeBack, CopyGone, shown

\* a file is sent where no copy is.
LEMMA UploadFileKept ==
  ASSUME LiveInv, NEW r \in Ingestions, UploadFile(r)
  PROVE  LiveInv'
  <1>t. LiveTypes /\ CountIsKept /\ RowTyped(r)
    BY TypedRows DEF LiveInv
  <1>r. RowInv(r)
    BY DEF LiveInv
  <1>o. RouteOrder(r) /\ custom \subseteq Routes
    BY <1>t, RoutesOrdered DEF LiveTypes
  <1>y. /\ job \in [Ingestions -> JobRow] /\ post \in [Ingestions -> PostRow]
        /\ job[r] \in JobRow /\ post[r] \in PostRow /\ r \in Ingestions
        /\ job[r].dest \in [Routes -> DestStates] /\ job[r].id \in [Routes -> KnownIds]
        /\ post[r].at + 1 \in Nat /\ job[r].tries + 1 \in Nat
    BY <1>t DEF LiveTypes, RowTyped
  <1>1. CASE post' = [post EXCEPT ![r].pc = "answered", ![r].error = "none", ![r].upload = TRUE] /\
                 More(right, Target(r))
    <2>1. post[r].pc = "upload" /\ post[r].at \in Routes
      BY <1>1, <1>r DEF UploadFile, RowInv, PostIsHeld, AtRoute
    <2>2. post' = [post EXCEPT ![r] = [post[r] EXCEPT !.pc = "answered", !.error = "none", !.upload = TRUE]]
      BY <1>1 DEF UploadFile
    <2>3. /\ post'[r] \in PostRow /\ post'[r].pc = "answered" /\ post'[r].by = post[r].by
          /\ post'[r].at = post[r].at /\ post'[r].error = "none" /\ post'[r].id = post[r].id
          /\ post'[r].upload = TRUE
          /\ \A q \in Ingestions : q # r => post'[q] = post[q]
          /\ post' \in [Ingestions -> PostRow]
      BY <1>y, <2>2 DEF PostRow, KnownIds
    <2>4. UNCHANGED <<custom, message, entry, job, settler, bare, vouched, excused, deletedFor>>
      BY <1>1 DEF UploadFile, shown, record, budget
    <2>5. /\ \A e \in Routes : e = post[r].at =>
                 Present(r, e)' /\ (AtMostOne(r, e)' <=> ~Present(r, e)) /\ AsWanted(r, e)'
          /\ ElsewhereShown(r)
      BY <1>t, <1>1, <2>1, <2>4, WantedMade
    <2>6. /\ PostIsHeld(r)' /\ DirectIsFirst(r)' /\ DoubtIsHeld(r)' /\ AnswerIsTrue(r)'
          /\ KnownIsThere(r)'
      BY <1>r, <2>1, <2>3, <2>4, <2>5, <1>1 DEF RowInv, PostIsHeld, AtRoute, DirectIsFirst,
         DoubtIsHeld, AnswerIsTrue, Edits, Native, KnownIsThere, ElsewhereShown
    <2>7. /\ TargetIsUnsent(r)' /\ CaptionsAreKnown(r)' /\ DeletedIsOver(r)' /\ RowIsDelivered(r)'
          /\ RowIsShown(r)'
      BY <1>r, <2>1, <2>3, <2>4, <2>5, <1>1 DEF RowInv, TargetIsUnsent, Unsent, Native, Edits,
         CaptionsAreKnown, AtRoute, DeletedIsOver, RowIsDelivered, RowIsShown, ElsewhereShown
    <2>8. RowIsNew(r)'
      BY <1>r, <2>1, <2>3, <2>4, <2>5, <1>1 DEF RowInv, RowIsNew, PostIsHeld, AtRoute,
         ElsewhereShown
    <2>9. AheadIsUnsent(r)'
      BY <1>o, <1>r, <2>1, <2>3, <2>4, <2>5, <1>1 DEF RowInv, AheadIsUnsent, Unsent, Ahead, AtRoute,
         PostIsHeld, DirectIsFirst, TargetIsUnsent, Native, Edits, AnswerIsTrue, ElsewhereShown,
         RouteOrder
    <2>10. RowIsSentOnce(r)'
      BY <1>r, <2>1, <2>3, <2>4, <2>5, <1>1 DEF RowInv, RowIsSentOnce, TargetIsUnsent, Unsent,
         Native, Edits, ElsewhereShown
    <2>11. LiveTypes' /\ CountIsKept' /\ OnlyRow(r)
      BY <1>t, <2>3, <2>4, <2>5, <2>1, <1>1 DEF OnlyRow, LiveTypes, CountIsKept, ElsewhereShown
    <2> QED
      BY <1>t, <2>6, <2>7, <2>8, <2>9, <2>10, <2>11, OneRow DEF RowInv
  <1>2. CASE post' = [post EXCEPT ![r].pc = "answered", ![r].error = "lost", ![r].upload = TRUE] /\
                 More(right, Target(r))
    <2>1. post[r].pc = "upload" /\ post[r].at \in Routes
      BY <1>2, <1>r DEF UploadFile, RowInv, PostIsHeld, AtRoute
    <2>2. post' = [post EXCEPT ![r] = [post[r] EXCEPT !.pc = "answered", !.error = "lost", !.upload = TRUE]]
      BY <1>2 DEF UploadFile
    <2>3. /\ post'[r] \in PostRow /\ post'[r].pc = "answered" /\ post'[r].by = post[r].by
          /\ post'[r].at = post[r].at /\ post'[r].error = "lost" /\ post'[r].id = post[r].id
          /\ post'[r].upload = TRUE
          /\ \A q \in Ingestions : q # r => post'[q] = post[q]
          /\ post' \in [Ingestions -> PostRow]
      BY <1>y, <2>2 DEF PostRow, KnownIds
    <2>4. UNCHANGED <<custom, message, entry, job, settler, bare, vouched, excused, deletedFor>>
      BY <1>2 DEF UploadFile, shown, record, budget
    <2>5. /\ \A e \in Routes : e = post[r].at =>
                 Present(r, e)' /\ (AtMostOne(r, e)' <=> ~Present(r, e)) /\ AsWanted(r, e)'
          /\ ElsewhereShown(r)
      BY <1>t, <1>2, <2>1, <2>4, WantedMade
    <2>6. /\ PostIsHeld(r)' /\ DirectIsFirst(r)' /\ DoubtIsHeld(r)' /\ AnswerIsTrue(r)'
          /\ KnownIsThere(r)'
      BY <1>r, <2>1, <2>3, <2>4, <2>5, <1>2 DEF RowInv, PostIsHeld, AtRoute, DirectIsFirst,
         DoubtIsHeld, AnswerIsTrue, Edits, Native, KnownIsThere, ElsewhereShown
    <2>7. /\ TargetIsUnsent(r)' /\ CaptionsAreKnown(r)' /\ DeletedIsOver(r)' /\ RowIsDelivered(r)'
          /\ RowIsShown(r)'
      BY <1>r, <2>1, <2>3, <2>4, <2>5, <1>2 DEF RowInv, TargetIsUnsent, Unsent, Native, Edits,
         CaptionsAreKnown, AtRoute, DeletedIsOver, RowIsDelivered, RowIsShown, ElsewhereShown
    <2>8. RowIsNew(r)'
      BY <1>r, <2>1, <2>3, <2>4, <2>5, <1>2 DEF RowInv, RowIsNew, PostIsHeld, AtRoute,
         ElsewhereShown
    <2>9. AheadIsUnsent(r)'
      BY <1>o, <1>r, <2>1, <2>3, <2>4, <2>5, <1>2 DEF RowInv, AheadIsUnsent, Unsent, Ahead, AtRoute,
         PostIsHeld, DirectIsFirst, TargetIsUnsent, Native, Edits, AnswerIsTrue, ElsewhereShown,
         RouteOrder
    <2>10. RowIsSentOnce(r)'
      BY <1>r, <2>1, <2>3, <2>4, <2>5, <1>2 DEF RowInv, RowIsSentOnce, TargetIsUnsent, Unsent,
         Native, Edits, ElsewhereShown
    <2>11. LiveTypes' /\ CountIsKept' /\ OnlyRow(r)
      BY <1>t, <2>3, <2>4, <2>5, <2>1, <1>2 DEF OnlyRow, LiveTypes, CountIsKept, ElsewhereShown
    <2> QED
      BY <1>t, <2>6, <2>7, <2>8, <2>9, <2>10, <2>11, OneRow DEF RowInv
  <1>3. CASE post' = [post EXCEPT ![r].pc = "answered", ![r].error = "refused",
                 ![r].upload = TRUE] /\ right' = right
    <2>1. post[r].pc = "upload" /\ post[r].at \in Routes
      BY <1>3, <1>r DEF UploadFile, RowInv, PostIsHeld, AtRoute
    <2>2. post' = [post EXCEPT ![r] = [post[r] EXCEPT !.pc = "answered", !.error = "refused",
              !.upload = TRUE]]
      BY <1>3 DEF UploadFile
    <2>3. /\ post'[r] \in PostRow /\ post'[r].pc = "answered" /\ post'[r].by = post[r].by
          /\ post'[r].at = post[r].at /\ post'[r].error = "refused" /\ post'[r].id = post[r].id
          /\ post'[r].upload = TRUE
          /\ \A q \in Ingestions : q # r => post'[q] = post[q]
          /\ post' \in [Ingestions -> PostRow]
      BY <1>y, <2>2 DEF PostRow, KnownIds
    <2>4. UNCHANGED <<custom, message, entry, job, settler, bare, right, vouched, excused, deletedFor>>
      BY <1>3 DEF UploadFile, shown, record, budget
    <2>5. /\ \A e \in Routes : (Present(r, e)' <=> Present(r, e)) /\ (AtMostOne(r, e)' <=> AtMostOne(r, e))
          /\ \A e \in Routes : AsWanted(r, e)' <=> AsWanted(r, e)
      BY <2>4 DEF Present, AtMostOne, AsWanted
    <2>6. RowInv(r)'
      BY <1>r, <2>1, <2>3, <2>4, <2>5, <1>3 DEF RowInv, PostIsHeld, AtRoute, RowIsNew,
         DirectIsFirst, DoubtIsHeld, AnswerIsTrue, Edits, Native, KnownIsThere, AheadIsUnsent,
         Unsent, Ahead, TargetIsUnsent, CaptionsAreKnown, DeletedIsOver, RowIsDelivered, RowIsShown,
         RowIsSentOnce
    <2>7. LiveTypes' /\ CountIsKept' /\ OnlyRow(r)
      BY <1>t, <2>3, <2>4, <2>1, <1>3 DEF OnlyRow, LiveTypes, CountIsKept
    <2> QED
      BY <1>t, <2>6, <2>7, OneRow
  <1>4. CASE post' = [post EXCEPT ![r].pc = "answered", ![r].error = "lost", ![r].upload = TRUE] /\
                 right' = right
    <2>1. post[r].pc = "upload" /\ post[r].at \in Routes
      BY <1>4, <1>r DEF UploadFile, RowInv, PostIsHeld, AtRoute
    <2>2. post' = [post EXCEPT ![r] = [post[r] EXCEPT !.pc = "answered", !.error = "lost", !.upload = TRUE]]
      BY <1>4 DEF UploadFile
    <2>3. /\ post'[r] \in PostRow /\ post'[r].pc = "answered" /\ post'[r].by = post[r].by
          /\ post'[r].at = post[r].at /\ post'[r].error = "lost" /\ post'[r].id = post[r].id
          /\ post'[r].upload = TRUE
          /\ \A q \in Ingestions : q # r => post'[q] = post[q]
          /\ post' \in [Ingestions -> PostRow]
      BY <1>y, <2>2 DEF PostRow, KnownIds
    <2>4. UNCHANGED <<custom, message, entry, job, settler, bare, right, vouched, excused, deletedFor>>
      BY <1>4 DEF UploadFile, shown, record, budget
    <2>5. /\ \A e \in Routes : (Present(r, e)' <=> Present(r, e)) /\ (AtMostOne(r, e)' <=> AtMostOne(r, e))
          /\ \A e \in Routes : AsWanted(r, e)' <=> AsWanted(r, e)
      BY <2>4 DEF Present, AtMostOne, AsWanted
    <2>6. RowInv(r)'
      BY <1>r, <2>1, <2>3, <2>4, <2>5, <1>4 DEF RowInv, PostIsHeld, AtRoute, RowIsNew,
         DirectIsFirst, DoubtIsHeld, AnswerIsTrue, Edits, Native, KnownIsThere, AheadIsUnsent,
         Unsent, Ahead, TargetIsUnsent, CaptionsAreKnown, DeletedIsOver, RowIsDelivered, RowIsShown,
         RowIsSentOnce
    <2>7. LiveTypes' /\ CountIsKept' /\ OnlyRow(r)
      BY <1>t, <2>3, <2>4, <2>1, <1>4 DEF OnlyRow, LiveTypes, CountIsKept
    <2> QED
      BY <1>t, <2>6, <2>7, OneRow
  <1> QED
    BY <1>1, <1>2, <1>3, <1>4 DEF UploadFile

\* A direct forward goes on after a copy and ends without one.
LEMMA DirectAnsweredKept ==
  ASSUME LiveInv, NEW r \in Ingestions, DirectAnswered(r)
  PROVE  LiveInv'
  <1>t. LiveTypes /\ CountIsKept /\ RowTyped(r)
    BY TypedRows DEF LiveInv
  <1>r. RowInv(r)
    BY DEF LiveInv
  <1>o. RouteOrder(r) /\ custom \subseteq Routes
    BY <1>t, RoutesOrdered DEF LiveTypes
  <1>y. /\ job \in [Ingestions -> JobRow] /\ post \in [Ingestions -> PostRow]
        /\ job[r] \in JobRow /\ post[r] \in PostRow /\ r \in Ingestions
        /\ job[r].dest \in [Routes -> DestStates] /\ job[r].id \in [Routes -> KnownIds]
        /\ post[r].at + 1 \in Nat /\ job[r].tries + 1 \in Nat
    BY <1>t DEF LiveTypes, RowTyped
  <1>1. CASE post[r].error = "none"
    <2>1. post[r].pc = "answered" /\ post[r].at \in Routes /\ post[r].by = "direct"
      BY <1>1, <1>r DEF DirectAnswered, RowInv, PostIsHeld, AtRoute
    <2>2. job' = [job EXCEPT ![r] = [job[r] EXCEPT !.dest[post[r].at] = "forwarded",
              !.id[post[r].at] = post[r].id]]
      BY <1>1 DEF DirectAnswered
    <2>3. /\ [job[r].dest EXCEPT ![post[r].at] = "forwarded"] \in [Routes -> DestStates]
          /\ [job[r].id EXCEPT ![post[r].at] = post[r].id] \in [Routes -> KnownIds]
      BY <1>y, <2>1, <1>1 DEF DestStates, KnownIds, PostRow
    <2>4. /\ job'[r] \in JobRow /\ job'[r].status = job[r].status /\ job'[r].stage = job[r].stage
          /\ job'[r].path = job[r].path /\ job'[r].tries = job[r].tries
          /\ job'[r].dest = [job[r].dest EXCEPT ![post[r].at] = "forwarded"]
          /\ job'[r].id = [job[r].id EXCEPT ![post[r].at] = post[r].id]
          /\ \A q \in Ingestions : q # r => job'[q] = job[q]
          /\ job' \in [Ingestions -> JobRow]
      BY <1>y, <2>2, <2>3 DEF JobRow, PostRow
    <2>5. /\ \A e \in Routes : job'[r].dest[e] = IF e = post[r].at THEN "forwarded" ELSE job[r].dest[e]
          /\ \A e \in Routes : job'[r].id[e] = IF e = post[r].at THEN post[r].id ELSE job[r].id[e]
      BY <1>y, <2>4, <2>1
    <2>6. post' = [post EXCEPT ![r] = [post[r] EXCEPT !.pc = "next", !.at = post[r].at + 1]]
      BY <1>1 DEF DirectAnswered
    <2>7. /\ post'[r] \in PostRow /\ post'[r].pc = "next" /\ post'[r].by = post[r].by
          /\ post'[r].at = post[r].at + 1 /\ post'[r].error = post[r].error
          /\ post'[r].id = post[r].id /\ post'[r].upload = post[r].upload
          /\ \A q \in Ingestions : q # r => post'[q] = post[q]
          /\ post' \in [Ingestions -> PostRow]
      BY <1>y, <2>6 DEF PostRow, KnownIds
    <2>8. UNCHANGED <<custom, message, entry, settler, bare, right, vouched, excused, deletedFor>>
      BY <1>1 DEF DirectAnswered, shown, record, budget
    <2>9. /\ \A e \in Routes : (Present(r, e)' <=> Present(r, e)) /\ (AtMostOne(r, e)' <=> AtMostOne(r, e))
          /\ \A e \in Routes : AsWanted(r, e)' <=> AsWanted(r, e)
      BY <2>8 DEF Present, AtMostOne, AsWanted
    <2>10. /\ DoubtIsHeld(r)' /\ AnswerIsTrue(r)' /\ KnownIsThere(r)' /\ TargetIsUnsent(r)'
           /\ CaptionsAreKnown(r)'
      BY <1>r, <2>1, <2>4, <2>5, <2>7, <2>8, <2>9, <1>1 DEF RowInv, DoubtIsHeld, AnswerIsTrue,
         Edits, Native, KnownIsThere, AtRoute, TargetIsUnsent, Unsent, CaptionsAreKnown
    <2>11. DeletedIsOver(r)' /\ RowIsDelivered(r)' /\ RowIsSentOnce(r)'
      BY <1>r, <2>1, <2>4, <2>5, <2>7, <2>8, <2>9, <1>1 DEF RowInv, DeletedIsOver, RowIsDelivered,
         RowIsSentOnce
    <2>12. PostIsHeld(r)'
      BY <1>o, <1>r, <2>1, <2>4, <2>5, <2>7, <2>8, <2>9, <1>1 DEF RowInv, PostIsHeld, AtRoute,
         RouteOrder
    <2>13. RowIsNew(r)'
      BY <1>r, <2>1, <2>4, <2>5, <2>7, <2>8, <2>9, <1>1 DEF RowInv, RowIsNew, PostIsHeld, AtRoute
    <2>14. DirectIsFirst(r)'
      BY <1>o, <1>r, <2>1, <2>4, <2>5, <2>7, <2>8, <2>9, <1>1 DEF RowInv, DirectIsFirst, PostIsHeld,
         AtRoute, AnswerIsTrue, Edits, Native, RouteOrder
    <2>15. AheadIsUnsent(r)'
      BY <1>o, <1>r, <2>1, <2>4, <2>5, <2>7, <2>8, <2>9, <1>1 DEF RowInv, AheadIsUnsent, Unsent,
         Ahead, AtRoute, PostIsHeld, DirectIsFirst, TargetIsUnsent, Native, Edits, AnswerIsTrue,
         RouteOrder
    <2>16. RowIsShown(r)'
      BY <1>r, <2>1, <2>4, <2>5, <2>7, <2>8, <2>9, <1>1 DEF RowInv, RowIsShown, AnswerIsTrue, Edits,
         Native
    <2>17. LiveTypes' /\ CountIsKept' /\ OnlyRow(r)
      BY <1>t, <2>4, <2>7, <2>8, <2>1, <1>1 DEF OnlyRow, LiveTypes, CountIsKept
    <2> QED
      BY <1>t, <2>10, <2>11, <2>12, <2>13, <2>14, <2>15, <2>16, <2>17, OneRow DEF RowInv
  <1>2. CASE post[r].error = "refused"
    <2>1. post[r].pc = "answered" /\ post[r].at \in Routes /\ post[r].by = "direct"
      BY <1>2, <1>r DEF DirectAnswered, RowInv, PostIsHeld, AtRoute
    <2>2. job' = [job EXCEPT ![r] = [job[r] EXCEPT !.dest[post[r].at] = IF Lost(r)
              THEN "uncertain" ELSE @, !.id[post[r].at] = post[r].id,
              !.stage = IF Unresolved(r) THEN "caption_edit_failed" ELSE "fallback_download"]]
      BY <1>2 DEF DirectAnswered
    <2>3. /\ [job[r].dest EXCEPT ![post[r].at] = IF Lost(r) THEN "uncertain"
                 ELSE @] \in [Routes -> DestStates]
          /\ [job[r].id EXCEPT ![post[r].at] = post[r].id] \in [Routes -> KnownIds]
      BY <1>y, <2>1, <1>2 DEF DestStates, KnownIds, PostRow
    <2>4. /\ job'[r] \in JobRow /\ job'[r].status = job[r].status
          /\ job'[r].stage = (IF post[r].error = "unresolved" THEN "caption_edit_failed"
                 ELSE "fallback_download")
          /\ job'[r].path = job[r].path /\ job'[r].tries = job[r].tries
          /\ job'[r].dest = [job[r].dest EXCEPT ![post[r].at] = IF Lost(r) THEN "uncertain" ELSE @]
          /\ job'[r].id = [job[r].id EXCEPT ![post[r].at] = post[r].id]
          /\ \A q \in Ingestions : q # r => job'[q] = job[q]
          /\ job' \in [Ingestions -> JobRow]
      BY <1>y, <2>2, <2>3 DEF JobRow, PostRow, Lost, Unresolved
    <2>5. /\ \A e \in Routes : job'[r].dest[e] = IF e = post[r].at /\ post[r].error = "lost"
                 THEN "uncertain" ELSE job[r].dest[e]
          /\ \A e \in Routes : job'[r].id[e] = IF e = post[r].at THEN post[r].id ELSE job[r].id[e]
      BY <1>y, <2>4, <2>1 DEF Lost, Unresolved
    <2>6. post' = [post EXCEPT ![r] = [post[r] EXCEPT !.pc = "posted"]]
      BY <1>2 DEF DirectAnswered, GoPost
    <2>7. /\ post'[r] \in PostRow /\ post'[r].pc = "posted" /\ post'[r].by = post[r].by
          /\ post'[r].at = post[r].at /\ post'[r].error = post[r].error /\ post'[r].id = post[r].id
          /\ post'[r].upload = post[r].upload
          /\ \A q \in Ingestions : q # r => post'[q] = post[q]
          /\ post' \in [Ingestions -> PostRow]
      BY <1>y, <2>6 DEF PostRow, KnownIds
    <2>8. UNCHANGED <<custom, message, entry, settler, bare, right, vouched, excused, deletedFor>>
      BY <1>2 DEF DirectAnswered, shown, record, budget
    <2>9. /\ \A e \in Routes : (Present(r, e)' <=> Present(r, e)) /\ (AtMostOne(r, e)' <=> AtMostOne(r, e))
          /\ \A e \in Routes : AsWanted(r, e)' <=> AsWanted(r, e)
      BY <2>8 DEF Present, AtMostOne, AsWanted
    <2>10. /\ PostIsHeld(r)' /\ AnswerIsTrue(r)' /\ KnownIsThere(r)' /\ TargetIsUnsent(r)'
           /\ CaptionsAreKnown(r)'
      BY <1>r, <2>1, <2>4, <2>5, <2>7, <2>8, <2>9, <1>2 DEF RowInv, PostIsHeld, AtRoute,
         AnswerIsTrue, Edits, Native, KnownIsThere, TargetIsUnsent, Unsent, CaptionsAreKnown
    <2>11. DeletedIsOver(r)' /\ RowIsDelivered(r)' /\ RowIsShown(r)' /\ RowIsSentOnce(r)'
      BY <1>r, <2>1, <2>4, <2>5, <2>7, <2>8, <2>9, <1>2 DEF RowInv, DeletedIsOver, RowIsDelivered,
         RowIsShown, RowIsSentOnce
    <2>12. RowIsNew(r)'
      BY <1>r, <2>1, <2>4, <2>5, <2>7, <2>8, <2>9, <1>2 DEF RowInv, RowIsNew, PostIsHeld, AtRoute
    <2>13. DirectIsFirst(r)'
      BY <1>o, <1>r, <2>1, <2>4, <2>5, <2>7, <2>8, <2>9, <1>2 DEF RowInv, DirectIsFirst, PostIsHeld,
         AtRoute, AnswerIsTrue, Edits, Native, RouteOrder
    <2>14. DoubtIsHeld(r)'
      BY <1>r, <2>1, <2>4, <2>5, <2>7, <2>8, <2>9, <1>2 DEF RowInv, DoubtIsHeld, PostIsHeld, AtRoute
    <2>15. AheadIsUnsent(r)'
      BY <1>t, <1>o, <1>r, <2>1, <2>4, <2>5, <2>7, <2>8, <2>9, <1>2 DEF RowInv, AheadIsUnsent,
         Unsent, Ahead, AtRoute, PostIsHeld, RowIsNew, DirectIsFirst, DoubtIsHeld, AnswerIsTrue,
         Edits, Native, KnownIsThere, TargetIsUnsent, CaptionsAreKnown, DeletedIsOver,
         RowIsDelivered, RowIsShown, RowIsSentOnce, RouteOrder, RowTyped
    <2>16. LiveTypes' /\ CountIsKept' /\ OnlyRow(r)
      BY <1>t, <2>4, <2>7, <2>8, <2>1, <1>2 DEF OnlyRow, LiveTypes, CountIsKept
    <2> QED
      BY <1>t, <2>10, <2>11, <2>12, <2>13, <2>14, <2>15, <2>16, OneRow DEF RowInv
  <1>3. CASE post[r].error = "lost"
    <2>1. post[r].pc = "answered" /\ post[r].at \in Routes /\ post[r].by = "direct"
      BY <1>3, <1>r DEF DirectAnswered, RowInv, PostIsHeld, AtRoute
    <2>2. job' = [job EXCEPT ![r] = [job[r] EXCEPT !.dest[post[r].at] = IF Lost(r)
              THEN "uncertain" ELSE @, !.id[post[r].at] = post[r].id,
              !.stage = IF Unresolved(r) THEN "caption_edit_failed" ELSE "fallback_download"]]
      BY <1>3 DEF DirectAnswered
    <2>3. /\ [job[r].dest EXCEPT ![post[r].at] = IF Lost(r) THEN "uncertain"
                 ELSE @] \in [Routes -> DestStates]
          /\ [job[r].id EXCEPT ![post[r].at] = post[r].id] \in [Routes -> KnownIds]
      BY <1>y, <2>1, <1>3 DEF DestStates, KnownIds, PostRow
    <2>4. /\ job'[r] \in JobRow /\ job'[r].status = job[r].status
          /\ job'[r].stage = (IF post[r].error = "unresolved" THEN "caption_edit_failed"
                 ELSE "fallback_download")
          /\ job'[r].path = job[r].path /\ job'[r].tries = job[r].tries
          /\ job'[r].dest = [job[r].dest EXCEPT ![post[r].at] = IF Lost(r) THEN "uncertain" ELSE @]
          /\ job'[r].id = [job[r].id EXCEPT ![post[r].at] = post[r].id]
          /\ \A q \in Ingestions : q # r => job'[q] = job[q]
          /\ job' \in [Ingestions -> JobRow]
      BY <1>y, <2>2, <2>3 DEF JobRow, PostRow, Lost, Unresolved
    <2>5. /\ \A e \in Routes : job'[r].dest[e] = IF e = post[r].at /\ post[r].error = "lost"
                 THEN "uncertain" ELSE job[r].dest[e]
          /\ \A e \in Routes : job'[r].id[e] = IF e = post[r].at THEN post[r].id ELSE job[r].id[e]
      BY <1>y, <2>4, <2>1 DEF Lost, Unresolved
    <2>6. post' = [post EXCEPT ![r] = [post[r] EXCEPT !.pc = "posted"]]
      BY <1>3 DEF DirectAnswered, GoPost
    <2>7. /\ post'[r] \in PostRow /\ post'[r].pc = "posted" /\ post'[r].by = post[r].by
          /\ post'[r].at = post[r].at /\ post'[r].error = post[r].error /\ post'[r].id = post[r].id
          /\ post'[r].upload = post[r].upload
          /\ \A q \in Ingestions : q # r => post'[q] = post[q]
          /\ post' \in [Ingestions -> PostRow]
      BY <1>y, <2>6 DEF PostRow, KnownIds
    <2>8. UNCHANGED <<custom, message, entry, settler, bare, right, vouched, excused, deletedFor>>
      BY <1>3 DEF DirectAnswered, shown, record, budget
    <2>9. /\ \A e \in Routes : (Present(r, e)' <=> Present(r, e)) /\ (AtMostOne(r, e)' <=> AtMostOne(r, e))
          /\ \A e \in Routes : AsWanted(r, e)' <=> AsWanted(r, e)
      BY <2>8 DEF Present, AtMostOne, AsWanted
    <2>10. /\ PostIsHeld(r)' /\ AnswerIsTrue(r)' /\ KnownIsThere(r)' /\ TargetIsUnsent(r)'
           /\ CaptionsAreKnown(r)'
      BY <1>r, <2>1, <2>4, <2>5, <2>7, <2>8, <2>9, <1>3 DEF RowInv, PostIsHeld, AtRoute,
         AnswerIsTrue, Edits, Native, KnownIsThere, TargetIsUnsent, Unsent, CaptionsAreKnown
    <2>11. DeletedIsOver(r)' /\ RowIsDelivered(r)' /\ RowIsShown(r)' /\ RowIsSentOnce(r)'
      BY <1>r, <2>1, <2>4, <2>5, <2>7, <2>8, <2>9, <1>3 DEF RowInv, DeletedIsOver, RowIsDelivered,
         RowIsShown, RowIsSentOnce
    <2>12. RowIsNew(r)'
      BY <1>r, <2>1, <2>4, <2>5, <2>7, <2>8, <2>9, <1>3 DEF RowInv, RowIsNew, PostIsHeld, AtRoute
    <2>13. DirectIsFirst(r)'
      BY <1>o, <1>r, <2>1, <2>4, <2>5, <2>7, <2>8, <2>9, <1>3 DEF RowInv, DirectIsFirst, PostIsHeld,
         AtRoute, AnswerIsTrue, Edits, Native, RouteOrder
    <2>14. DoubtIsHeld(r)'
      BY <1>r, <2>1, <2>4, <2>5, <2>7, <2>8, <2>9, <1>3 DEF RowInv, DoubtIsHeld, PostIsHeld, AtRoute
    <2>15. AheadIsUnsent(r)'
      BY <1>o, <1>r, <2>1, <2>4, <2>5, <2>7, <2>8, <2>9, <1>3 DEF RowInv, AheadIsUnsent, Unsent,
         Ahead, AtRoute, PostIsHeld, DirectIsFirst, TargetIsUnsent, Native, Edits, AnswerIsTrue,
         RouteOrder
    <2>16. LiveTypes' /\ CountIsKept' /\ OnlyRow(r)
      BY <1>t, <2>4, <2>7, <2>8, <2>1, <1>3 DEF OnlyRow, LiveTypes, CountIsKept
    <2> QED
      BY <1>t, <2>10, <2>11, <2>12, <2>13, <2>14, <2>15, <2>16, OneRow DEF RowInv
  <1>4. CASE post[r].error = "unresolved"
    <2>1. post[r].pc = "answered" /\ post[r].at \in Routes /\ post[r].by = "direct"
      BY <1>4, <1>r DEF DirectAnswered, RowInv, PostIsHeld, AtRoute
    <2>2. job' = [job EXCEPT ![r] = [job[r] EXCEPT !.dest[post[r].at] = IF Lost(r)
              THEN "uncertain" ELSE @, !.id[post[r].at] = post[r].id,
              !.stage = IF Unresolved(r) THEN "caption_edit_failed" ELSE "fallback_download"]]
      BY <1>4 DEF DirectAnswered
    <2>3. /\ [job[r].dest EXCEPT ![post[r].at] = IF Lost(r) THEN "uncertain"
                 ELSE @] \in [Routes -> DestStates]
          /\ [job[r].id EXCEPT ![post[r].at] = post[r].id] \in [Routes -> KnownIds]
      BY <1>y, <2>1, <1>4 DEF DestStates, KnownIds, PostRow
    <2>4. /\ job'[r] \in JobRow /\ job'[r].status = job[r].status
          /\ job'[r].stage = (IF post[r].error = "unresolved" THEN "caption_edit_failed"
                 ELSE "fallback_download")
          /\ job'[r].path = job[r].path /\ job'[r].tries = job[r].tries
          /\ job'[r].dest = [job[r].dest EXCEPT ![post[r].at] = IF Lost(r) THEN "uncertain" ELSE @]
          /\ job'[r].id = [job[r].id EXCEPT ![post[r].at] = post[r].id]
          /\ \A q \in Ingestions : q # r => job'[q] = job[q]
          /\ job' \in [Ingestions -> JobRow]
      BY <1>y, <2>2, <2>3 DEF JobRow, PostRow, Lost, Unresolved
    <2>5. /\ \A e \in Routes : job'[r].dest[e] = IF e = post[r].at /\ post[r].error = "lost"
                 THEN "uncertain" ELSE job[r].dest[e]
          /\ \A e \in Routes : job'[r].id[e] = IF e = post[r].at THEN post[r].id ELSE job[r].id[e]
      BY <1>y, <2>4, <2>1 DEF Lost, Unresolved
    <2>6. post' = [post EXCEPT ![r] = [post[r] EXCEPT !.pc = "posted"]]
      BY <1>4 DEF DirectAnswered, GoPost
    <2>7. /\ post'[r] \in PostRow /\ post'[r].pc = "posted" /\ post'[r].by = post[r].by
          /\ post'[r].at = post[r].at /\ post'[r].error = post[r].error /\ post'[r].id = post[r].id
          /\ post'[r].upload = post[r].upload
          /\ \A q \in Ingestions : q # r => post'[q] = post[q]
          /\ post' \in [Ingestions -> PostRow]
      BY <1>y, <2>6 DEF PostRow, KnownIds
    <2>8. UNCHANGED <<custom, message, entry, settler, bare, right, vouched, excused, deletedFor>>
      BY <1>4 DEF DirectAnswered, shown, record, budget
    <2>9. /\ \A e \in Routes : (Present(r, e)' <=> Present(r, e)) /\ (AtMostOne(r, e)' <=> AtMostOne(r, e))
          /\ \A e \in Routes : AsWanted(r, e)' <=> AsWanted(r, e)
      BY <2>8 DEF Present, AtMostOne, AsWanted
    <2>10. /\ PostIsHeld(r)' /\ DoubtIsHeld(r)' /\ AnswerIsTrue(r)' /\ KnownIsThere(r)'
           /\ TargetIsUnsent(r)'
      BY <1>r, <2>1, <2>4, <2>5, <2>7, <2>8, <2>9, <1>4 DEF RowInv, PostIsHeld, AtRoute,
         DoubtIsHeld, AnswerIsTrue, Edits, Native, KnownIsThere, TargetIsUnsent, Unsent
    <2>11. /\ CaptionsAreKnown(r)' /\ DeletedIsOver(r)' /\ RowIsDelivered(r)' /\ RowIsShown(r)'
           /\ RowIsSentOnce(r)'
      BY <1>r, <2>1, <2>4, <2>5, <2>7, <2>8, <2>9, <1>4 DEF RowInv, CaptionsAreKnown, AtRoute,
         DeletedIsOver, RowIsDelivered, RowIsShown, RowIsSentOnce
    <2>12. RowIsNew(r)'
      BY <1>r, <2>1, <2>4, <2>5, <2>7, <2>8, <2>9, <1>4 DEF RowInv, RowIsNew, PostIsHeld, AtRoute
    <2>13. DirectIsFirst(r)'
      BY <1>o, <1>r, <2>1, <2>4, <2>5, <2>7, <2>8, <2>9, <1>4 DEF RowInv, DirectIsFirst, PostIsHeld,
         AtRoute, AnswerIsTrue, Edits, Native, RouteOrder
    <2>14. AheadIsUnsent(r)'
      BY <1>o, <1>r, <2>1, <2>4, <2>5, <2>7, <2>8, <2>9, <1>4 DEF RowInv, AheadIsUnsent, Unsent,
         Ahead, AtRoute, PostIsHeld, DirectIsFirst, TargetIsUnsent, Native, Edits, AnswerIsTrue,
         RouteOrder
    <2>15. LiveTypes' /\ CountIsKept' /\ OnlyRow(r)
      BY <1>t, <2>4, <2>7, <2>8, <2>1, <1>4 DEF OnlyRow, LiveTypes, CountIsKept
    <2> QED
      BY <1>t, <2>10, <2>11, <2>12, <2>13, <2>14, <2>15, OneRow DEF RowInv
  <1> QED
    BY <1>1, <1>2, <1>3, <1>4, <1>y DEF DirectAnswered, PostRow

\* A failed download
LEMMA SettleFailedKept ==
  ASSUME LiveInv, NEW r \in Ingestions, SettleFailed(r)
  PROVE  LiveInv'
  <1>t. LiveTypes /\ CountIsKept /\ RowTyped(r)
    BY TypedRows DEF LiveInv
  <1>r. RowInv(r)
    BY DEF LiveInv
  <1>o. RouteOrder(r) /\ custom \subseteq Routes
    BY <1>t, RoutesOrdered DEF LiveTypes
  <1>y. /\ job \in [Ingestions -> JobRow] /\ post \in [Ingestions -> PostRow]
        /\ job[r] \in JobRow /\ post[r] \in PostRow /\ r \in Ingestions
        /\ job[r].dest \in [Routes -> DestStates] /\ job[r].id \in [Routes -> KnownIds]
        /\ post[r].at + 1 \in Nat /\ job[r].tries + 1 \in Nat
    BY <1>t DEF LiveTypes, RowTyped
  <1>1. settler[r] = "fail" /\ post[r].pc = "posted" /\ post[r].by = "direct"
    BY <1>r DEF SettleFailed, RowInv, RowIsNew
  <1>2. job' = [job EXCEPT ![r] = [job[r] EXCEPT !.status = IF Through(r) THEN "forwarded"
            ELSE IF Doubtful(r) THEN "uncertain" ELSE "failed"]]
    BY DEF SettleFailed, SetJob
  <1>3. /\ job'[r] \in JobRow
        /\ job'[r].status = (IF Through(r) THEN "forwarded"
               ELSE IF Doubtful(r) THEN "uncertain" ELSE "failed")
        /\ job'[r].stage = job[r].stage /\ job'[r].path = job[r].path
        /\ job'[r].tries = job[r].tries /\ job'[r].dest = job[r].dest /\ job'[r].id = job[r].id
        /\ \A q \in Ingestions : q # r => job'[q] = job[q]
        /\ job' \in [Ingestions -> JobRow]
    BY <1>y, <1>2 DEF JobRow
  <1>4. post' = [post EXCEPT ![r] = Silent]
    BY DEF SettleFailed, Leave
  <1>5. /\ post'[r] \in PostRow /\ post'[r].pc = "off" /\ post'[r].by = "none" /\ post'[r].at = 0
        /\ post'[r].error = "none" /\ post'[r].id = "none" /\ post'[r].upload = FALSE
        /\ \A q \in Ingestions : q # r => post'[q] = post[q]
        /\ post' \in [Ingestions -> PostRow]
    BY <1>y, <1>4 DEF PostRow, KnownIds, Silent
  <1>6. UNCHANGED <<custom, message, entry, bare, right, vouched, excused, deletedFor>>
    BY DEF SettleFailed, shown, record, budget
  <1>7. /\ \A e \in Routes : (Present(r, e)' <=> Present(r, e)) /\ (AtMostOne(r, e)' <=> AtMostOne(r, e))
        /\ \A e \in Routes : AsWanted(r, e)' <=> AsWanted(r, e)
    BY <1>6 DEF Present, AtMostOne, AsWanted
  <1>8. /\ Through(r) <=> post[r].at > LastRoute
        /\ Doubtful(r) <=> \E e \in Routes : job[r].dest[e] = "uncertain"
    BY <1>1 DEF Through, Doubtful
  <1>9. /\ settler'[r] = "off" /\ settler' \in [Ingestions -> {"off", "finish", "fail", "delete"}]
        /\ \A q \in Ingestions : q # r => settler'[q] = settler[q]
    BY <1>1, <1>t DEF LiveTypes, Settled, SettleFailed
  <1>10. /\ PostIsHeld(r)' /\ RowIsNew(r)' /\ DirectIsFirst(r)' /\ DoubtIsHeld(r)'
         /\ AnswerIsTrue(r)'
    BY <1>r, <1>1, <1>3, <1>5, <1>6, <1>7, <1>8, <1>9 DEF RowInv, PostIsHeld, AtRoute, RowIsNew,
       DirectIsFirst, DoubtIsHeld, AnswerIsTrue, Edits, Native
  <1>11. /\ KnownIsThere(r)' /\ TargetIsUnsent(r)' /\ CaptionsAreKnown(r)' /\ DeletedIsOver(r)'
         /\ RowIsDelivered(r)'
    BY <1>r, <1>1, <1>3, <1>5, <1>6, <1>7, <1>8, <1>9 DEF RowInv, KnownIsThere, AtRoute,
       TargetIsUnsent, Unsent, Native, Edits, CaptionsAreKnown, DeletedIsOver, RowIsDelivered
  <1>12. RowIsShown(r)' /\ RowIsSentOnce(r)'
    BY <1>r, <1>1, <1>3, <1>5, <1>6, <1>7, <1>8, <1>9 DEF RowInv, RowIsShown, RowIsSentOnce
  <1>13. AheadIsUnsent(r)'
    BY <1>o, <1>r, <1>1, <1>3, <1>5, <1>6, <1>7, <1>8, <1>9 DEF RowInv, AheadIsUnsent, Unsent,
       Ahead, AtRoute, PostIsHeld, DirectIsFirst, TargetIsUnsent, Native, Edits, AnswerIsTrue,
       RouteOrder
  <1>14. LiveTypes' /\ CountIsKept' /\ OnlyRow(r)
    BY <1>t, <1>3, <1>5, <1>6, <1>8, <1>9, <1>1 DEF OnlyRow, LiveTypes, CountIsKept
  <1> QED
    BY <1>t, <1>10, <1>11, <1>12, <1>13, <1>14, OneRow DEF RowInv

\* and an unfinished forward leave the row to others;
LEMMA SettleUnsentKept ==
  ASSUME LiveInv, NEW r \in Ingestions, SettleUnsent(r)
  PROVE  LiveInv'
  <1>t. LiveTypes /\ CountIsKept /\ RowTyped(r)
    BY TypedRows DEF LiveInv
  <1>r. RowInv(r)
    BY DEF LiveInv
  <1>o. RouteOrder(r) /\ custom \subseteq Routes
    BY <1>t, RoutesOrdered DEF LiveTypes
  <1>y. /\ job \in [Ingestions -> JobRow] /\ post \in [Ingestions -> PostRow]
        /\ job[r] \in JobRow /\ post[r] \in PostRow /\ r \in Ingestions
        /\ job[r].dest \in [Routes -> DestStates] /\ job[r].id \in [Routes -> KnownIds]
        /\ post[r].at + 1 \in Nat /\ job[r].tries + 1 \in Nat
    BY <1>t DEF LiveTypes, RowTyped
  <1>1. settler[r] = "finish" /\ post[r].pc = "posted" /\ post[r].at <= LastRoute /\ post[r].by = "direct"
    BY <1>t, <1>r DEF SettleUnsent, Through, RowTyped, RowInv, RowIsNew
  <1>2. job' = [job EXCEPT ![r] = [job[r] EXCEPT !.path = TRUE,
            !.stage = IF Doubtful(r) \/ Unresolved(r) THEN @ ELSE "fallback_upload",
            !.status = IF Doubtful(r) THEN "uncertain" ELSE IF Unresolved(r) THEN "failed" ELSE "pending"]]
    BY DEF SettleUnsent
  <1>3. /\ job'[r] \in JobRow
        /\ job'[r].status = (IF Doubtful(r) THEN "uncertain"
               ELSE IF post[r].error = "unresolved" THEN "failed" ELSE "pending")
        /\ job'[r].stage = (IF Doubtful(r) \/ post[r].error = "unresolved" THEN job[r].stage
               ELSE "fallback_upload")
        /\ job'[r].path = TRUE /\ job'[r].tries = job[r].tries /\ job'[r].dest = job[r].dest
        /\ job'[r].id = job[r].id
        /\ \A q \in Ingestions : q # r => job'[q] = job[q]
        /\ job' \in [Ingestions -> JobRow]
    BY <1>y, <1>2 DEF JobRow, Unresolved
  <1>4. post' = [post EXCEPT ![r] = Silent]
    BY DEF SettleUnsent, Leave
  <1>5. /\ post'[r] \in PostRow /\ post'[r].pc = "off" /\ post'[r].by = "none" /\ post'[r].at = 0
        /\ post'[r].error = "none" /\ post'[r].id = "none" /\ post'[r].upload = FALSE
        /\ \A q \in Ingestions : q # r => post'[q] = post[q]
        /\ post' \in [Ingestions -> PostRow]
    BY <1>y, <1>4 DEF PostRow, KnownIds, Silent
  <1>6. UNCHANGED <<custom, message, entry, bare, right, vouched, excused, deletedFor>>
    BY DEF SettleUnsent, shown, record, budget
  <1>7. /\ \A e \in Routes : (Present(r, e)' <=> Present(r, e)) /\ (AtMostOne(r, e)' <=> AtMostOne(r, e))
        /\ \A e \in Routes : AsWanted(r, e)' <=> AsWanted(r, e)
    BY <1>6 DEF Present, AtMostOne, AsWanted
  <1>8. Doubtful(r) <=> \E e \in Routes : job[r].dest[e] = "uncertain"
    BY <1>1 DEF Doubtful
  <1>9. /\ settler'[r] = "off" /\ settler' \in [Ingestions -> {"off", "finish", "fail", "delete"}]
        /\ \A q \in Ingestions : q # r => settler'[q] = settler[q]
    BY <1>1, <1>t DEF LiveTypes, Settled, SettleUnsent
  <1>10. /\ PostIsHeld(r)' /\ RowIsNew(r)' /\ DirectIsFirst(r)' /\ DoubtIsHeld(r)'
         /\ AnswerIsTrue(r)'
    BY <1>r, <1>1, <1>3, <1>5, <1>6, <1>7, <1>8, <1>9 DEF RowInv, PostIsHeld, AtRoute, RowIsNew,
       DirectIsFirst, DoubtIsHeld, AnswerIsTrue, Edits, Native
  <1>11. /\ KnownIsThere(r)' /\ TargetIsUnsent(r)' /\ CaptionsAreKnown(r)' /\ DeletedIsOver(r)'
         /\ RowIsDelivered(r)'
    BY <1>r, <1>1, <1>3, <1>5, <1>6, <1>7, <1>8, <1>9 DEF RowInv, KnownIsThere, AtRoute,
       TargetIsUnsent, Unsent, Native, Edits, CaptionsAreKnown, DeletedIsOver, RowIsDelivered
  <1>12. RowIsShown(r)' /\ RowIsSentOnce(r)'
    BY <1>r, <1>1, <1>3, <1>5, <1>6, <1>7, <1>8, <1>9 DEF RowInv, RowIsShown, RowIsSentOnce
  <1>13. AheadIsUnsent(r)'
    BY <1>o, <1>r, <1>1, <1>3, <1>5, <1>6, <1>7, <1>8, <1>9 DEF RowInv, AheadIsUnsent, Unsent,
       Ahead, AtRoute, PostIsHeld, DirectIsFirst, TargetIsUnsent, Native, Edits, AnswerIsTrue,
       RouteOrder
  <1>14. LiveTypes' /\ CountIsKept' /\ OnlyRow(r)
    BY <1>t, <1>3, <1>5, <1>6, <1>8, <1>9, <1>1 DEF OnlyRow, LiveTypes, CountIsKept
  <1> QED
    BY <1>t, <1>10, <1>11, <1>12, <1>13, <1>14, OneRow DEF RowInv

\* only a forward to every route
LEMMA SettleSentKept ==
  ASSUME LiveInv, NEW r \in Ingestions, SettleSent(r)
  PROVE  LiveInv'
  <1>t. LiveTypes /\ CountIsKept /\ RowTyped(r)
    BY TypedRows DEF LiveInv
  <1>r. RowInv(r)
    BY DEF LiveInv
  <1>o. RouteOrder(r) /\ custom \subseteq Routes
    BY <1>t, RoutesOrdered DEF LiveTypes
  <1>y. /\ job \in [Ingestions -> JobRow] /\ post \in [Ingestions -> PostRow]
        /\ job[r] \in JobRow /\ post[r] \in PostRow /\ r \in Ingestions
        /\ job[r].dest \in [Routes -> DestStates] /\ job[r].id \in [Routes -> KnownIds]
        /\ post[r].at + 1 \in Nat /\ job[r].tries + 1 \in Nat
    BY <1>t DEF LiveTypes, RowTyped
  <1>1. CASE job' = [job EXCEPT ![r].status = "forwarded", ![r].path = TRUE] /\
                 settler' = [settler EXCEPT ![r] = "delete"]
    <2>1. settler[r] = "finish" /\ post[r].pc = "posted" /\ post[r].at > LastRoute /\ post[r].by = "direct"
      BY <1>1, <1>r DEF SettleSent, Through, RowInv, RowIsNew
    <2>2. job' = [job EXCEPT ![r] = [job[r] EXCEPT !.status = "forwarded", !.path = TRUE]]
      BY <1>1 DEF SettleSent
    <2>3. /\ job'[r] \in JobRow /\ job'[r].status = "forwarded" /\ job'[r].stage = job[r].stage
          /\ job'[r].path = TRUE /\ job'[r].tries = job[r].tries /\ job'[r].dest = job[r].dest
          /\ job'[r].id = job[r].id
          /\ \A q \in Ingestions : q # r => job'[q] = job[q]
          /\ job' \in [Ingestions -> JobRow]
      BY <1>y, <2>2 DEF JobRow
    <2>4. post' = [post EXCEPT ![r] = Silent]
      BY <1>1 DEF SettleSent, Leave
    <2>5. /\ post'[r] \in PostRow /\ post'[r].pc = "off" /\ post'[r].by = "none" /\ post'[r].at = 0
          /\ post'[r].error = "none" /\ post'[r].id = "none" /\ post'[r].upload = FALSE
          /\ \A q \in Ingestions : q # r => post'[q] = post[q]
          /\ post' \in [Ingestions -> PostRow]
      BY <1>y, <2>4 DEF PostRow, KnownIds, Silent
    <2>6. UNCHANGED <<custom, message, entry, bare, right, vouched, excused, deletedFor>>
      BY <1>1 DEF SettleSent, shown, record, budget
    <2>7. /\ \A e \in Routes : (Present(r, e)' <=> Present(r, e)) /\ (AtMostOne(r, e)' <=> AtMostOne(r, e))
          /\ \A e \in Routes : AsWanted(r, e)' <=> AsWanted(r, e)
      BY <2>6 DEF Present, AtMostOne, AsWanted
    <2>8. /\ settler'[r] = "delete" /\ settler' \in [Ingestions -> {"off", "finish", "fail", "delete"}]
        /\ \A q \in Ingestions : q # r => settler'[q] = settler[q]
      BY <1>1, <2>1, <1>t DEF LiveTypes, Settled
    <2>9. /\ PostIsHeld(r)' /\ RowIsNew(r)' /\ DirectIsFirst(r)' /\ DoubtIsHeld(r)'
          /\ AnswerIsTrue(r)'
      BY <1>r, <2>1, <2>3, <2>5, <2>6, <2>7, <2>8, <1>1 DEF RowInv, PostIsHeld, AtRoute, RowIsNew,
         DirectIsFirst, DoubtIsHeld, AnswerIsTrue, Edits, Native
    <2>10. /\ KnownIsThere(r)' /\ AheadIsUnsent(r)' /\ TargetIsUnsent(r)' /\ CaptionsAreKnown(r)'
           /\ RowIsDelivered(r)'
      BY <1>r, <2>1, <2>3, <2>5, <2>6, <2>7, <2>8, <1>1 DEF RowInv, KnownIsThere, AtRoute,
         AheadIsUnsent, Unsent, Ahead, TargetIsUnsent, Native, Edits, CaptionsAreKnown,
         RowIsDelivered
    <2>11. RowIsShown(r)' /\ RowIsSentOnce(r)'
      BY <1>r, <2>1, <2>3, <2>5, <2>6, <2>7, <2>8, <1>1 DEF RowInv, RowIsShown, RowIsSentOnce
    <2>12. DeletedIsOver(r)'
      BY <1>t, <1>o, <1>r, <2>1, <2>3, <2>5, <2>6, <2>7, <2>8, <1>1 DEF RowInv, DeletedIsOver,
         PostIsHeld, AtRoute, RowIsNew, DirectIsFirst, DoubtIsHeld, AnswerIsTrue, Edits, Native,
         KnownIsThere, AheadIsUnsent, Unsent, Ahead, TargetIsUnsent, CaptionsAreKnown,
         RowIsDelivered, RowIsShown, RowIsSentOnce, RouteOrder, RowTyped
    <2>13. LiveTypes' /\ CountIsKept' /\ OnlyRow(r)
      BY <1>t, <2>3, <2>5, <2>6, <2>8, <2>1, <1>1 DEF OnlyRow, LiveTypes, CountIsKept
    <2> QED
      BY <1>t, <2>9, <2>10, <2>11, <2>12, <2>13, OneRow DEF RowInv
  <1>2. CASE job' = job /\ Settled(r)
    <2>1. settler[r] = "finish" /\ post[r].pc = "posted" /\ post[r].at > LastRoute /\ post[r].by = "direct"
      BY <1>2, <1>r DEF SettleSent, Through, RowInv, RowIsNew
    <2>2. post' = [post EXCEPT ![r] = Silent]
      BY <1>2 DEF SettleSent, Leave
    <2>3. /\ post'[r] \in PostRow /\ post'[r].pc = "off" /\ post'[r].by = "none" /\ post'[r].at = 0
          /\ post'[r].error = "none" /\ post'[r].id = "none" /\ post'[r].upload = FALSE
          /\ \A q \in Ingestions : q # r => post'[q] = post[q]
          /\ post' \in [Ingestions -> PostRow]
      BY <1>y, <2>2 DEF PostRow, KnownIds, Silent
    <2>4. UNCHANGED <<custom, message, entry, job, bare, right, vouched, excused, deletedFor>>
      BY <1>2 DEF SettleSent, shown, record, budget
    <2>5. /\ \A e \in Routes : (Present(r, e)' <=> Present(r, e)) /\ (AtMostOne(r, e)' <=> AtMostOne(r, e))
          /\ \A e \in Routes : AsWanted(r, e)' <=> AsWanted(r, e)
      BY <2>4 DEF Present, AtMostOne, AsWanted
    <2>6. /\ settler'[r] = "off" /\ settler' \in [Ingestions -> {"off", "finish", "fail", "delete"}]
        /\ \A q \in Ingestions : q # r => settler'[q] = settler[q]
      BY <1>2, <2>1, <1>t DEF LiveTypes, Settled
    <2>7. RowInv(r)'
      BY <1>r, <2>1, <2>3, <2>4, <2>5, <2>6, <1>2 DEF RowInv, PostIsHeld, AtRoute, RowIsNew,
         DirectIsFirst, DoubtIsHeld, AnswerIsTrue, Edits, Native, KnownIsThere, AheadIsUnsent,
         Unsent, Ahead, TargetIsUnsent, CaptionsAreKnown, DeletedIsOver, RowIsDelivered, RowIsShown,
         RowIsSentOnce
    <2>8. LiveTypes' /\ CountIsKept' /\ OnlyRow(r)
      BY <1>t, <2>3, <2>4, <2>6, <2>1, <1>2 DEF OnlyRow, LiveTypes, CountIsKept
    <2> QED
      BY <1>t, <2>7, <2>8, OneRow
  <1> QED
    BY <1>1, <1>2 DEF SettleSent

\* deletes the download.
LEMMA SettleDeleteKept ==
  ASSUME LiveInv, NEW r \in Ingestions, SettleDelete(r)
  PROVE  LiveInv'
  <1>t. LiveTypes /\ CountIsKept /\ RowTyped(r)
    BY TypedRows DEF LiveInv
  <1>r. RowInv(r)
    BY DEF LiveInv
  <1>o. RouteOrder(r) /\ custom \subseteq Routes
    BY <1>t, RoutesOrdered DEF LiveTypes
  <1>y. /\ job \in [Ingestions -> JobRow] /\ post \in [Ingestions -> PostRow]
        /\ job[r] \in JobRow /\ post[r] \in PostRow /\ r \in Ingestions
        /\ job[r].dest \in [Routes -> DestStates] /\ job[r].id \in [Routes -> KnownIds]
        /\ post[r].at + 1 \in Nat /\ job[r].tries + 1 \in Nat
    BY <1>t DEF LiveTypes, RowTyped
  <1>1. settler[r] = "delete"
    BY DEF SettleDelete
  <1>2. UNCHANGED <<custom, message, job, post, bare, right, vouched, excused>>
    BY DEF SettleDelete, shown, record, budget
  <1>3. /\ \A e \in Routes : (Present(r, e)' <=> Present(r, e)) /\ (AtMostOne(r, e)' <=> AtMostOne(r, e))
        /\ \A e \in Routes : AsWanted(r, e)' <=> AsWanted(r, e)
    BY <1>2 DEF Present, AtMostOne, AsWanted
  <1>4. /\ entry' \in 0..MaxLiveIngests /\ entry' <= message.count
        /\ r \in deletedFor' => r \in deletedFor \/ r <= message.count
    BY <1>1, <1>t, LiveForwardAssumption DEF SettleDelete, LiveTypes, DeleteEntry, CountIsKept,
       RowTyped, LiveForwardAssumption
  <1>5. /\ deletedFor' \subseteq Ingestions
        /\ \A q \in Ingestions : q # r => (q \in deletedFor' <=> q \in deletedFor)
    BY <1>1, <1>t DEF SettleDelete, DeleteEntry, LiveTypes
  <1>6. /\ settler'[r] = "off" /\ settler' \in [Ingestions -> {"off", "finish", "fail", "delete"}]
        /\ \A q \in Ingestions : q # r => settler'[q] = settler[q]
    BY <1>1, <1>t DEF LiveTypes, Settled, SettleDelete
  <1>7. /\ PostIsHeld(r)' /\ RowIsNew(r)' /\ DirectIsFirst(r)' /\ DoubtIsHeld(r)'
        /\ AnswerIsTrue(r)' /\ KnownIsThere(r)' /\ AheadIsUnsent(r)' /\ TargetIsUnsent(r)'
        /\ CaptionsAreKnown(r)' /\ RowIsShown(r)' /\ RowIsSentOnce(r)'
    BY <1>r, <1>1, <1>2, <1>3, <1>4, <1>5, <1>6 DEF RowInv, PostIsHeld, AtRoute, RowIsNew,
       DirectIsFirst, DoubtIsHeld, AnswerIsTrue, Edits, Native, KnownIsThere, AheadIsUnsent, Unsent,
       Ahead, TargetIsUnsent, CaptionsAreKnown, RowIsShown, RowIsSentOnce
  <1>8. DeletedIsOver(r)'
    BY <1>r, <1>1, <1>2, <1>3, <1>4, <1>5, <1>6 DEF RowInv, DeletedIsOver, PostIsHeld, AtRoute,
       AnswerIsTrue, Edits, Native
  <1>9. RowIsDelivered(r)'
    BY <1>o, <1>r, <1>1, <1>2, <1>3, <1>4, <1>5, <1>6 DEF RowInv, RowIsDelivered, PostIsHeld,
       AtRoute, RowIsNew, DirectIsFirst, DoubtIsHeld, AnswerIsTrue, Edits, Native, KnownIsThere,
       AheadIsUnsent, Unsent, Ahead, TargetIsUnsent, CaptionsAreKnown, DeletedIsOver, RowIsShown,
       RowIsSentOnce, RouteOrder
  <1>10. LiveTypes' /\ CountIsKept' /\ OnlyRow(r)
    BY <1>t, <1>2, <1>4, <1>5, <1>6, <1>1 DEF OnlyRow, LiveTypes, CountIsKept
  <1> QED
    BY <1>t, <1>7, <1>8, <1>9, <1>10, OneRow DEF RowInv

\* A worker takes a row without doubt,
LEMMA ClaimJobKept ==
  ASSUME LiveInv, NEW r \in Ingestions, ClaimJob(r)
  PROVE  LiveInv'
  <1>t. LiveTypes /\ CountIsKept /\ RowTyped(r)
    BY TypedRows DEF LiveInv
  <1>r. RowInv(r)
    BY DEF LiveInv
  <1>o. RouteOrder(r) /\ custom \subseteq Routes
    BY <1>t, RoutesOrdered DEF LiveTypes
  <1>y. /\ job \in [Ingestions -> JobRow] /\ post \in [Ingestions -> PostRow]
        /\ job[r] \in JobRow /\ post[r] \in PostRow /\ r \in Ingestions
        /\ job[r].dest \in [Routes -> DestStates] /\ job[r].id \in [Routes -> KnownIds]
        /\ post[r].at + 1 \in Nat /\ job[r].tries + 1 \in Nat
    BY <1>t DEF LiveTypes, RowTyped
  <1>1. job[r].status = "pending" /\ post[r].pc = "off"
    BY <1>r DEF ClaimJob, RowInv, PostIsHeld
  <1>2. job' = [job EXCEPT ![r] = [job[r] EXCEPT !.status = "processing", !.tries = @ + 1]]
    BY DEF ClaimJob
  <1>3. /\ job'[r] \in JobRow /\ job'[r].status = "processing" /\ job'[r].stage = job[r].stage
        /\ job'[r].path = job[r].path /\ job'[r].tries = job[r].tries + 1
        /\ job'[r].dest = job[r].dest /\ job'[r].id = job[r].id
        /\ \A q \in Ingestions : q # r => job'[q] = job[q]
        /\ job' \in [Ingestions -> JobRow]
    BY <1>y, <1>2 DEF JobRow
  <1>4. post' = [post EXCEPT ![r] = [Silent EXCEPT !.pc = "prepare", !.by = "queue", !.at = 1]]
    BY DEF ClaimJob
  <1>5. /\ post'[r] = [Silent EXCEPT !.pc = "prepare", !.by = "queue", !.at = 1]
        /\ \A q \in Ingestions : q # r => post'[q] = post[q]
    BY <1>y, <1>4
  <1>6. /\ post'[r] \in PostRow /\ post'[r].pc = "prepare" /\ post'[r].by = "queue"
        /\ post'[r].at = 1 /\ post'[r].error = "none" /\ post'[r].id = "none"
        /\ post'[r].upload = FALSE
    BY <1>5, ClaimedRow
  <1>7. post' \in [Ingestions -> PostRow]
    BY <1>y, <1>4, <1>5, <1>6
  <1>8. UNCHANGED <<custom, message, entry, settler, bare, right, vouched, excused, deletedFor>>
    BY DEF ClaimJob, shown, record, budget
  <1>9. /\ \A e \in Routes : (Present(r, e)' <=> Present(r, e)) /\ (AtMostOne(r, e)' <=> AtMostOne(r, e))
        /\ \A e \in Routes : AsWanted(r, e)' <=> AsWanted(r, e)
    BY <1>8 DEF Present, AtMostOne, AsWanted
  <1>10. /\ DirectIsFirst(r)' /\ DoubtIsHeld(r)' /\ AnswerIsTrue(r)' /\ KnownIsThere(r)'
         /\ AheadIsUnsent(r)'
    BY <1>r, <1>1, <1>3, <1>6, <1>8, <1>9 DEF RowInv, DirectIsFirst, DoubtIsHeld, AnswerIsTrue,
       Edits, Native, KnownIsThere, AtRoute, AheadIsUnsent, Unsent, Ahead
  <1>11. /\ TargetIsUnsent(r)' /\ CaptionsAreKnown(r)' /\ DeletedIsOver(r)' /\ RowIsDelivered(r)'
         /\ RowIsShown(r)'
    BY <1>r, <1>1, <1>3, <1>6, <1>8, <1>9 DEF RowInv, TargetIsUnsent, Unsent, Native, Edits,
       CaptionsAreKnown, AtRoute, DeletedIsOver, RowIsDelivered, RowIsShown
  <1>12. RowIsSentOnce(r)'
    BY <1>r, <1>1, <1>3, <1>6, <1>8, <1>9 DEF RowInv, RowIsSentOnce
  <1>13. PostIsHeld(r)'
    BY <1>t, <1>o, <1>r, <1>1, <1>3, <1>6, <1>8, <1>9 DEF RowInv, PostIsHeld, AtRoute, RowIsNew,
       DirectIsFirst, DoubtIsHeld, AnswerIsTrue, Edits, Native, KnownIsThere, AheadIsUnsent, Unsent,
       Ahead, TargetIsUnsent, CaptionsAreKnown, DeletedIsOver, RowIsDelivered, RowIsShown,
       RowIsSentOnce, RouteOrder, RowTyped
  <1>14. RowIsNew(r)'
    BY <1>r, <1>1, <1>3, <1>6, <1>8, <1>9 DEF RowInv, RowIsNew, PostIsHeld, AtRoute
  <1>15. LiveTypes' /\ CountIsKept' /\ OnlyRow(r)
    BY <1>t, <1>3, <1>5, <1>7, <1>8, <1>1 DEF OnlyRow, LiveTypes, CountIsKept
  <1> QED
    BY <1>t, <1>10, <1>11, <1>12, <1>13, <1>14, <1>15, OneRow DEF RowInv

\* knows the copies it is to edit,
LEMMA PrepareJobKept ==
  ASSUME LiveInv, NEW r \in Ingestions, PrepareJob(r)
  PROVE  LiveInv'
  <1>t. LiveTypes /\ CountIsKept /\ RowTyped(r)
    BY TypedRows DEF LiveInv
  <1>r. RowInv(r)
    BY DEF LiveInv
  <1>o. RouteOrder(r) /\ custom \subseteq Routes
    BY <1>t, RoutesOrdered DEF LiveTypes
  <1>y. /\ job \in [Ingestions -> JobRow] /\ post \in [Ingestions -> PostRow]
        /\ job[r] \in JobRow /\ post[r] \in PostRow /\ r \in Ingestions
        /\ job[r].dest \in [Routes -> DestStates] /\ job[r].id \in [Routes -> KnownIds]
        /\ post[r].at + 1 \in Nat /\ job[r].tries + 1 \in Nat
    BY <1>t DEF LiveTypes, RowTyped
  <1>1. CASE CopyUnknown(r)
    <2>1. post[r].pc = "prepare" /\ post[r].by = "queue"
      BY <1>1, <1>r DEF PrepareJob, RowInv, PostIsHeld
    <2>2. post' = [post EXCEPT ![r] = [post[r] EXCEPT !.pc = "failed"]]
      BY <1>1 DEF PrepareJob, GoPost
    <2>3. /\ post'[r] \in PostRow /\ post'[r].pc = "failed" /\ post'[r].by = post[r].by
          /\ post'[r].at = post[r].at /\ post'[r].error = post[r].error /\ post'[r].id = post[r].id
          /\ post'[r].upload = post[r].upload
          /\ \A q \in Ingestions : q # r => post'[q] = post[q]
          /\ post' \in [Ingestions -> PostRow]
      BY <1>y, <2>2 DEF PostRow, KnownIds
    <2>4. UNCHANGED <<custom, message, entry, job, settler, bare, right, vouched, excused, deletedFor>>
      BY <1>1 DEF PrepareJob, shown, record, budget
    <2>5. /\ \A e \in Routes : (Present(r, e)' <=> Present(r, e)) /\ (AtMostOne(r, e)' <=> AtMostOne(r, e))
          /\ \A e \in Routes : AsWanted(r, e)' <=> AsWanted(r, e)
      BY <2>4 DEF Present, AtMostOne, AsWanted
    <2>6. RowInv(r)'
      BY <1>r, <2>1, <2>3, <2>4, <2>5, <1>1 DEF RowInv, PostIsHeld, AtRoute, RowIsNew,
         DirectIsFirst, DoubtIsHeld, AnswerIsTrue, Edits, Native, KnownIsThere, AheadIsUnsent,
         Unsent, Ahead, TargetIsUnsent, CaptionsAreKnown, DeletedIsOver, RowIsDelivered, RowIsShown,
         RowIsSentOnce
    <2>7. LiveTypes' /\ CountIsKept' /\ OnlyRow(r)
      BY <1>t, <2>3, <2>4, <2>1, <1>1 DEF OnlyRow, LiveTypes, CountIsKept
    <2> QED
      BY <1>t, <2>6, <2>7, OneRow
  <1>2. CASE ~CopyUnknown(r)
    <2>1. post[r].pc = "prepare" /\ post[r].by = "queue"
      BY <1>2, <1>r DEF PrepareJob, RowInv, PostIsHeld
    <2>2. job' = [job EXCEPT ![r] = [job[r] EXCEPT !.stage = IF @ = "caption_edit_failed"
              THEN @ ELSE IF job[r].path THEN "upload" ELSE "native_forward"]]
      BY <1>2 DEF PrepareJob
    <2>3. /\ job'[r] \in JobRow /\ job'[r].status = job[r].status
          /\ job'[r].stage = (IF job[r].stage = "caption_edit_failed"
                 THEN "caption_edit_failed" ELSE IF job[r].path THEN "upload" ELSE "native_forward")
          /\ job'[r].path = job[r].path /\ job'[r].tries = job[r].tries
          /\ job'[r].dest = job[r].dest /\ job'[r].id = job[r].id
          /\ \A q \in Ingestions : q # r => job'[q] = job[q]
          /\ job' \in [Ingestions -> JobRow]
      BY <1>y, <2>2 DEF JobRow
    <2>4. post' = [post EXCEPT ![r] = [post[r] EXCEPT !.pc = "next"]]
      BY <1>2 DEF PrepareJob, GoPost
    <2>5. /\ post'[r] \in PostRow /\ post'[r].pc = "next" /\ post'[r].by = post[r].by
          /\ post'[r].at = post[r].at /\ post'[r].error = post[r].error /\ post'[r].id = post[r].id
          /\ post'[r].upload = post[r].upload
          /\ \A q \in Ingestions : q # r => post'[q] = post[q]
          /\ post' \in [Ingestions -> PostRow]
      BY <1>y, <2>4 DEF PostRow, KnownIds
    <2>6. UNCHANGED <<custom, message, entry, settler, bare, right, vouched, excused, deletedFor>>
      BY <1>2 DEF PrepareJob, shown, record, budget
    <2>7. /\ \A e \in Routes : (Present(r, e)' <=> Present(r, e)) /\ (AtMostOne(r, e)' <=> AtMostOne(r, e))
          /\ \A e \in Routes : AsWanted(r, e)' <=> AsWanted(r, e)
      BY <2>6 DEF Present, AtMostOne, AsWanted
    <2>8. job[r].stage = "caption_edit_failed" => \A e \in custom : job[r].dest[e] # "forwarded" =>
              job[r].id[e] # "none"
      BY <1>2, <2>1 DEF CopyUnknown
    <2>9. /\ PostIsHeld(r)' /\ DirectIsFirst(r)' /\ DoubtIsHeld(r)' /\ AnswerIsTrue(r)'
          /\ KnownIsThere(r)'
      BY <1>r, <2>1, <2>3, <2>5, <2>6, <2>7, <2>8, <1>2 DEF RowInv, PostIsHeld, AtRoute,
         DirectIsFirst, DoubtIsHeld, AnswerIsTrue, Edits, Native, KnownIsThere
    <2>10. /\ AheadIsUnsent(r)' /\ TargetIsUnsent(r)' /\ CaptionsAreKnown(r)' /\ DeletedIsOver(r)'
           /\ RowIsDelivered(r)'
      BY <1>r, <2>1, <2>3, <2>5, <2>6, <2>7, <2>8, <1>2 DEF RowInv, AheadIsUnsent, Unsent, Ahead,
         AtRoute, TargetIsUnsent, Native, Edits, CaptionsAreKnown, DeletedIsOver, RowIsDelivered
    <2>11. RowIsShown(r)' /\ RowIsSentOnce(r)'
      BY <1>r, <2>1, <2>3, <2>5, <2>6, <2>7, <2>8, <1>2 DEF RowInv, RowIsShown, RowIsSentOnce
    <2>12. RowIsNew(r)'
      BY <1>r, <2>1, <2>3, <2>5, <2>6, <2>7, <2>8, <1>2 DEF RowInv, RowIsNew, PostIsHeld, AtRoute
    <2>13. LiveTypes' /\ CountIsKept' /\ OnlyRow(r)
      BY <1>t, <2>3, <2>5, <2>6, <2>8, <2>1, <1>2 DEF OnlyRow, LiveTypes, CountIsKept
    <2> QED
      BY <1>t, <2>9, <2>10, <2>11, <2>12, <2>13, OneRow DEF RowInv
  <1> QED
    BY <1>1, <1>2 DEF PrepareJob

\* deletes the download after the last route,
LEMMA DeleteServedKept ==
  ASSUME LiveInv, NEW r \in Ingestions, DeleteServed(r)
  PROVE  LiveInv'
  <1>t. LiveTypes /\ CountIsKept /\ RowTyped(r)
    BY TypedRows DEF LiveInv
  <1>r. RowInv(r)
    BY DEF LiveInv
  <1>o. RouteOrder(r) /\ custom \subseteq Routes
    BY <1>t, RoutesOrdered DEF LiveTypes
  <1>y. /\ job \in [Ingestions -> JobRow] /\ post \in [Ingestions -> PostRow]
        /\ job[r] \in JobRow /\ post[r] \in PostRow /\ r \in Ingestions
        /\ job[r].dest \in [Routes -> DestStates] /\ job[r].id \in [Routes -> KnownIds]
        /\ post[r].at + 1 \in Nat /\ job[r].tries + 1 \in Nat
    BY <1>t DEF LiveTypes, RowTyped
  <1>1. post[r].pc = "answered" /\ post[r].at \in Routes /\ post[r].by = "queue" /\
            post[r].error = "none" /\ post[r].upload /\ post[r].at = LastRoute
    BY <1>r DEF DeleteServed, QueueHasAnswer, Deletes, IsLastRoute, RowInv, PostIsHeld, AtRoute
  <1>2. post' = [post EXCEPT ![r] = [post[r] EXCEPT !.pc = "served"]]
    BY DEF DeleteServed, GoPost
  <1>3. /\ post'[r] \in PostRow /\ post'[r].pc = "served" /\ post'[r].by = post[r].by
        /\ post'[r].at = post[r].at /\ post'[r].error = post[r].error /\ post'[r].id = post[r].id
        /\ post'[r].upload = post[r].upload
        /\ \A q \in Ingestions : q # r => post'[q] = post[q]
        /\ post' \in [Ingestions -> PostRow]
    BY <1>y, <1>2 DEF PostRow, KnownIds
  <1>4. UNCHANGED <<custom, message, job, settler, bare, right, vouched, excused>>
    BY DEF DeleteServed, shown, record, budget
  <1>5. /\ \A e \in Routes : (Present(r, e)' <=> Present(r, e)) /\ (AtMostOne(r, e)' <=> AtMostOne(r, e))
        /\ \A e \in Routes : AsWanted(r, e)' <=> AsWanted(r, e)
    BY <1>4 DEF Present, AtMostOne, AsWanted
  <1>6. /\ entry' \in 0..MaxLiveIngests /\ entry' <= message.count
        /\ r \in deletedFor' => r \in deletedFor \/ r <= message.count
    BY <1>1, <1>t, LiveForwardAssumption DEF DeleteServed, LiveTypes, DeleteEntry, CountIsKept,
       RowTyped, LiveForwardAssumption
  <1>7. /\ deletedFor' \subseteq Ingestions
        /\ \A q \in Ingestions : q # r => (q \in deletedFor' <=> q \in deletedFor)
    BY <1>1, <1>t DEF DeleteServed, DeleteEntry, LiveTypes
  <1>8. /\ PostIsHeld(r)' /\ DirectIsFirst(r)' /\ DoubtIsHeld(r)' /\ AnswerIsTrue(r)'
        /\ KnownIsThere(r)' /\ AheadIsUnsent(r)' /\ TargetIsUnsent(r)' /\ CaptionsAreKnown(r)'
        /\ RowIsShown(r)' /\ RowIsSentOnce(r)'
    BY <1>r, <1>1, <1>3, <1>4, <1>5, <1>6, <1>7 DEF RowInv, PostIsHeld, AtRoute, DirectIsFirst,
       DoubtIsHeld, AnswerIsTrue, Edits, Native, KnownIsThere, AheadIsUnsent, Unsent, Ahead,
       TargetIsUnsent, CaptionsAreKnown, RowIsShown, RowIsSentOnce
  <1>9. RowIsNew(r)'
    BY <1>r, <1>1, <1>3, <1>4, <1>5, <1>6, <1>7 DEF RowInv, RowIsNew, PostIsHeld, AtRoute
  <1>10. DeletedIsOver(r)'
    BY <1>r, <1>1, <1>3, <1>4, <1>5, <1>6, <1>7 DEF RowInv, DeletedIsOver, PostIsHeld, AtRoute,
       AnswerIsTrue, Edits, Native
  <1>11. RowIsDelivered(r)'
    BY <1>o, <1>r, <1>1, <1>3, <1>4, <1>5, <1>6, <1>7 DEF RowInv, RowIsDelivered, PostIsHeld,
       AtRoute, RowIsNew, DirectIsFirst, DoubtIsHeld, AnswerIsTrue, Edits, Native, KnownIsThere,
       AheadIsUnsent, Unsent, Ahead, TargetIsUnsent, CaptionsAreKnown, DeletedIsOver, RowIsShown,
       RowIsSentOnce, RouteOrder
  <1>12. LiveTypes' /\ CountIsKept' /\ OnlyRow(r)
    BY <1>t, <1>3, <1>4, <1>6, <1>7, <1>1 DEF OnlyRow, LiveTypes, CountIsKept
  <1> QED
    BY <1>t, <1>8, <1>9, <1>10, <1>11, <1>12, OneRow DEF RowInv

\* goes on after a copy, uploads instead, or gives up,
LEMMA QueueAnsweredKept ==
  ASSUME LiveInv, NEW r \in Ingestions, QueueAnswered(r)
  PROVE  LiveInv'
  <1>t. LiveTypes /\ CountIsKept /\ RowTyped(r)
    BY TypedRows DEF LiveInv
  <1>r. RowInv(r)
    BY DEF LiveInv
  <1>o. RouteOrder(r) /\ custom \subseteq Routes
    BY <1>t, RoutesOrdered DEF LiveTypes
  <1>y. /\ job \in [Ingestions -> JobRow] /\ post \in [Ingestions -> PostRow]
        /\ job[r] \in JobRow /\ post[r] \in PostRow /\ r \in Ingestions
        /\ job[r].dest \in [Routes -> DestStates] /\ job[r].id \in [Routes -> KnownIds]
        /\ post[r].at + 1 \in Nat /\ job[r].tries + 1 \in Nat
    BY <1>t DEF LiveTypes, RowTyped
  <1>1. CASE post[r].error = "none"
    <2>1. post[r].pc \in {"answered", "served"} /\ post[r].at \in Routes /\ post[r].by = "queue"
      BY <1>1, <1>r DEF QueueAnswered, QueueHasAnswer, Deletes, IsLastRoute, RowInv, PostIsHeld,
         AtRoute
    <2>2. job' = [job EXCEPT ![r] = [job[r] EXCEPT !.dest[post[r].at] = "forwarded",
              !.id[post[r].at] = (IF post[r].id = "none" THEN job[r].id[post[r].at] ELSE post[r].id)]]
      BY <1>1 DEF QueueAnswered
    <2>3. /\ [job[r].dest EXCEPT ![post[r].at] = "forwarded"] \in [Routes -> DestStates]
          /\ [job[r].id EXCEPT ![post[r].at] = (IF post[r].id = "none"
                 THEN job[r].id[post[r].at] ELSE post[r].id)] \in [Routes -> KnownIds]
      BY <1>y, <2>1, <1>1 DEF DestStates, KnownIds, PostRow
    <2>4. /\ job'[r] \in JobRow /\ job'[r].status = job[r].status /\ job'[r].stage = job[r].stage
          /\ job'[r].path = job[r].path /\ job'[r].tries = job[r].tries
          /\ job'[r].dest = [job[r].dest EXCEPT ![post[r].at] = "forwarded"]
          /\ job'[r].id = [job[r].id EXCEPT ![post[r].at] = (IF post[r].id = "none"
                 THEN job[r].id[post[r].at] ELSE post[r].id)]
          /\ \A q \in Ingestions : q # r => job'[q] = job[q]
          /\ job' \in [Ingestions -> JobRow]
      BY <1>y, <2>2, <2>3 DEF JobRow, PostRow
    <2>5. /\ \A e \in Routes : job'[r].dest[e] = IF e = post[r].at THEN "forwarded" ELSE job[r].dest[e]
          /\ \A e \in Routes : job'[r].id[e] = IF e = post[r].at THEN (IF post[r].id = "none"
                 THEN job[r].id[post[r].at] ELSE post[r].id) ELSE job[r].id[e]
      BY <1>y, <2>4, <2>1
    <2>6. post' = [post EXCEPT ![r] = [post[r] EXCEPT !.pc = "next", !.at = post[r].at + 1]]
      BY <1>1 DEF QueueAnswered
    <2>7. /\ post'[r] \in PostRow /\ post'[r].pc = "next" /\ post'[r].by = post[r].by
          /\ post'[r].at = post[r].at + 1 /\ post'[r].error = post[r].error
          /\ post'[r].id = post[r].id /\ post'[r].upload = post[r].upload
          /\ \A q \in Ingestions : q # r => post'[q] = post[q]
          /\ post' \in [Ingestions -> PostRow]
      BY <1>y, <2>6 DEF PostRow, KnownIds
    <2>8. UNCHANGED <<custom, message, entry, settler, bare, right, vouched, excused, deletedFor>>
      BY <1>1 DEF QueueAnswered, shown, record, budget
    <2>9. /\ \A e \in Routes : (Present(r, e)' <=> Present(r, e)) /\ (AtMostOne(r, e)' <=> AtMostOne(r, e))
          /\ \A e \in Routes : AsWanted(r, e)' <=> AsWanted(r, e)
      BY <2>8 DEF Present, AtMostOne, AsWanted
    <2>10. /\ DirectIsFirst(r)' /\ DoubtIsHeld(r)' /\ AnswerIsTrue(r)' /\ KnownIsThere(r)'
           /\ TargetIsUnsent(r)'
      BY <1>r, <2>1, <2>4, <2>5, <2>7, <2>8, <2>9, <1>1 DEF RowInv, DirectIsFirst, DoubtIsHeld,
         AnswerIsTrue, Edits, Native, KnownIsThere, AtRoute, TargetIsUnsent, Unsent
    <2>11. DeletedIsOver(r)' /\ RowIsDelivered(r)' /\ RowIsSentOnce(r)'
      BY <1>r, <2>1, <2>4, <2>5, <2>7, <2>8, <2>9, <1>1 DEF RowInv, DeletedIsOver, RowIsDelivered,
         RowIsSentOnce
    <2>12. PostIsHeld(r)'
      BY <1>o, <1>r, <2>1, <2>4, <2>5, <2>7, <2>8, <2>9, <1>1 DEF RowInv, PostIsHeld, AtRoute,
         RouteOrder
    <2>13. RowIsNew(r)'
      BY <1>r, <2>1, <2>4, <2>5, <2>7, <2>8, <2>9, <1>1 DEF RowInv, RowIsNew, PostIsHeld, AtRoute
    <2>14. AheadIsUnsent(r)'
      BY <1>o, <1>r, <2>1, <2>4, <2>5, <2>7, <2>8, <2>9, <1>1 DEF RowInv, AheadIsUnsent, Unsent,
         Ahead, AtRoute, PostIsHeld, DirectIsFirst, TargetIsUnsent, Native, Edits, AnswerIsTrue,
         RouteOrder
    <2>15. CaptionsAreKnown(r)'
      BY <1>o, <1>r, <2>1, <2>4, <2>5, <2>7, <2>8, <2>9, <1>1 DEF RowInv, CaptionsAreKnown, AtRoute,
         PostIsHeld, RouteOrder
    <2>16. RowIsShown(r)'
      BY <1>r, <2>1, <2>4, <2>5, <2>7, <2>8, <2>9, <1>1 DEF RowInv, RowIsShown, AnswerIsTrue, Edits,
         Native
    <2>17. LiveTypes' /\ CountIsKept' /\ OnlyRow(r)
      BY <1>t, <2>4, <2>7, <2>8, <2>1, <1>1 DEF OnlyRow, LiveTypes, CountIsKept
    <2> QED
      BY <1>t, <2>10, <2>11, <2>12, <2>13, <2>14, <2>15, <2>16, <2>17, OneRow DEF RowInv
  <1>2. CASE post[r].error = "refused" /\ ~post[r].upload /\ job[r].path
    <2>1. post[r].pc = "answered" /\ post[r].at \in Routes /\ post[r].by = "queue"
      BY <1>2, <1>r DEF QueueAnswered, QueueHasAnswer, Deletes, IsLastRoute, RowInv, PostIsHeld,
         AtRoute, AnswerIsTrue
    <2>2. job' = [job EXCEPT ![r] = [job[r] EXCEPT !.id[post[r].at] = (IF post[r].id = "none"
              THEN job[r].id[post[r].at] ELSE post[r].id), !.stage = "fallback_upload",
              !.dest[post[r].at] = IF (job[r].dest[post[r].at] = "uncertain" \/ Lost(r))
              THEN "uncertain" ELSE @]]
      BY <1>2 DEF QueueAnswered
    <2>3. /\ [job[r].id EXCEPT ![post[r].at] = (IF post[r].id = "none"
                 THEN job[r].id[post[r].at] ELSE post[r].id)] \in [Routes -> KnownIds]
          /\ [job[r].dest EXCEPT ![post[r].at] =
                 IF (job[r].dest[post[r].at] = "uncertain" \/ Lost(r)) THEN "uncertain"
                 ELSE @] \in [Routes -> DestStates]
      BY <1>y, <2>1, <1>2 DEF DestStates, KnownIds, PostRow
    <2>4. /\ job'[r] \in JobRow /\ job'[r].status = job[r].status
          /\ job'[r].stage = "fallback_upload" /\ job'[r].path = job[r].path
          /\ job'[r].tries = job[r].tries
          /\ job'[r].dest = [job[r].dest EXCEPT ![post[r].at] =
                 IF (job[r].dest[post[r].at] = "uncertain" \/ Lost(r)) THEN "uncertain" ELSE @]
          /\ job'[r].id = [job[r].id EXCEPT ![post[r].at] = (IF post[r].id = "none"
                 THEN job[r].id[post[r].at] ELSE post[r].id)]
          /\ \A q \in Ingestions : q # r => job'[q] = job[q]
          /\ job' \in [Ingestions -> JobRow]
      BY <1>y, <2>2, <2>3 DEF JobRow, PostRow, Lost
    <2>5. /\ \A e \in Routes : job'[r].id[e] = IF e = post[r].at THEN (IF post[r].id = "none"
                 THEN job[r].id[post[r].at] ELSE post[r].id) ELSE job[r].id[e]
          /\ \A e \in Routes : job'[r].dest[e] =
                 IF e = post[r].at /\ (job[r].dest[post[r].at] = "uncertain" \/ post[r].error = "lost")
                 THEN "uncertain" ELSE job[r].dest[e]
      BY <1>y, <2>4, <2>1 DEF Lost
    <2>6. post' = [post EXCEPT ![r] = [post[r] EXCEPT !.pc = "upload"]]
      BY <1>2 DEF QueueAnswered, GoPost
    <2>7. /\ post'[r] \in PostRow /\ post'[r].pc = "upload" /\ post'[r].by = post[r].by
          /\ post'[r].at = post[r].at /\ post'[r].error = post[r].error /\ post'[r].id = post[r].id
          /\ post'[r].upload = post[r].upload
          /\ \A q \in Ingestions : q # r => post'[q] = post[q]
          /\ post' \in [Ingestions -> PostRow]
      BY <1>y, <2>6 DEF PostRow, KnownIds
    <2>8. UNCHANGED <<custom, message, entry, settler, bare, right, vouched, deletedFor>>
      BY <1>2 DEF QueueAnswered, shown, record, budget
    <2>9. /\ \A e \in Routes : (Present(r, e)' <=> Present(r, e)) /\ (AtMostOne(r, e)' <=> AtMostOne(r, e))
          /\ \A e \in Routes : AsWanted(r, e)' <=> AsWanted(r, e)
      BY <2>8 DEF Present, AtMostOne, AsWanted
    <2>10. /\ \A q \in Ingestions, e \in Routes : q # r => (<<q, e>> \in excused' <=> <<q, e>> \in excused)
        /\ \A e \in Routes : <<r, e>> \in excused' <=>
               <<r, e>> \in excused \/ (e = post[r].at /\ post[r].error \in {"lost", "unresolved"})
      BY <1>2, <2>1 DEF QueueAnswered, Excuse, Target, Lost, Unresolved
    <2>11. /\ PostIsHeld(r)' /\ RowIsNew(r)' /\ DirectIsFirst(r)' /\ AnswerIsTrue(r)'
           /\ KnownIsThere(r)'
      BY <1>r, <2>1, <2>4, <2>5, <2>7, <2>8, <2>9, <2>10, <1>2 DEF RowInv, PostIsHeld, AtRoute,
         RowIsNew, DirectIsFirst, AnswerIsTrue, Edits, Native, KnownIsThere
    <2>12. CaptionsAreKnown(r)' /\ RowIsDelivered(r)' /\ RowIsShown(r)' /\ RowIsSentOnce(r)'
      BY <1>r, <2>1, <2>4, <2>5, <2>7, <2>8, <2>9, <2>10, <1>2 DEF RowInv, CaptionsAreKnown,
         AtRoute, RowIsDelivered, RowIsShown, RowIsSentOnce
    <2>13. DoubtIsHeld(r)'
      BY <1>r, <2>1, <2>4, <2>5, <2>7, <2>8, <2>9, <2>10, <1>2 DEF RowInv, DoubtIsHeld, PostIsHeld,
         AtRoute
    <2>14. AheadIsUnsent(r)'
      BY <1>o, <1>r, <2>1, <2>4, <2>5, <2>7, <2>8, <2>9, <2>10, <1>2 DEF RowInv, AheadIsUnsent,
         Unsent, Ahead, AtRoute, PostIsHeld, DirectIsFirst, TargetIsUnsent, Native, Edits,
         AnswerIsTrue, RouteOrder
    <2>15. TargetIsUnsent(r)'
      BY <1>t, <1>o, <1>r, <2>1, <2>4, <2>5, <2>7, <2>8, <2>9, <2>10, <1>2 DEF RowInv,
         TargetIsUnsent, Unsent, Native, Edits, PostIsHeld, AtRoute, RowIsNew, DirectIsFirst,
         DoubtIsHeld, AnswerIsTrue, KnownIsThere, AheadIsUnsent, Ahead, CaptionsAreKnown,
         DeletedIsOver, RowIsDelivered, RowIsShown, RowIsSentOnce, RouteOrder, RowTyped
    <2>16. DeletedIsOver(r)'
      BY <1>r, <2>1, <2>4, <2>5, <2>7, <2>8, <2>9, <2>10, <1>2 DEF RowInv, DeletedIsOver,
         PostIsHeld, AtRoute, AnswerIsTrue, Edits, Native
    <2>17. LiveTypes' /\ CountIsKept' /\ OnlyRow(r)
      BY <1>t, <2>4, <2>7, <2>8, <2>10, <2>1, <1>2 DEF OnlyRow, LiveTypes, CountIsKept
    <2> QED
      BY <1>t, <2>11, <2>12, <2>13, <2>14, <2>15, <2>16, <2>17, OneRow DEF RowInv
  <1>3. CASE post[r].error = "lost" /\ ~post[r].upload /\ job[r].path
    <2>1. post[r].pc = "answered" /\ post[r].at \in Routes /\ post[r].by = "queue"
      BY <1>3, <1>r DEF QueueAnswered, QueueHasAnswer, Deletes, IsLastRoute, RowInv, PostIsHeld,
         AtRoute, AnswerIsTrue
    <2>2. job' = [job EXCEPT ![r] = [job[r] EXCEPT !.id[post[r].at] = (IF post[r].id = "none"
              THEN job[r].id[post[r].at] ELSE post[r].id), !.stage = "fallback_upload",
              !.dest[post[r].at] = IF (job[r].dest[post[r].at] = "uncertain" \/ Lost(r))
              THEN "uncertain" ELSE @]]
      BY <1>3 DEF QueueAnswered
    <2>3. /\ [job[r].id EXCEPT ![post[r].at] = (IF post[r].id = "none"
                 THEN job[r].id[post[r].at] ELSE post[r].id)] \in [Routes -> KnownIds]
          /\ [job[r].dest EXCEPT ![post[r].at] =
                 IF (job[r].dest[post[r].at] = "uncertain" \/ Lost(r)) THEN "uncertain"
                 ELSE @] \in [Routes -> DestStates]
      BY <1>y, <2>1, <1>3 DEF DestStates, KnownIds, PostRow
    <2>4. /\ job'[r] \in JobRow /\ job'[r].status = job[r].status
          /\ job'[r].stage = "fallback_upload" /\ job'[r].path = job[r].path
          /\ job'[r].tries = job[r].tries
          /\ job'[r].dest = [job[r].dest EXCEPT ![post[r].at] =
                 IF (job[r].dest[post[r].at] = "uncertain" \/ Lost(r)) THEN "uncertain" ELSE @]
          /\ job'[r].id = [job[r].id EXCEPT ![post[r].at] = (IF post[r].id = "none"
                 THEN job[r].id[post[r].at] ELSE post[r].id)]
          /\ \A q \in Ingestions : q # r => job'[q] = job[q]
          /\ job' \in [Ingestions -> JobRow]
      BY <1>y, <2>2, <2>3 DEF JobRow, PostRow, Lost
    <2>5. /\ \A e \in Routes : job'[r].id[e] = IF e = post[r].at THEN (IF post[r].id = "none"
                 THEN job[r].id[post[r].at] ELSE post[r].id) ELSE job[r].id[e]
          /\ \A e \in Routes : job'[r].dest[e] =
                 IF e = post[r].at /\ (job[r].dest[post[r].at] = "uncertain" \/ post[r].error = "lost")
                 THEN "uncertain" ELSE job[r].dest[e]
      BY <1>y, <2>4, <2>1 DEF Lost
    <2>6. post' = [post EXCEPT ![r] = [post[r] EXCEPT !.pc = "upload"]]
      BY <1>3 DEF QueueAnswered, GoPost
    <2>7. /\ post'[r] \in PostRow /\ post'[r].pc = "upload" /\ post'[r].by = post[r].by
          /\ post'[r].at = post[r].at /\ post'[r].error = post[r].error /\ post'[r].id = post[r].id
          /\ post'[r].upload = post[r].upload
          /\ \A q \in Ingestions : q # r => post'[q] = post[q]
          /\ post' \in [Ingestions -> PostRow]
      BY <1>y, <2>6 DEF PostRow, KnownIds
    <2>8. UNCHANGED <<custom, message, entry, settler, bare, right, vouched, deletedFor>>
      BY <1>3 DEF QueueAnswered, shown, record, budget
    <2>9. /\ \A e \in Routes : (Present(r, e)' <=> Present(r, e)) /\ (AtMostOne(r, e)' <=> AtMostOne(r, e))
          /\ \A e \in Routes : AsWanted(r, e)' <=> AsWanted(r, e)
      BY <2>8 DEF Present, AtMostOne, AsWanted
    <2>10. /\ \A q \in Ingestions, e \in Routes : q # r => (<<q, e>> \in excused' <=> <<q, e>> \in excused)
        /\ \A e \in Routes : <<r, e>> \in excused' <=>
               <<r, e>> \in excused \/ (e = post[r].at /\ post[r].error \in {"lost", "unresolved"})
      BY <1>3, <2>1 DEF QueueAnswered, Excuse, Target, Lost, Unresolved
    <2>11. /\ PostIsHeld(r)' /\ DirectIsFirst(r)' /\ AnswerIsTrue(r)' /\ KnownIsThere(r)'
           /\ TargetIsUnsent(r)'
      BY <1>r, <2>1, <2>4, <2>5, <2>7, <2>8, <2>9, <2>10, <1>3 DEF RowInv, PostIsHeld, AtRoute,
         DirectIsFirst, AnswerIsTrue, Edits, Native, KnownIsThere, TargetIsUnsent, Unsent
    <2>12. CaptionsAreKnown(r)' /\ RowIsDelivered(r)' /\ RowIsShown(r)' /\ RowIsSentOnce(r)'
      BY <1>r, <2>1, <2>4, <2>5, <2>7, <2>8, <2>9, <2>10, <1>3 DEF RowInv, CaptionsAreKnown,
         AtRoute, RowIsDelivered, RowIsShown, RowIsSentOnce
    <2>13. RowIsNew(r)'
      BY <1>r, <2>1, <2>4, <2>5, <2>7, <2>8, <2>9, <2>10, <1>3 DEF RowInv, RowIsNew, PostIsHeld,
         AtRoute
    <2>14. DoubtIsHeld(r)'
      BY <1>r, <2>1, <2>4, <2>5, <2>7, <2>8, <2>9, <2>10, <1>3 DEF RowInv, DoubtIsHeld, PostIsHeld,
         AtRoute
    <2>15. AheadIsUnsent(r)'
      BY <1>t, <1>o, <1>r, <2>1, <2>4, <2>5, <2>7, <2>8, <2>9, <2>10, <1>3 DEF RowInv,
         AheadIsUnsent, Unsent, Ahead, AtRoute, PostIsHeld, RowIsNew, DirectIsFirst, DoubtIsHeld,
         AnswerIsTrue, Edits, Native, KnownIsThere, TargetIsUnsent, CaptionsAreKnown, DeletedIsOver,
         RowIsDelivered, RowIsShown, RowIsSentOnce, RouteOrder, RowTyped
    <2>16. DeletedIsOver(r)'
      BY <1>r, <2>1, <2>4, <2>5, <2>7, <2>8, <2>9, <2>10, <1>3 DEF RowInv, DeletedIsOver,
         PostIsHeld, AtRoute, AnswerIsTrue, Edits, Native
    <2>17. LiveTypes' /\ CountIsKept' /\ OnlyRow(r)
      BY <1>t, <2>4, <2>7, <2>8, <2>10, <2>1, <1>3 DEF OnlyRow, LiveTypes, CountIsKept
    <2> QED
      BY <1>t, <2>11, <2>12, <2>13, <2>14, <2>15, <2>16, <2>17, OneRow DEF RowInv
  <1>4. CASE post[r].error = "unresolved" /\ ~post[r].upload /\ job[r].path
    <2>1. post[r].pc = "answered" /\ post[r].at \in Routes /\ post[r].by = "queue"
      BY <1>4, <1>r DEF QueueAnswered, QueueHasAnswer, Deletes, IsLastRoute, RowInv, PostIsHeld,
         AtRoute, AnswerIsTrue
    <2>2. job' = [job EXCEPT ![r] = [job[r] EXCEPT !.id[post[r].at] = (IF post[r].id = "none"
              THEN job[r].id[post[r].at] ELSE post[r].id), !.stage = "fallback_upload",
              !.dest[post[r].at] = IF (job[r].dest[post[r].at] = "uncertain" \/ Lost(r))
              THEN "uncertain" ELSE @]]
      BY <1>4 DEF QueueAnswered
    <2>3. /\ [job[r].id EXCEPT ![post[r].at] = (IF post[r].id = "none"
                 THEN job[r].id[post[r].at] ELSE post[r].id)] \in [Routes -> KnownIds]
          /\ [job[r].dest EXCEPT ![post[r].at] =
                 IF (job[r].dest[post[r].at] = "uncertain" \/ Lost(r)) THEN "uncertain"
                 ELSE @] \in [Routes -> DestStates]
      BY <1>y, <2>1, <1>4 DEF DestStates, KnownIds, PostRow
    <2>4. /\ job'[r] \in JobRow /\ job'[r].status = job[r].status
          /\ job'[r].stage = "fallback_upload" /\ job'[r].path = job[r].path
          /\ job'[r].tries = job[r].tries
          /\ job'[r].dest = [job[r].dest EXCEPT ![post[r].at] =
                 IF (job[r].dest[post[r].at] = "uncertain" \/ Lost(r)) THEN "uncertain" ELSE @]
          /\ job'[r].id = [job[r].id EXCEPT ![post[r].at] = (IF post[r].id = "none"
                 THEN job[r].id[post[r].at] ELSE post[r].id)]
          /\ \A q \in Ingestions : q # r => job'[q] = job[q]
          /\ job' \in [Ingestions -> JobRow]
      BY <1>y, <2>2, <2>3 DEF JobRow, PostRow, Lost
    <2>5. /\ \A e \in Routes : job'[r].id[e] = IF e = post[r].at THEN (IF post[r].id = "none"
                 THEN job[r].id[post[r].at] ELSE post[r].id) ELSE job[r].id[e]
          /\ \A e \in Routes : job'[r].dest[e] =
                 IF e = post[r].at /\ (job[r].dest[post[r].at] = "uncertain" \/ post[r].error = "lost")
                 THEN "uncertain" ELSE job[r].dest[e]
      BY <1>y, <2>4, <2>1 DEF Lost
    <2>6. post' = [post EXCEPT ![r] = [post[r] EXCEPT !.pc = "upload"]]
      BY <1>4 DEF QueueAnswered, GoPost
    <2>7. /\ post'[r] \in PostRow /\ post'[r].pc = "upload" /\ post'[r].by = post[r].by
          /\ post'[r].at = post[r].at /\ post'[r].error = post[r].error /\ post'[r].id = post[r].id
          /\ post'[r].upload = post[r].upload
          /\ \A q \in Ingestions : q # r => post'[q] = post[q]
          /\ post' \in [Ingestions -> PostRow]
      BY <1>y, <2>6 DEF PostRow, KnownIds
    <2>8. UNCHANGED <<custom, message, entry, settler, bare, right, vouched, deletedFor>>
      BY <1>4 DEF QueueAnswered, shown, record, budget
    <2>9. /\ \A e \in Routes : (Present(r, e)' <=> Present(r, e)) /\ (AtMostOne(r, e)' <=> AtMostOne(r, e))
          /\ \A e \in Routes : AsWanted(r, e)' <=> AsWanted(r, e)
      BY <2>8 DEF Present, AtMostOne, AsWanted
    <2>10. /\ \A q \in Ingestions, e \in Routes : q # r => (<<q, e>> \in excused' <=> <<q, e>> \in excused)
        /\ \A e \in Routes : <<r, e>> \in excused' <=>
               <<r, e>> \in excused \/ (e = post[r].at /\ post[r].error \in {"lost", "unresolved"})
      BY <1>4, <2>1 DEF QueueAnswered, Excuse, Target, Lost, Unresolved
    <2>11. /\ PostIsHeld(r)' /\ RowIsNew(r)' /\ DirectIsFirst(r)' /\ DoubtIsHeld(r)'
           /\ AnswerIsTrue(r)'
      BY <1>r, <2>1, <2>4, <2>5, <2>7, <2>8, <2>9, <2>10, <1>4 DEF RowInv, PostIsHeld, AtRoute,
         RowIsNew, DirectIsFirst, DoubtIsHeld, AnswerIsTrue, Edits, Native
    <2>12. /\ KnownIsThere(r)' /\ TargetIsUnsent(r)' /\ CaptionsAreKnown(r)' /\ DeletedIsOver(r)'
           /\ RowIsDelivered(r)'
      BY <1>r, <2>1, <2>4, <2>5, <2>7, <2>8, <2>9, <2>10, <1>4 DEF RowInv, KnownIsThere, AtRoute,
         TargetIsUnsent, Unsent, Native, Edits, CaptionsAreKnown, DeletedIsOver, RowIsDelivered
    <2>13. RowIsShown(r)' /\ RowIsSentOnce(r)'
      BY <1>r, <2>1, <2>4, <2>5, <2>7, <2>8, <2>9, <2>10, <1>4 DEF RowInv, RowIsShown, RowIsSentOnce
    <2>14. AheadIsUnsent(r)'
      BY <1>o, <1>r, <2>1, <2>4, <2>5, <2>7, <2>8, <2>9, <2>10, <1>4 DEF RowInv, AheadIsUnsent,
         Unsent, Ahead, AtRoute, PostIsHeld, DirectIsFirst, TargetIsUnsent, Native, Edits,
         AnswerIsTrue, RouteOrder
    <2>15. LiveTypes' /\ CountIsKept' /\ OnlyRow(r)
      BY <1>t, <2>4, <2>7, <2>8, <2>10, <2>1, <1>4 DEF OnlyRow, LiveTypes, CountIsKept
    <2> QED
      BY <1>t, <2>11, <2>12, <2>13, <2>14, <2>15, OneRow DEF RowInv
  <1>5. CASE post[r].error = "refused" /\ (post[r].upload \/ ~job[r].path)
    <2>1. post[r].pc = "answered" /\ post[r].at \in Routes /\ post[r].by = "queue"
      BY <1>5, <1>r DEF QueueAnswered, QueueHasAnswer, Deletes, IsLastRoute, RowInv, PostIsHeld,
         AtRoute, AnswerIsTrue
    <2>2. job' = [job EXCEPT ![r] = [job[r] EXCEPT !.id[post[r].at] = (IF post[r].id = "none"
              THEN job[r].id[post[r].at] ELSE post[r].id), !.stage = job[r].stage,
              !.dest[post[r].at] = IF (job[r].dest[post[r].at] = "uncertain" \/ Lost(r))
              THEN "uncertain" ELSE "failed"]]
      BY <1>5 DEF QueueAnswered
    <2>3. /\ [job[r].id EXCEPT ![post[r].at] = (IF post[r].id = "none"
                 THEN job[r].id[post[r].at] ELSE post[r].id)] \in [Routes -> KnownIds]
          /\ [job[r].dest EXCEPT ![post[r].at] =
                 IF (job[r].dest[post[r].at] = "uncertain" \/ Lost(r)) THEN "uncertain"
                 ELSE "failed"] \in [Routes -> DestStates]
      BY <1>y, <2>1, <1>5 DEF DestStates, KnownIds, PostRow
    <2>4. /\ job'[r] \in JobRow /\ job'[r].status = job[r].status /\ job'[r].stage = job[r].stage
          /\ job'[r].path = job[r].path /\ job'[r].tries = job[r].tries
          /\ job'[r].dest = [job[r].dest EXCEPT ![post[r].at] =
                 IF (job[r].dest[post[r].at] = "uncertain" \/ Lost(r)) THEN "uncertain" ELSE "failed"]
          /\ job'[r].id = [job[r].id EXCEPT ![post[r].at] = (IF post[r].id = "none"
                 THEN job[r].id[post[r].at] ELSE post[r].id)]
          /\ \A q \in Ingestions : q # r => job'[q] = job[q]
          /\ job' \in [Ingestions -> JobRow]
      BY <1>y, <2>2, <2>3 DEF JobRow, PostRow, Lost
    <2>5. /\ \A e \in Routes : job'[r].id[e] = IF e = post[r].at THEN (IF post[r].id = "none"
                 THEN job[r].id[post[r].at] ELSE post[r].id) ELSE job[r].id[e]
          /\ \A e \in Routes : job'[r].dest[e] = IF e = post[r].at
                 THEN IF (job[r].dest[post[r].at] = "uncertain" \/ post[r].error = "lost")
                 THEN "uncertain" ELSE "failed" ELSE job[r].dest[e]
      BY <1>y, <2>4, <2>1 DEF Lost
    <2>6. post' = [post EXCEPT ![r] = [post[r] EXCEPT !.pc = "failed"]]
      BY <1>5 DEF QueueAnswered, GoPost
    <2>7. /\ post'[r] \in PostRow /\ post'[r].pc = "failed" /\ post'[r].by = post[r].by
          /\ post'[r].at = post[r].at /\ post'[r].error = post[r].error /\ post'[r].id = post[r].id
          /\ post'[r].upload = post[r].upload
          /\ \A q \in Ingestions : q # r => post'[q] = post[q]
          /\ post' \in [Ingestions -> PostRow]
      BY <1>y, <2>6 DEF PostRow, KnownIds
    <2>8. UNCHANGED <<custom, message, entry, settler, bare, right, vouched, deletedFor>>
      BY <1>5 DEF QueueAnswered, shown, record, budget
    <2>9. /\ \A e \in Routes : (Present(r, e)' <=> Present(r, e)) /\ (AtMostOne(r, e)' <=> AtMostOne(r, e))
          /\ \A e \in Routes : AsWanted(r, e)' <=> AsWanted(r, e)
      BY <2>8 DEF Present, AtMostOne, AsWanted
    <2>10. /\ \A q \in Ingestions, e \in Routes : q # r => (<<q, e>> \in excused' <=> <<q, e>> \in excused)
        /\ \A e \in Routes : <<r, e>> \in excused' <=>
               <<r, e>> \in excused \/ (e = post[r].at /\ post[r].error = "unresolved" /\ ~post[r].upload)
      BY <1>5, <2>1 DEF QueueAnswered, Excuse, Target, Lost, Unresolved
    <2>11. /\ PostIsHeld(r)' /\ DirectIsFirst(r)' /\ DoubtIsHeld(r)' /\ AnswerIsTrue(r)'
           /\ KnownIsThere(r)'
      BY <1>r, <2>1, <2>4, <2>5, <2>7, <2>8, <2>9, <2>10, <1>5 DEF RowInv, PostIsHeld, AtRoute,
         DirectIsFirst, DoubtIsHeld, AnswerIsTrue, Edits, Native, KnownIsThere
    <2>12. /\ TargetIsUnsent(r)' /\ CaptionsAreKnown(r)' /\ RowIsDelivered(r)' /\ RowIsShown(r)'
           /\ RowIsSentOnce(r)'
      BY <1>r, <2>1, <2>4, <2>5, <2>7, <2>8, <2>9, <2>10, <1>5 DEF RowInv, TargetIsUnsent, Unsent,
         Native, Edits, CaptionsAreKnown, AtRoute, RowIsDelivered, RowIsShown, RowIsSentOnce
    <2>13. RowIsNew(r)'
      BY <1>r, <2>1, <2>4, <2>5, <2>7, <2>8, <2>9, <2>10, <1>5 DEF RowInv, RowIsNew, PostIsHeld,
         AtRoute
    <2>14. AheadIsUnsent(r)'
      BY <1>o, <1>r, <2>1, <2>4, <2>5, <2>7, <2>8, <2>9, <2>10, <1>5 DEF RowInv, AheadIsUnsent,
         Unsent, Ahead, AtRoute, PostIsHeld, DirectIsFirst, TargetIsUnsent, Native, Edits,
         AnswerIsTrue, RouteOrder
    <2>15. DeletedIsOver(r)'
      BY <1>r, <2>1, <2>4, <2>5, <2>7, <2>8, <2>9, <2>10, <1>5 DEF RowInv, DeletedIsOver,
         PostIsHeld, AtRoute, AnswerIsTrue, Edits, Native
    <2>16. LiveTypes' /\ CountIsKept' /\ OnlyRow(r)
      BY <1>t, <2>4, <2>7, <2>8, <2>10, <2>1, <1>5 DEF OnlyRow, LiveTypes, CountIsKept
    <2> QED
      BY <1>t, <2>11, <2>12, <2>13, <2>14, <2>15, <2>16, OneRow DEF RowInv
  <1>6. CASE post[r].error = "lost" /\ (post[r].upload \/ ~job[r].path)
    <2>1. post[r].pc = "answered" /\ post[r].at \in Routes /\ post[r].by = "queue"
      BY <1>6, <1>r DEF QueueAnswered, QueueHasAnswer, Deletes, IsLastRoute, RowInv, PostIsHeld,
         AtRoute, AnswerIsTrue
    <2>2. job' = [job EXCEPT ![r] = [job[r] EXCEPT !.id[post[r].at] = (IF post[r].id = "none"
              THEN job[r].id[post[r].at] ELSE post[r].id), !.stage = job[r].stage,
              !.dest[post[r].at] = IF (job[r].dest[post[r].at] = "uncertain" \/ Lost(r))
              THEN "uncertain" ELSE "failed"]]
      BY <1>6 DEF QueueAnswered
    <2>3. /\ [job[r].id EXCEPT ![post[r].at] = (IF post[r].id = "none"
                 THEN job[r].id[post[r].at] ELSE post[r].id)] \in [Routes -> KnownIds]
          /\ [job[r].dest EXCEPT ![post[r].at] =
                 IF (job[r].dest[post[r].at] = "uncertain" \/ Lost(r)) THEN "uncertain"
                 ELSE "failed"] \in [Routes -> DestStates]
      BY <1>y, <2>1, <1>6 DEF DestStates, KnownIds, PostRow
    <2>4. /\ job'[r] \in JobRow /\ job'[r].status = job[r].status /\ job'[r].stage = job[r].stage
          /\ job'[r].path = job[r].path /\ job'[r].tries = job[r].tries
          /\ job'[r].dest = [job[r].dest EXCEPT ![post[r].at] =
                 IF (job[r].dest[post[r].at] = "uncertain" \/ Lost(r)) THEN "uncertain" ELSE "failed"]
          /\ job'[r].id = [job[r].id EXCEPT ![post[r].at] = (IF post[r].id = "none"
                 THEN job[r].id[post[r].at] ELSE post[r].id)]
          /\ \A q \in Ingestions : q # r => job'[q] = job[q]
          /\ job' \in [Ingestions -> JobRow]
      BY <1>y, <2>2, <2>3 DEF JobRow, PostRow, Lost
    <2>5. /\ \A e \in Routes : job'[r].id[e] = IF e = post[r].at THEN (IF post[r].id = "none"
                 THEN job[r].id[post[r].at] ELSE post[r].id) ELSE job[r].id[e]
          /\ \A e \in Routes : job'[r].dest[e] = IF e = post[r].at
                 THEN IF (job[r].dest[post[r].at] = "uncertain" \/ post[r].error = "lost")
                 THEN "uncertain" ELSE "failed" ELSE job[r].dest[e]
      BY <1>y, <2>4, <2>1 DEF Lost
    <2>6. post' = [post EXCEPT ![r] = [post[r] EXCEPT !.pc = "failed"]]
      BY <1>6 DEF QueueAnswered, GoPost
    <2>7. /\ post'[r] \in PostRow /\ post'[r].pc = "failed" /\ post'[r].by = post[r].by
          /\ post'[r].at = post[r].at /\ post'[r].error = post[r].error /\ post'[r].id = post[r].id
          /\ post'[r].upload = post[r].upload
          /\ \A q \in Ingestions : q # r => post'[q] = post[q]
          /\ post' \in [Ingestions -> PostRow]
      BY <1>y, <2>6 DEF PostRow, KnownIds
    <2>8. UNCHANGED <<custom, message, entry, settler, bare, right, vouched, deletedFor>>
      BY <1>6 DEF QueueAnswered, shown, record, budget
    <2>9. /\ \A e \in Routes : (Present(r, e)' <=> Present(r, e)) /\ (AtMostOne(r, e)' <=> AtMostOne(r, e))
          /\ \A e \in Routes : AsWanted(r, e)' <=> AsWanted(r, e)
      BY <2>8 DEF Present, AtMostOne, AsWanted
    <2>10. /\ \A q \in Ingestions, e \in Routes : q # r => (<<q, e>> \in excused' <=> <<q, e>> \in excused)
        /\ \A e \in Routes : <<r, e>> \in excused' <=>
               <<r, e>> \in excused \/ (e = post[r].at /\ post[r].error = "unresolved" /\ ~post[r].upload)
      BY <1>6, <2>1 DEF QueueAnswered, Excuse, Target, Lost, Unresolved
    <2>11. /\ PostIsHeld(r)' /\ DirectIsFirst(r)' /\ AnswerIsTrue(r)' /\ KnownIsThere(r)'
           /\ TargetIsUnsent(r)'
      BY <1>r, <2>1, <2>4, <2>5, <2>7, <2>8, <2>9, <2>10, <1>6 DEF RowInv, PostIsHeld, AtRoute,
         DirectIsFirst, AnswerIsTrue, Edits, Native, KnownIsThere, TargetIsUnsent, Unsent
    <2>12. CaptionsAreKnown(r)' /\ RowIsDelivered(r)' /\ RowIsShown(r)' /\ RowIsSentOnce(r)'
      BY <1>r, <2>1, <2>4, <2>5, <2>7, <2>8, <2>9, <2>10, <1>6 DEF RowInv, CaptionsAreKnown,
         AtRoute, RowIsDelivered, RowIsShown, RowIsSentOnce
    <2>13. RowIsNew(r)'
      BY <1>r, <2>1, <2>4, <2>5, <2>7, <2>8, <2>9, <2>10, <1>6 DEF RowInv, RowIsNew, PostIsHeld,
         AtRoute
    <2>14. DoubtIsHeld(r)'
      BY <1>r, <2>1, <2>4, <2>5, <2>7, <2>8, <2>9, <2>10, <1>6 DEF RowInv, DoubtIsHeld, PostIsHeld,
         AtRoute
    <2>15. AheadIsUnsent(r)'
      BY <1>o, <1>r, <2>1, <2>4, <2>5, <2>7, <2>8, <2>9, <2>10, <1>6 DEF RowInv, AheadIsUnsent,
         Unsent, Ahead, AtRoute, PostIsHeld, DirectIsFirst, TargetIsUnsent, Native, Edits,
         AnswerIsTrue, RouteOrder
    <2>16. DeletedIsOver(r)'
      BY <1>r, <2>1, <2>4, <2>5, <2>7, <2>8, <2>9, <2>10, <1>6 DEF RowInv, DeletedIsOver,
         PostIsHeld, AtRoute, AnswerIsTrue, Edits, Native
    <2>17. LiveTypes' /\ CountIsKept' /\ OnlyRow(r)
      BY <1>t, <2>4, <2>7, <2>8, <2>10, <2>1, <1>6 DEF OnlyRow, LiveTypes, CountIsKept
    <2> QED
      BY <1>t, <2>11, <2>12, <2>13, <2>14, <2>15, <2>16, <2>17, OneRow DEF RowInv
  <1>7. CASE post[r].error = "unresolved" /\ (post[r].upload \/ ~job[r].path)
    <2>1. post[r].pc = "answered" /\ post[r].at \in Routes /\ post[r].by = "queue"
      BY <1>7, <1>r DEF QueueAnswered, QueueHasAnswer, Deletes, IsLastRoute, RowInv, PostIsHeld,
         AtRoute, AnswerIsTrue
    <2>2. job' = [job EXCEPT ![r] = [job[r] EXCEPT !.id[post[r].at] = (IF post[r].id = "none"
              THEN job[r].id[post[r].at] ELSE post[r].id), !.stage = job[r].stage,
              !.dest[post[r].at] = IF (job[r].dest[post[r].at] = "uncertain" \/ Lost(r))
              THEN "uncertain" ELSE "failed"]]
      BY <1>7 DEF QueueAnswered
    <2>3. /\ [job[r].id EXCEPT ![post[r].at] = (IF post[r].id = "none"
                 THEN job[r].id[post[r].at] ELSE post[r].id)] \in [Routes -> KnownIds]
          /\ [job[r].dest EXCEPT ![post[r].at] =
                 IF (job[r].dest[post[r].at] = "uncertain" \/ Lost(r)) THEN "uncertain"
                 ELSE "failed"] \in [Routes -> DestStates]
      BY <1>y, <2>1, <1>7 DEF DestStates, KnownIds, PostRow
    <2>4. /\ job'[r] \in JobRow /\ job'[r].status = job[r].status /\ job'[r].stage = job[r].stage
          /\ job'[r].path = job[r].path /\ job'[r].tries = job[r].tries
          /\ job'[r].dest = [job[r].dest EXCEPT ![post[r].at] =
                 IF (job[r].dest[post[r].at] = "uncertain" \/ Lost(r)) THEN "uncertain" ELSE "failed"]
          /\ job'[r].id = [job[r].id EXCEPT ![post[r].at] = (IF post[r].id = "none"
                 THEN job[r].id[post[r].at] ELSE post[r].id)]
          /\ \A q \in Ingestions : q # r => job'[q] = job[q]
          /\ job' \in [Ingestions -> JobRow]
      BY <1>y, <2>2, <2>3 DEF JobRow, PostRow, Lost
    <2>5. /\ \A e \in Routes : job'[r].id[e] = IF e = post[r].at THEN (IF post[r].id = "none"
                 THEN job[r].id[post[r].at] ELSE post[r].id) ELSE job[r].id[e]
          /\ \A e \in Routes : job'[r].dest[e] = IF e = post[r].at
                 THEN IF (job[r].dest[post[r].at] = "uncertain" \/ post[r].error = "lost")
                 THEN "uncertain" ELSE "failed" ELSE job[r].dest[e]
      BY <1>y, <2>4, <2>1 DEF Lost
    <2>6. post' = [post EXCEPT ![r] = [post[r] EXCEPT !.pc = "failed"]]
      BY <1>7 DEF QueueAnswered, GoPost
    <2>7. /\ post'[r] \in PostRow /\ post'[r].pc = "failed" /\ post'[r].by = post[r].by
          /\ post'[r].at = post[r].at /\ post'[r].error = post[r].error /\ post'[r].id = post[r].id
          /\ post'[r].upload = post[r].upload
          /\ \A q \in Ingestions : q # r => post'[q] = post[q]
          /\ post' \in [Ingestions -> PostRow]
      BY <1>y, <2>6 DEF PostRow, KnownIds
    <2>8. UNCHANGED <<custom, message, entry, settler, bare, right, vouched, deletedFor>>
      BY <1>7 DEF QueueAnswered, shown, record, budget
    <2>9. /\ \A e \in Routes : (Present(r, e)' <=> Present(r, e)) /\ (AtMostOne(r, e)' <=> AtMostOne(r, e))
          /\ \A e \in Routes : AsWanted(r, e)' <=> AsWanted(r, e)
      BY <2>8 DEF Present, AtMostOne, AsWanted
    <2>10. /\ \A q \in Ingestions, e \in Routes : q # r => (<<q, e>> \in excused' <=> <<q, e>> \in excused)
        /\ \A e \in Routes : <<r, e>> \in excused' <=>
               <<r, e>> \in excused \/ (e = post[r].at /\ post[r].error = "unresolved" /\ ~post[r].upload)
      BY <1>7, <2>1 DEF QueueAnswered, Excuse, Target, Lost, Unresolved
    <2>11. /\ PostIsHeld(r)' /\ DirectIsFirst(r)' /\ DoubtIsHeld(r)' /\ AnswerIsTrue(r)'
           /\ KnownIsThere(r)'
      BY <1>r, <2>1, <2>4, <2>5, <2>7, <2>8, <2>9, <2>10, <1>7 DEF RowInv, PostIsHeld, AtRoute,
         DirectIsFirst, DoubtIsHeld, AnswerIsTrue, Edits, Native, KnownIsThere
    <2>12. /\ TargetIsUnsent(r)' /\ CaptionsAreKnown(r)' /\ RowIsDelivered(r)' /\ RowIsShown(r)'
           /\ RowIsSentOnce(r)'
      BY <1>r, <2>1, <2>4, <2>5, <2>7, <2>8, <2>9, <2>10, <1>7 DEF RowInv, TargetIsUnsent, Unsent,
         Native, Edits, CaptionsAreKnown, AtRoute, RowIsDelivered, RowIsShown, RowIsSentOnce
    <2>13. RowIsNew(r)'
      BY <1>r, <2>1, <2>4, <2>5, <2>7, <2>8, <2>9, <2>10, <1>7 DEF RowInv, RowIsNew, PostIsHeld,
         AtRoute
    <2>14. AheadIsUnsent(r)'
      BY <1>o, <1>r, <2>1, <2>4, <2>5, <2>7, <2>8, <2>9, <2>10, <1>7 DEF RowInv, AheadIsUnsent,
         Unsent, Ahead, AtRoute, PostIsHeld, DirectIsFirst, TargetIsUnsent, Native, Edits,
         AnswerIsTrue, RouteOrder
    <2>15. DeletedIsOver(r)'
      BY <1>r, <2>1, <2>4, <2>5, <2>7, <2>8, <2>9, <2>10, <1>7 DEF RowInv, DeletedIsOver,
         PostIsHeld, AtRoute, AnswerIsTrue, Edits, Native
    <2>16. LiveTypes' /\ CountIsKept' /\ OnlyRow(r)
      BY <1>t, <2>4, <2>7, <2>8, <2>10, <2>1, <1>7 DEF OnlyRow, LiveTypes, CountIsKept
    <2> QED
      BY <1>t, <2>11, <2>12, <2>13, <2>14, <2>15, <2>16, OneRow DEF RowInv
  <1> QED
    BY <1>1, <1>2, <1>3, <1>4, <1>5, <1>6, <1>7, <1>y DEF QueueAnswered, PostRow

\* and leaves the row.
LEMMA FinishJobKept ==
  ASSUME LiveInv, NEW r \in Ingestions, FinishJob(r)
  PROVE  LiveInv'
  <1>t. LiveTypes /\ CountIsKept /\ RowTyped(r)
    BY TypedRows DEF LiveInv
  <1>r. RowInv(r)
    BY DEF LiveInv
  <1>o. RouteOrder(r) /\ custom \subseteq Routes
    BY <1>t, RoutesOrdered DEF LiveTypes
  <1>y. /\ job \in [Ingestions -> JobRow] /\ post \in [Ingestions -> PostRow]
        /\ job[r] \in JobRow /\ post[r] \in PostRow /\ r \in Ingestions
        /\ job[r].dest \in [Routes -> DestStates] /\ job[r].id \in [Routes -> KnownIds]
        /\ post[r].at + 1 \in Nat /\ job[r].tries + 1 \in Nat
    BY <1>t DEF LiveTypes, RowTyped
  <1>1. CASE SetJob(r, "uncertain") /\ Doubtful(r)
    <2>1. post[r].pc \in {"posted", "failed"} /\ post[r].by = "queue" /\
              (\E e \in Routes : job[r].dest[e] = "uncertain")
      BY <1>1 DEF FinishJob, Doubtful
    <2>2. job' = [job EXCEPT ![r] = [job[r] EXCEPT !.status = "uncertain"]]
      BY <1>1 DEF FinishJob, SetJob
    <2>3. /\ job'[r] \in JobRow /\ job'[r].status = "uncertain" /\ job'[r].stage = job[r].stage
          /\ job'[r].path = job[r].path /\ job'[r].tries = job[r].tries
          /\ job'[r].dest = job[r].dest /\ job'[r].id = job[r].id
          /\ \A q \in Ingestions : q # r => job'[q] = job[q]
          /\ job' \in [Ingestions -> JobRow]
      BY <1>y, <2>2 DEF JobRow
    <2>4. post' = [post EXCEPT ![r] = Silent]
      BY <1>1 DEF FinishJob, Leave
    <2>5. /\ post'[r] \in PostRow /\ post'[r].pc = "off" /\ post'[r].by = "none" /\ post'[r].at = 0
          /\ post'[r].error = "none" /\ post'[r].id = "none" /\ post'[r].upload = FALSE
          /\ \A q \in Ingestions : q # r => post'[q] = post[q]
          /\ post' \in [Ingestions -> PostRow]
      BY <1>y, <2>4 DEF PostRow, KnownIds, Silent
    <2>6. UNCHANGED <<custom, message, entry, settler, bare, right, vouched, excused, deletedFor>>
      BY <1>1 DEF FinishJob, shown, record, budget
    <2>7. /\ \A e \in Routes : (Present(r, e)' <=> Present(r, e)) /\ (AtMostOne(r, e)' <=> AtMostOne(r, e))
          /\ \A e \in Routes : AsWanted(r, e)' <=> AsWanted(r, e)
      BY <2>6 DEF Present, AtMostOne, AsWanted
    <2>8. /\ PostIsHeld(r)' /\ RowIsNew(r)' /\ DirectIsFirst(r)' /\ DoubtIsHeld(r)'
          /\ AnswerIsTrue(r)'
      BY <1>r, <2>1, <2>3, <2>5, <2>6, <2>7, <1>1 DEF RowInv, PostIsHeld, AtRoute, RowIsNew,
         DirectIsFirst, DoubtIsHeld, AnswerIsTrue, Edits, Native
    <2>9. /\ KnownIsThere(r)' /\ AheadIsUnsent(r)' /\ TargetIsUnsent(r)' /\ CaptionsAreKnown(r)'
          /\ DeletedIsOver(r)'
      BY <1>r, <2>1, <2>3, <2>5, <2>6, <2>7, <1>1 DEF RowInv, KnownIsThere, AtRoute, AheadIsUnsent,
         Unsent, Ahead, TargetIsUnsent, Native, Edits, CaptionsAreKnown, DeletedIsOver
    <2>10. RowIsDelivered(r)' /\ RowIsShown(r)' /\ RowIsSentOnce(r)'
      BY <1>r, <2>1, <2>3, <2>5, <2>6, <2>7, <1>1 DEF RowInv, RowIsDelivered, RowIsShown,
         RowIsSentOnce
    <2>11. LiveTypes' /\ CountIsKept' /\ OnlyRow(r)
      BY <1>t, <2>3, <2>5, <2>6, <2>1, <1>1 DEF OnlyRow, LiveTypes, CountIsKept
    <2> QED
      BY <1>t, <2>8, <2>9, <2>10, <2>11, OneRow DEF RowInv
  <1>2. CASE SetJob(r, "forwarded") /\ ~Doubtful(r) /\ post[r].pc = "posted"
    <2>1. post[r].pc \in {"posted", "failed"} /\ post[r].by = "queue" /\
              (\A e \in Routes : job[r].dest[e] # "uncertain") /\ (post[r].pc = "posted")
      BY <1>2 DEF FinishJob, Doubtful
    <2>2. job' = [job EXCEPT ![r] = [job[r] EXCEPT !.status = "forwarded"]]
      BY <1>2 DEF FinishJob, SetJob
    <2>3. /\ job'[r] \in JobRow /\ job'[r].status = "forwarded" /\ job'[r].stage = job[r].stage
          /\ job'[r].path = job[r].path /\ job'[r].tries = job[r].tries
          /\ job'[r].dest = job[r].dest /\ job'[r].id = job[r].id
          /\ \A q \in Ingestions : q # r => job'[q] = job[q]
          /\ job' \in [Ingestions -> JobRow]
      BY <1>y, <2>2 DEF JobRow
    <2>4. post' = [post EXCEPT ![r] = Silent]
      BY <1>2 DEF FinishJob, Leave
    <2>5. /\ post'[r] \in PostRow /\ post'[r].pc = "off" /\ post'[r].by = "none" /\ post'[r].at = 0
          /\ post'[r].error = "none" /\ post'[r].id = "none" /\ post'[r].upload = FALSE
          /\ \A q \in Ingestions : q # r => post'[q] = post[q]
          /\ post' \in [Ingestions -> PostRow]
      BY <1>y, <2>4 DEF PostRow, KnownIds, Silent
    <2>6. UNCHANGED <<custom, message, entry, settler, bare, right, vouched, excused, deletedFor>>
      BY <1>2 DEF FinishJob, shown, record, budget
    <2>7. /\ \A e \in Routes : (Present(r, e)' <=> Present(r, e)) /\ (AtMostOne(r, e)' <=> AtMostOne(r, e))
          /\ \A e \in Routes : AsWanted(r, e)' <=> AsWanted(r, e)
      BY <2>6 DEF Present, AtMostOne, AsWanted
    <2>8. /\ PostIsHeld(r)' /\ DirectIsFirst(r)' /\ DoubtIsHeld(r)' /\ AnswerIsTrue(r)'
          /\ KnownIsThere(r)'
      BY <1>r, <2>1, <2>3, <2>5, <2>6, <2>7, <1>2 DEF RowInv, PostIsHeld, AtRoute, DirectIsFirst,
         DoubtIsHeld, AnswerIsTrue, Edits, Native, KnownIsThere
    <2>9. /\ AheadIsUnsent(r)' /\ TargetIsUnsent(r)' /\ CaptionsAreKnown(r)' /\ DeletedIsOver(r)'
          /\ RowIsDelivered(r)'
      BY <1>r, <2>1, <2>3, <2>5, <2>6, <2>7, <1>2 DEF RowInv, AheadIsUnsent, Unsent, Ahead, AtRoute,
         TargetIsUnsent, Native, Edits, CaptionsAreKnown, DeletedIsOver, RowIsDelivered
    <2>10. RowIsShown(r)' /\ RowIsSentOnce(r)'
      BY <1>r, <2>1, <2>3, <2>5, <2>6, <2>7, <1>2 DEF RowInv, RowIsShown, RowIsSentOnce
    <2>11. RowIsNew(r)'
      BY <1>r, <2>1, <2>3, <2>5, <2>6, <2>7, <1>2 DEF RowInv, RowIsNew, PostIsHeld, AtRoute
    <2>12. LiveTypes' /\ CountIsKept' /\ OnlyRow(r)
      BY <1>t, <2>3, <2>5, <2>6, <2>1, <1>2 DEF OnlyRow, LiveTypes, CountIsKept
    <2> QED
      BY <1>t, <2>8, <2>9, <2>10, <2>11, <2>12, OneRow DEF RowInv
  <1>3. CASE SetJob(r, "pending") /\ ~Doubtful(r) /\ post[r].pc = "failed"
    <2>1. post[r].pc \in {"posted", "failed"} /\ post[r].by = "queue" /\
              (\A e \in Routes : job[r].dest[e] # "uncertain") /\ (post[r].pc = "failed")
      BY <1>3 DEF FinishJob, Doubtful
    <2>2. job' = [job EXCEPT ![r] = [job[r] EXCEPT !.status = "pending"]]
      BY <1>3 DEF FinishJob, SetJob
    <2>3. /\ job'[r] \in JobRow /\ job'[r].status = "pending" /\ job'[r].stage = job[r].stage
          /\ job'[r].path = job[r].path /\ job'[r].tries = job[r].tries
          /\ job'[r].dest = job[r].dest /\ job'[r].id = job[r].id
          /\ \A q \in Ingestions : q # r => job'[q] = job[q]
          /\ job' \in [Ingestions -> JobRow]
      BY <1>y, <2>2 DEF JobRow
    <2>4. post' = [post EXCEPT ![r] = Silent]
      BY <1>3 DEF FinishJob, Leave
    <2>5. /\ post'[r] \in PostRow /\ post'[r].pc = "off" /\ post'[r].by = "none" /\ post'[r].at = 0
          /\ post'[r].error = "none" /\ post'[r].id = "none" /\ post'[r].upload = FALSE
          /\ \A q \in Ingestions : q # r => post'[q] = post[q]
          /\ post' \in [Ingestions -> PostRow]
      BY <1>y, <2>4 DEF PostRow, KnownIds, Silent
    <2>6. UNCHANGED <<custom, message, entry, settler, bare, right, vouched, excused, deletedFor>>
      BY <1>3 DEF FinishJob, shown, record, budget
    <2>7. /\ \A e \in Routes : (Present(r, e)' <=> Present(r, e)) /\ (AtMostOne(r, e)' <=> AtMostOne(r, e))
          /\ \A e \in Routes : AsWanted(r, e)' <=> AsWanted(r, e)
      BY <2>6 DEF Present, AtMostOne, AsWanted
    <2>8. /\ PostIsHeld(r)' /\ DirectIsFirst(r)' /\ DoubtIsHeld(r)' /\ AnswerIsTrue(r)'
          /\ KnownIsThere(r)'
      BY <1>r, <2>1, <2>3, <2>5, <2>6, <2>7, <1>3 DEF RowInv, PostIsHeld, AtRoute, DirectIsFirst,
         DoubtIsHeld, AnswerIsTrue, Edits, Native, KnownIsThere
    <2>9. /\ TargetIsUnsent(r)' /\ CaptionsAreKnown(r)' /\ RowIsDelivered(r)' /\ RowIsShown(r)'
          /\ RowIsSentOnce(r)'
      BY <1>r, <2>1, <2>3, <2>5, <2>6, <2>7, <1>3 DEF RowInv, TargetIsUnsent, Unsent, Native, Edits,
         CaptionsAreKnown, AtRoute, RowIsDelivered, RowIsShown, RowIsSentOnce
    <2>10. RowIsNew(r)'
      BY <1>r, <2>1, <2>3, <2>5, <2>6, <2>7, <1>3 DEF RowInv, RowIsNew, PostIsHeld, AtRoute
    <2>11. AheadIsUnsent(r)'
      BY <1>o, <1>r, <2>1, <2>3, <2>5, <2>6, <2>7, <1>3 DEF RowInv, AheadIsUnsent, Unsent, Ahead,
         AtRoute, PostIsHeld, DirectIsFirst, TargetIsUnsent, Native, Edits, AnswerIsTrue, RouteOrder
    <2>12. DeletedIsOver(r)'
      BY <1>r, <2>1, <2>3, <2>5, <2>6, <2>7, <1>3 DEF RowInv, DeletedIsOver, PostIsHeld, AtRoute,
         AnswerIsTrue, Edits, Native
    <2>13. LiveTypes' /\ CountIsKept' /\ OnlyRow(r)
      BY <1>t, <2>3, <2>5, <2>6, <2>1, <1>3 DEF OnlyRow, LiveTypes, CountIsKept
    <2> QED
      BY <1>t, <2>8, <2>9, <2>10, <2>11, <2>12, <2>13, OneRow DEF RowInv
  <1>4. CASE SetJob(r, "failed") /\ ~Doubtful(r) /\ post[r].pc = "failed"
    <2>1. post[r].pc \in {"posted", "failed"} /\ post[r].by = "queue" /\
              (\A e \in Routes : job[r].dest[e] # "uncertain") /\ (post[r].pc = "failed")
      BY <1>4 DEF FinishJob, Doubtful
    <2>2. job' = [job EXCEPT ![r] = [job[r] EXCEPT !.status = "failed"]]
      BY <1>4 DEF FinishJob, SetJob
    <2>3. /\ job'[r] \in JobRow /\ job'[r].status = "failed" /\ job'[r].stage = job[r].stage
          /\ job'[r].path = job[r].path /\ job'[r].tries = job[r].tries
          /\ job'[r].dest = job[r].dest /\ job'[r].id = job[r].id
          /\ \A q \in Ingestions : q # r => job'[q] = job[q]
          /\ job' \in [Ingestions -> JobRow]
      BY <1>y, <2>2 DEF JobRow
    <2>4. post' = [post EXCEPT ![r] = Silent]
      BY <1>4 DEF FinishJob, Leave
    <2>5. /\ post'[r] \in PostRow /\ post'[r].pc = "off" /\ post'[r].by = "none" /\ post'[r].at = 0
          /\ post'[r].error = "none" /\ post'[r].id = "none" /\ post'[r].upload = FALSE
          /\ \A q \in Ingestions : q # r => post'[q] = post[q]
          /\ post' \in [Ingestions -> PostRow]
      BY <1>y, <2>4 DEF PostRow, KnownIds, Silent
    <2>6. UNCHANGED <<custom, message, entry, settler, bare, right, vouched, excused, deletedFor>>
      BY <1>4 DEF FinishJob, shown, record, budget
    <2>7. /\ \A e \in Routes : (Present(r, e)' <=> Present(r, e)) /\ (AtMostOne(r, e)' <=> AtMostOne(r, e))
          /\ \A e \in Routes : AsWanted(r, e)' <=> AsWanted(r, e)
      BY <2>6 DEF Present, AtMostOne, AsWanted
    <2>8. /\ PostIsHeld(r)' /\ DirectIsFirst(r)' /\ DoubtIsHeld(r)' /\ AnswerIsTrue(r)'
          /\ KnownIsThere(r)'
      BY <1>r, <2>1, <2>3, <2>5, <2>6, <2>7, <1>4 DEF RowInv, PostIsHeld, AtRoute, DirectIsFirst,
         DoubtIsHeld, AnswerIsTrue, Edits, Native, KnownIsThere
    <2>9. /\ TargetIsUnsent(r)' /\ CaptionsAreKnown(r)' /\ RowIsDelivered(r)' /\ RowIsShown(r)'
          /\ RowIsSentOnce(r)'
      BY <1>r, <2>1, <2>3, <2>5, <2>6, <2>7, <1>4 DEF RowInv, TargetIsUnsent, Unsent, Native, Edits,
         CaptionsAreKnown, AtRoute, RowIsDelivered, RowIsShown, RowIsSentOnce
    <2>10. RowIsNew(r)'
      BY <1>r, <2>1, <2>3, <2>5, <2>6, <2>7, <1>4 DEF RowInv, RowIsNew, PostIsHeld, AtRoute
    <2>11. AheadIsUnsent(r)'
      BY <1>o, <1>r, <2>1, <2>3, <2>5, <2>6, <2>7, <1>4 DEF RowInv, AheadIsUnsent, Unsent, Ahead,
         AtRoute, PostIsHeld, DirectIsFirst, TargetIsUnsent, Native, Edits, AnswerIsTrue, RouteOrder
    <2>12. DeletedIsOver(r)'
      BY <1>r, <2>1, <2>3, <2>5, <2>6, <2>7, <1>4 DEF RowInv, DeletedIsOver, PostIsHeld, AtRoute,
         AnswerIsTrue, Edits, Native
    <2>13. LiveTypes' /\ CountIsKept' /\ OnlyRow(r)
      BY <1>t, <2>3, <2>5, <2>6, <2>1, <1>4 DEF OnlyRow, LiveTypes, CountIsKept
    <2> QED
      BY <1>t, <2>8, <2>9, <2>10, <2>11, <2>12, <2>13, OneRow DEF RowInv
  <1> QED
    BY <1>1, <1>2, <1>3, <1>4 DEF FinishJob

\* The operator retries what has failed
LEMMA RetryJobKept ==
  ASSUME LiveInv, NEW r \in Ingestions, RetryJob(r)
  PROVE  LiveInv'
  <1>t. LiveTypes /\ CountIsKept /\ RowTyped(r)
    BY TypedRows DEF LiveInv
  <1>r. RowInv(r)
    BY DEF LiveInv
  <1>o. RouteOrder(r) /\ custom \subseteq Routes
    BY <1>t, RoutesOrdered DEF LiveTypes
  <1>y. /\ job \in [Ingestions -> JobRow] /\ post \in [Ingestions -> PostRow]
        /\ job[r] \in JobRow /\ post[r] \in PostRow /\ r \in Ingestions
        /\ job[r].dest \in [Routes -> DestStates] /\ job[r].id \in [Routes -> KnownIds]
        /\ post[r].at + 1 \in Nat /\ job[r].tries + 1 \in Nat
    BY <1>t DEF LiveTypes, RowTyped
  <1>1. job[r].status = "failed"
    BY DEF RetryJob
  <1>2. job' = [job EXCEPT ![r] = [job[r] EXCEPT !.status = "pending"]]
    BY DEF RetryJob, SetJob
  <1>3. /\ job'[r] \in JobRow /\ job'[r].status = "pending" /\ job'[r].stage = job[r].stage
        /\ job'[r].path = job[r].path /\ job'[r].tries = job[r].tries /\ job'[r].dest = job[r].dest
        /\ job'[r].id = job[r].id
        /\ \A q \in Ingestions : q # r => job'[q] = job[q]
        /\ job' \in [Ingestions -> JobRow]
    BY <1>y, <1>2 DEF JobRow
  <1>4. UNCHANGED <<custom, message, entry, post, settler, bare, right, vouched, excused, deletedFor>>
    BY DEF RetryJob, shown, record, budget
  <1>5. /\ \A e \in Routes : (Present(r, e)' <=> Present(r, e)) /\ (AtMostOne(r, e)' <=> AtMostOne(r, e))
        /\ \A e \in Routes : AsWanted(r, e)' <=> AsWanted(r, e)
    BY <1>4 DEF Present, AtMostOne, AsWanted
  <1>6. /\ PostIsHeld(r)' /\ RowIsNew(r)' /\ DirectIsFirst(r)' /\ DoubtIsHeld(r)'
        /\ AnswerIsTrue(r)'
    BY <1>r, <1>1, <1>3, <1>4, <1>5 DEF RowInv, PostIsHeld, AtRoute, RowIsNew, DirectIsFirst,
       DoubtIsHeld, AnswerIsTrue, Edits, Native
  <1>7. /\ KnownIsThere(r)' /\ AheadIsUnsent(r)' /\ TargetIsUnsent(r)' /\ CaptionsAreKnown(r)'
        /\ DeletedIsOver(r)'
    BY <1>r, <1>1, <1>3, <1>4, <1>5 DEF RowInv, KnownIsThere, AtRoute, AheadIsUnsent, Unsent, Ahead,
       TargetIsUnsent, Native, Edits, CaptionsAreKnown, DeletedIsOver
  <1>8. RowIsDelivered(r)' /\ RowIsShown(r)' /\ RowIsSentOnce(r)'
    BY <1>r, <1>1, <1>3, <1>4, <1>5 DEF RowInv, RowIsDelivered, RowIsShown, RowIsSentOnce
  <1>9. LiveTypes' /\ CountIsKept' /\ OnlyRow(r)
    BY <1>t, <1>3, <1>4, <1>1 DEF OnlyRow, LiveTypes, CountIsKept
  <1> QED
    BY <1>t, <1>6, <1>7, <1>8, <1>9, OneRow DEF RowInv

\* or settles what is in doubt.
LEMMA ReconcileJobKept ==
  ASSUME LiveInv, NEW r \in Ingestions, NEW sent \in BOOLEAN,
             NEW scope \in {Routes} \cup {{d} : d \in Routes}, ReconcileJob(r, sent, scope)
  PROVE  LiveInv'
  <1> DEFINE doubt == {d \in Routes : job[r].dest[d] \in {"pending", "processing", "uncertain"}}
             chosen == IF doubt = {} /\ scope = Routes /\ ~sent
                 THEN {d \in Routes : job[r].dest[d] # "forwarded"}
                       ELSE doubt \cap scope
             dest == [d \in Routes |-> IF d \in chosen THEN IF sent THEN "forwarded" ELSE "pending"
                                       ELSE IF d \in doubt THEN "uncertain" ELSE job[r].dest[d]]
             status == IF \E d \in Routes : dest[d] = "uncertain" THEN "uncertain"
                       ELSE IF \A d \in Routes : dest[d] = "forwarded" THEN "forwarded" ELSE "pending"
  <1>a. /\ job' = [job EXCEPT ![r].dest = dest, ![r].status = status]
        /\ vouched' = IF sent THEN vouched \cup ({r} \X chosen) ELSE vouched
        /\ excused' = IF sent THEN excused ELSE excused \cup ({r} \X chosen)
    BY DEF ReconcileJob
  <1>b. job[r].dest \in [Routes -> DestStates]
    BY TypedRows DEF LiveInv, RowTyped
  <1>c. dest \in [Routes -> DestStates] /\ chosen \subseteq Routes
    BY <1>b DEF DestStates
  <1>d. \A e \in Routes :
          /\ dest[e] = "forwarded" => job[r].dest[e] = "forwarded" \/ (sent /\ e \in chosen)
          /\ dest[e] = "pending" => ~sent /\ e \in chosen
          /\ dest[e] = "failed" => job[r].dest[e] = "failed"
          /\ dest[e] # "processing"
    BY <1>b DEF DestStates
  <1> HIDE DEF doubt, chosen, dest
  <1>e. /\ status \in {"uncertain", "forwarded", "pending"}
        /\ status # "uncertain" => \A e \in Routes : dest[e] # "uncertain"
    OBVIOUS
  <1>f. /\ \A q \in Ingestions, e \in Routes : q # r =>
             /\ <<q, e>> \in vouched' <=> <<q, e>> \in vouched
             /\ <<q, e>> \in excused' <=> <<q, e>> \in excused
        /\ \A e \in Routes :
             /\ <<r, e>> \in vouched' <=> <<r, e>> \in vouched \/ (sent /\ e \in chosen)
             /\ <<r, e>> \in excused' <=> <<r, e>> \in excused \/ (~sent /\ e \in chosen)
    BY <1>a
  <1> HIDE DEF status
  <1>t. LiveTypes /\ CountIsKept /\ RowTyped(r)
    BY TypedRows DEF LiveInv
  <1>r. RowInv(r)
    BY DEF LiveInv
  <1>o. RouteOrder(r) /\ custom \subseteq Routes
    BY <1>t, RoutesOrdered DEF LiveTypes
  <1>y. /\ job \in [Ingestions -> JobRow] /\ post \in [Ingestions -> PostRow]
        /\ job[r] \in JobRow /\ post[r] \in PostRow /\ r \in Ingestions
        /\ job[r].dest \in [Routes -> DestStates] /\ job[r].id \in [Routes -> KnownIds]
        /\ post[r].at + 1 \in Nat /\ job[r].tries + 1 \in Nat
    BY <1>t DEF LiveTypes, RowTyped
  <1>1. job[r].status = "uncertain"
    BY DEF ReconcileJob
  <1>2. job' = [job EXCEPT ![r].dest = dest, ![r].status = status]
    BY <1>a
  <1>3. job' = [job EXCEPT ![r] = [job[r] EXCEPT !.dest = dest, !.status = status]]
    BY <1>y, <1>2
  <1>4. /\ job'[r] \in JobRow /\ job'[r].status = status /\ job'[r].stage = job[r].stage
        /\ job'[r].path = job[r].path /\ job'[r].tries = job[r].tries /\ job'[r].dest = dest
        /\ job'[r].id = job[r].id
        /\ \A q \in Ingestions : q # r => job'[q] = job[q]
        /\ job' \in [Ingestions -> JobRow]
    BY <1>y, <1>3, <1>c, <1>e DEF JobRow
  <1>5. UNCHANGED <<custom, message, entry, post, settler, bare, right, deletedFor>>
    BY DEF ReconcileJob, shown, record, budget
  <1>6. /\ \A e \in Routes : (Present(r, e)' <=> Present(r, e)) /\ (AtMostOne(r, e)' <=> AtMostOne(r, e))
        /\ \A e \in Routes : AsWanted(r, e)' <=> AsWanted(r, e)
    BY <1>5 DEF Present, AtMostOne, AsWanted
  <1>7. /\ PostIsHeld(r)' /\ RowIsNew(r)' /\ DirectIsFirst(r)' /\ AnswerIsTrue(r)'
        /\ KnownIsThere(r)'
    BY <1>r, <1>1, <1>4, <1>5, <1>6, <1>d, <1>e, <1>f DEF RowInv, PostIsHeld, AtRoute, RowIsNew,
       DirectIsFirst, AnswerIsTrue, Edits, Native, KnownIsThere
  <1>8. TargetIsUnsent(r)' /\ DeletedIsOver(r)' /\ RowIsSentOnce(r)'
    BY <1>r, <1>1, <1>4, <1>5, <1>6, <1>d, <1>e, <1>f DEF RowInv, TargetIsUnsent, Unsent, Native,
       Edits, DeletedIsOver, RowIsSentOnce
  <1>9. DoubtIsHeld(r)'
    BY <1>r, <1>1, <1>4, <1>5, <1>6, <1>d, <1>e, <1>f DEF RowInv, DoubtIsHeld, PostIsHeld, AtRoute
  <1>10. AheadIsUnsent(r)'
    BY <1>o, <1>r, <1>1, <1>4, <1>5, <1>6, <1>d, <1>e, <1>f DEF RowInv, AheadIsUnsent, Unsent,
       Ahead, AtRoute, PostIsHeld, DirectIsFirst, TargetIsUnsent, Native, Edits, AnswerIsTrue,
       RouteOrder
  <1>11. CaptionsAreKnown(r)'
    BY <1>o, <1>r, <1>1, <1>4, <1>5, <1>6, <1>d, <1>e, <1>f DEF RowInv, CaptionsAreKnown, AtRoute,
       PostIsHeld, RouteOrder
  <1>12. RowIsDelivered(r)'
    BY <1>r, <1>1, <1>4, <1>5, <1>6, <1>d, <1>e, <1>f DEF RowInv, RowIsDelivered, DeletedIsOver
  <1>13. RowIsShown(r)'
    BY <1>r, <1>1, <1>4, <1>5, <1>6, <1>d, <1>e, <1>f DEF RowInv, RowIsShown, AnswerIsTrue, Edits,
       Native
  <1>14. LiveTypes' /\ CountIsKept' /\ OnlyRow(r)
    BY <1>t, <1>4, <1>5, <1>d, <1>e, <1>f, <1>1 DEF OnlyRow, LiveTypes, CountIsKept
  <1> QED
    BY <1>t, <1>7, <1>8, <1>9, <1>10, <1>11, <1>12, <1>13, <1>14, OneRow DEF RowInv

\* The message is taken in, and its row reserved,
LEMMA BeginIngestKept ==
  ASSUME LiveInv, NEW direct \in BOOLEAN, BeginIngest(direct)
  PROVE  LiveInv'
  <1>0. message.count + 1 \in Ingestions
    BY LiveForwardAssumption DEF BeginIngest, LiveInv, LiveTypes, CountIsKept, MessageRow, Ingestions,
       LiveForwardAssumption
  <1> SUFFICES ASSUME NEW r \in Ingestions, r = message.count + 1 PROVE LiveInv'
    BY <1>0
  <1>t. LiveTypes /\ CountIsKept /\ RowTyped(r)
    BY TypedRows DEF LiveInv
  <1>r. RowInv(r)
    BY DEF LiveInv
  <1>o. RouteOrder(r) /\ custom \subseteq Routes
    BY <1>t, RoutesOrdered DEF LiveTypes
  <1>y. /\ job \in [Ingestions -> JobRow] /\ post \in [Ingestions -> PostRow]
        /\ job[r] \in JobRow /\ post[r] \in PostRow /\ r \in Ingestions
        /\ job[r].dest \in [Routes -> DestStates] /\ job[r].id \in [Routes -> KnownIds]
        /\ post[r].at + 1 \in Nat /\ job[r].tries + 1 \in Nat
    BY <1>t DEF LiveTypes, RowTyped
  <1>1. CASE entry = 0 /\ direct
    <2>1. message.pc = "queued" /\ r > message.count
      BY <1>1, <1>t DEF BeginIngest, RowTyped
    <2>2. job' = [job EXCEPT ![r] = [job[r] EXCEPT !.status = "processing", !.stage = "native_forward"]]
      BY <1>1 DEF BeginIngest
    <2>3. /\ job'[r] \in JobRow /\ job'[r].status = "processing" /\ job'[r].stage = "native_forward"
          /\ job'[r].path = job[r].path /\ job'[r].tries = job[r].tries
          /\ job'[r].dest = job[r].dest /\ job'[r].id = job[r].id
          /\ \A q \in Ingestions : q # r => job'[q] = job[q]
          /\ job' \in [Ingestions -> JobRow]
      BY <1>y, <2>2 DEF JobRow
    <2>4. post' = [post EXCEPT ![r] = [Silent EXCEPT !.pc = "next", !.by = "direct", !.at = 1]]
      BY <1>1 DEF BeginIngest
    <2>5. /\ post'[r] = [Silent EXCEPT !.pc = "next", !.by = "direct", !.at = 1]
          /\ \A q \in Ingestions : q # r => post'[q] = post[q]
      BY <1>y, <2>4
    <2>6. /\ post'[r] \in PostRow /\ post'[r].pc = "next" /\ post'[r].by = "direct"
          /\ post'[r].at = 1 /\ post'[r].error = "none" /\ post'[r].id = "none"
          /\ post'[r].upload = FALSE
      BY <2>5, DirectRow
    <2>7. post' \in [Ingestions -> PostRow]
      BY <1>y, <2>4, <2>5, <2>6
    <2>8. UNCHANGED <<custom, entry, settler, bare, right, vouched, excused, deletedFor>>
      BY <1>1 DEF BeginIngest, shown, record, budget
    <2>9. /\ \A e \in Routes : (Present(r, e)' <=> Present(r, e)) /\ (AtMostOne(r, e)' <=> AtMostOne(r, e))
          /\ \A e \in Routes : AsWanted(r, e)' <=> AsWanted(r, e)
      BY <2>8 DEF Present, AtMostOne, AsWanted
    <2>10. /\ message' \in MessageRow /\ message'.pc = "ingest" /\ message'.count = r
        /\ message'.count >= message.count /\ message'.count # 0
      BY <1>1, <2>1, <1>t, LiveForwardAssumption DEF BeginIngest, LiveTypes, MessageRow, RowTyped,
         Ingestions, LiveForwardAssumption
    <2>11. entry' \in 0..MaxLiveIngests /\ entry' <= message'.count
      BY <1>1, <2>1, <1>t, LiveForwardAssumption DEF BeginIngest, LiveTypes, CountIsKept,
         MessageRow, RowTyped, Ingestions, LiveForwardAssumption
    <2>12. /\ AnswerIsTrue(r)' /\ KnownIsThere(r)' /\ TargetIsUnsent(r)' /\ CaptionsAreKnown(r)'
           /\ RowIsDelivered(r)'
      BY <1>r, <2>1, <2>3, <2>6, <2>8, <2>9, <2>10, <2>11, <1>1 DEF RowInv, AnswerIsTrue, Edits,
         Native, KnownIsThere, AtRoute, TargetIsUnsent, Unsent, CaptionsAreKnown, RowIsDelivered
    <2>13. RowIsShown(r)' /\ RowIsSentOnce(r)'
      BY <1>r, <2>1, <2>3, <2>6, <2>8, <2>9, <2>10, <2>11, <1>1 DEF RowInv, RowIsShown,
         RowIsSentOnce
    <2>14. PostIsHeld(r)'
      BY <1>t, <1>o, <1>r, <2>1, <2>3, <2>6, <2>8, <2>9, <2>10, <2>11, <1>1 DEF RowInv, PostIsHeld,
         AtRoute, RowIsNew, RouteOrder, RowTyped
    <2>15. RowIsNew(r)'
      BY <1>t, <1>r, <2>1, <2>3, <2>6, <2>8, <2>9, <2>10, <2>11, <1>1 DEF RowInv, RowIsNew, RowTyped
    <2>16. DirectIsFirst(r)'
      BY <1>o, <1>r, <2>1, <2>3, <2>6, <2>8, <2>9, <2>10, <2>11, <1>1 DEF RowInv, DirectIsFirst,
         RowIsNew, RouteOrder
    <2>17. DoubtIsHeld(r)'
      BY <1>r, <2>1, <2>3, <2>6, <2>8, <2>9, <2>10, <2>11, <1>1 DEF RowInv, DoubtIsHeld, RowIsNew
    <2>18. AheadIsUnsent(r)'
      BY <1>o, <1>r, <2>1, <2>3, <2>6, <2>8, <2>9, <2>10, <2>11, <1>1 DEF RowInv, AheadIsUnsent,
         Unsent, Ahead, AtRoute, RowIsNew, RouteOrder
    <2>19. DeletedIsOver(r)'
      BY <1>r, <2>1, <2>3, <2>6, <2>8, <2>9, <2>10, <2>11, <1>1 DEF RowInv, DeletedIsOver, RowIsNew
    <2>20. LiveTypes' /\ CountIsKept' /\ OnlyRow(r)
      BY <1>t, <2>3, <2>5, <2>7, <2>8, <2>10, <2>11, <2>1, <1>1 DEF OnlyRow, LiveTypes, CountIsKept
    <2> QED
      BY <1>t, <2>12, <2>13, <2>14, <2>15, <2>16, <2>17, <2>18, <2>19, <2>20, OneRow DEF RowInv
  <1>2. CASE ~(entry = 0 /\ direct)
    <2>1. message.pc = "queued" /\ r > message.count
      BY <1>2, <1>t DEF BeginIngest, RowTyped
    <2>2. UNCHANGED <<custom, entry, job, post, settler, bare, right, vouched, excused, deletedFor>>
      BY <1>2 DEF BeginIngest, shown, record, budget
    <2>3. /\ \A e \in Routes : (Present(r, e)' <=> Present(r, e)) /\ (AtMostOne(r, e)' <=> AtMostOne(r, e))
          /\ \A e \in Routes : AsWanted(r, e)' <=> AsWanted(r, e)
      BY <2>2 DEF Present, AtMostOne, AsWanted
    <2>4. /\ message' \in MessageRow /\ message'.pc = "ingest" /\ message'.count = r
        /\ message'.count >= message.count /\ message'.count # 0
      BY <1>2, <2>1, <1>t, LiveForwardAssumption DEF BeginIngest, LiveTypes, MessageRow, RowTyped,
         Ingestions, LiveForwardAssumption
    <2>5. entry' \in 0..MaxLiveIngests /\ entry' <= message'.count
      BY <1>2, <2>1, <1>t, LiveForwardAssumption DEF BeginIngest, LiveTypes, CountIsKept,
         MessageRow, RowTyped, Ingestions, LiveForwardAssumption
    <2>6. /\ PostIsHeld(r)' /\ RowIsNew(r)' /\ DirectIsFirst(r)' /\ DoubtIsHeld(r)'
          /\ AnswerIsTrue(r)' /\ KnownIsThere(r)' /\ AheadIsUnsent(r)' /\ TargetIsUnsent(r)'
          /\ CaptionsAreKnown(r)' /\ RowIsDelivered(r)' /\ RowIsShown(r)' /\ RowIsSentOnce(r)'
      BY <1>r, <2>1, <2>2, <2>3, <2>4, <2>5, <1>2 DEF RowInv, PostIsHeld, AtRoute, RowIsNew,
         DirectIsFirst, DoubtIsHeld, AnswerIsTrue, Edits, Native, KnownIsThere, AheadIsUnsent,
         Unsent, Ahead, TargetIsUnsent, CaptionsAreKnown, RowIsDelivered, RowIsShown, RowIsSentOnce
    <2>7. DeletedIsOver(r)'
      BY <1>o, <1>r, <2>1, <2>2, <2>3, <2>4, <2>5, <1>2 DEF RowInv, DeletedIsOver, PostIsHeld,
         AtRoute, RowIsNew, DirectIsFirst, DoubtIsHeld, AnswerIsTrue, Edits, Native, KnownIsThere,
         AheadIsUnsent, Unsent, Ahead, TargetIsUnsent, CaptionsAreKnown, RowIsDelivered, RowIsShown,
         RowIsSentOnce, RouteOrder
    <2>8. LiveTypes' /\ CountIsKept' /\ OnlyRow(r)
      BY <1>t, <2>2, <2>4, <2>5, <2>1, <1>2 DEF OnlyRow, LiveTypes, CountIsKept
    <2> QED
      BY <1>t, <2>6, <2>7, <2>8, OneRow DEF RowInv
  <1> QED
    BY <1>1, <1>2 DEF BeginIngest

\* the download is there,
LEMMA IngestDoneKept ==
  ASSUME LiveInv, IngestDone
  PROVE  LiveInv'
  <1>0. message.count \in Ingestions
    BY LiveForwardAssumption DEF IngestDone, LiveInv, LiveTypes, CountIsKept, MessageRow, Ingestions,
       LiveForwardAssumption
  <1> SUFFICES ASSUME NEW r \in Ingestions, r = message.count PROVE LiveInv'
    BY <1>0
  <1>t. LiveTypes /\ CountIsKept /\ RowTyped(r)
    BY TypedRows DEF LiveInv
  <1>r. RowInv(r)
    BY DEF LiveInv
  <1>o. RouteOrder(r) /\ custom \subseteq Routes
    BY <1>t, RoutesOrdered DEF LiveTypes
  <1>y. /\ job \in [Ingestions -> JobRow] /\ post \in [Ingestions -> PostRow]
        /\ job[r] \in JobRow /\ post[r] \in PostRow /\ r \in Ingestions
        /\ job[r].dest \in [Routes -> DestStates] /\ job[r].id \in [Routes -> KnownIds]
        /\ post[r].at + 1 \in Nat /\ job[r].tries + 1 \in Nat
    BY <1>t DEF LiveTypes, RowTyped
  <1>1. CASE Reserved(r)
    <2>1. message.pc = "ingest"
      BY <1>1 DEF IngestDone
    <2>2. UNCHANGED <<custom, job, post, bare, right, vouched, excused, deletedFor>>
      BY <1>1 DEF IngestDone, shown, record, budget
    <2>3. /\ \A e \in Routes : (Present(r, e)' <=> Present(r, e)) /\ (AtMostOne(r, e)' <=> AtMostOne(r, e))
          /\ \A e \in Routes : AsWanted(r, e)' <=> AsWanted(r, e)
      BY <2>2 DEF Present, AtMostOne, AsWanted
    <2>4. message' \in MessageRow /\ message'.pc = "drain" /\ message'.count = message.count
      BY <1>1, <2>1, <1>t DEF IngestDone, LiveTypes, MessageRow
    <2>5. message.count = r /\ r # 0 /\ message.count >= message.count
      BY <1>1, <2>1, <1>t, LiveForwardAssumption DEF RowTyped, Ingestions, LiveForwardAssumption
    <2>6. entry' \in 0..MaxLiveIngests /\ entry' <= message'.count
      BY <1>1, <2>1, <1>t, LiveForwardAssumption DEF IngestDone, LiveTypes, CountIsKept, MessageRow,
         RowTyped, Ingestions, LiveForwardAssumption
    <2>7. /\ settler'[r] = "finish" /\ settler' \in [Ingestions -> {"off", "finish", "fail", "delete"}]
        /\ \A q \in Ingestions : q # r => settler'[q] = settler[q]
      BY <1>1, <2>1, <1>t DEF LiveTypes, Settled, IngestDone
    <2>8. post[r].by = "direct"
      BY <1>1, <2>1 DEF Reserved
    <2>9. /\ PostIsHeld(r)' /\ DirectIsFirst(r)' /\ DoubtIsHeld(r)' /\ AnswerIsTrue(r)'
          /\ KnownIsThere(r)' /\ AheadIsUnsent(r)' /\ TargetIsUnsent(r)' /\ CaptionsAreKnown(r)'
          /\ DeletedIsOver(r)' /\ RowIsDelivered(r)' /\ RowIsShown(r)' /\ RowIsSentOnce(r)'
      BY <1>r, <2>1, <2>2, <2>3, <2>4, <2>5, <2>6, <2>7, <2>8, <1>1 DEF RowInv, PostIsHeld, AtRoute,
         DirectIsFirst, DoubtIsHeld, AnswerIsTrue, Edits, Native, KnownIsThere, AheadIsUnsent,
         Unsent, Ahead, TargetIsUnsent, CaptionsAreKnown, DeletedIsOver, RowIsDelivered, RowIsShown,
         RowIsSentOnce
    <2>10. RowIsNew(r)'
      BY <1>r, <2>1, <2>2, <2>3, <2>4, <2>5, <2>6, <2>7, <2>8, <1>1 DEF RowInv, RowIsNew,
         PostIsHeld, AtRoute
    <2>11. LiveTypes' /\ CountIsKept' /\ OnlyRow(r)
      BY <1>t, <2>2, <2>4, <2>5, <2>6, <2>7, <2>8, <2>1, <1>1 DEF OnlyRow, LiveTypes, CountIsKept
    <2> QED
      BY <1>t, <2>9, <2>10, <2>11, OneRow DEF RowInv
  <1>2. CASE ~Reserved(r) /\ message.forward
    <2>1. message.pc = "ingest"
      BY <1>2 DEF IngestDone
    <2>2. job' = [job EXCEPT ![r] = [job[r] EXCEPT !.status = "pending", !.stage = "metadata",
              !.path = TRUE]]
      BY <1>2 DEF IngestDone
    <2>3. /\ job'[r] \in JobRow /\ job'[r].status = "pending" /\ job'[r].stage = "metadata"
          /\ job'[r].path = TRUE /\ job'[r].tries = job[r].tries /\ job'[r].dest = job[r].dest
          /\ job'[r].id = job[r].id
          /\ \A q \in Ingestions : q # r => job'[q] = job[q]
          /\ job' \in [Ingestions -> JobRow]
      BY <1>y, <2>2 DEF JobRow
    <2>4. UNCHANGED <<custom, post, bare, right, vouched, excused, deletedFor>>
      BY <1>2 DEF IngestDone, shown, record, budget
    <2>5. /\ \A e \in Routes : (Present(r, e)' <=> Present(r, e)) /\ (AtMostOne(r, e)' <=> AtMostOne(r, e))
          /\ \A e \in Routes : AsWanted(r, e)' <=> AsWanted(r, e)
      BY <2>4 DEF Present, AtMostOne, AsWanted
    <2>6. message' \in MessageRow /\ message'.pc = "drain" /\ message'.count = message.count
      BY <1>2, <2>1, <1>t DEF IngestDone, LiveTypes, MessageRow
    <2>7. message.count = r /\ r # 0 /\ message.count >= message.count
      BY <1>2, <2>1, <1>t, LiveForwardAssumption DEF RowTyped, Ingestions, LiveForwardAssumption
    <2>8. entry' \in 0..MaxLiveIngests /\ entry' <= message'.count
      BY <1>2, <2>1, <1>t, LiveForwardAssumption DEF IngestDone, LiveTypes, CountIsKept, MessageRow,
         RowTyped, Ingestions, LiveForwardAssumption
    <2>9. /\ settler'[r] = "off" /\ settler' \in [Ingestions -> {"off", "finish", "fail", "delete"}]
        /\ \A q \in Ingestions : q # r => settler'[q] = settler[q]
      BY <1>2, <2>1, <1>t DEF LiveTypes, Settled, IngestDone
    <2>10. post[r].by # "direct"
      BY <1>2, <2>1 DEF Reserved
    <2>11. /\ DirectIsFirst(r)' /\ KnownIsThere(r)' /\ TargetIsUnsent(r)' /\ CaptionsAreKnown(r)'
           /\ DeletedIsOver(r)'
      BY <1>r, <2>1, <2>3, <2>4, <2>5, <2>6, <2>7, <2>8, <2>9, <2>10, <1>2 DEF RowInv,
         DirectIsFirst, KnownIsThere, AtRoute, TargetIsUnsent, Unsent, Native, Edits,
         CaptionsAreKnown, DeletedIsOver
    <2>12. RowIsDelivered(r)' /\ RowIsShown(r)' /\ RowIsSentOnce(r)'
      BY <1>r, <2>1, <2>3, <2>4, <2>5, <2>6, <2>7, <2>8, <2>9, <2>10, <1>2 DEF RowInv,
         RowIsDelivered, RowIsShown, RowIsSentOnce
    <2>13. PostIsHeld(r)'
      BY <1>o, <1>r, <2>1, <2>3, <2>4, <2>5, <2>6, <2>7, <2>8, <2>9, <2>10, <1>2 DEF RowInv,
         PostIsHeld, AtRoute, RowIsNew, DirectIsFirst, DoubtIsHeld, AnswerIsTrue, Edits, Native,
         KnownIsThere, AheadIsUnsent, Unsent, Ahead, TargetIsUnsent, CaptionsAreKnown,
         DeletedIsOver, RowIsDelivered, RowIsShown, RowIsSentOnce, RouteOrder
    <2>14. RowIsNew(r)'
      BY <1>t, <1>o, <1>r, <2>1, <2>3, <2>4, <2>5, <2>6, <2>7, <2>8, <2>9, <2>10, <1>2 DEF RowInv,
         RowIsNew, PostIsHeld, AtRoute, DirectIsFirst, DoubtIsHeld, AnswerIsTrue, Edits, Native,
         KnownIsThere, AheadIsUnsent, Unsent, Ahead, TargetIsUnsent, CaptionsAreKnown,
         DeletedIsOver, RowIsDelivered, RowIsShown, RowIsSentOnce, RouteOrder, RowTyped
    <2>15. DoubtIsHeld(r)'
      BY <1>o, <1>r, <2>1, <2>3, <2>4, <2>5, <2>6, <2>7, <2>8, <2>9, <2>10, <1>2 DEF RowInv,
         DoubtIsHeld, PostIsHeld, AtRoute, RowIsNew, DirectIsFirst, AnswerIsTrue, Edits, Native,
         KnownIsThere, AheadIsUnsent, Unsent, Ahead, TargetIsUnsent, CaptionsAreKnown,
         DeletedIsOver, RowIsDelivered, RowIsShown, RowIsSentOnce, RouteOrder
    <2>16. AnswerIsTrue(r)'
      BY <1>o, <1>r, <2>1, <2>3, <2>4, <2>5, <2>6, <2>7, <2>8, <2>9, <2>10, <1>2 DEF RowInv,
         AnswerIsTrue, Edits, Native, PostIsHeld, AtRoute, RowIsNew, DirectIsFirst, DoubtIsHeld,
         KnownIsThere, AheadIsUnsent, Unsent, Ahead, TargetIsUnsent, CaptionsAreKnown,
         DeletedIsOver, RowIsDelivered, RowIsShown, RowIsSentOnce, RouteOrder
    <2>17. AheadIsUnsent(r)'
      BY <1>o, <1>r, <2>1, <2>3, <2>4, <2>5, <2>6, <2>7, <2>8, <2>9, <2>10, <1>2 DEF RowInv,
         AheadIsUnsent, Unsent, Ahead, AtRoute, PostIsHeld, RowIsNew, DirectIsFirst, DoubtIsHeld,
         AnswerIsTrue, Edits, Native, KnownIsThere, TargetIsUnsent, CaptionsAreKnown, DeletedIsOver,
         RowIsDelivered, RowIsShown, RowIsSentOnce, RouteOrder
    <2>18. LiveTypes' /\ CountIsKept' /\ OnlyRow(r)
      BY <1>t, <2>3, <2>4, <2>6, <2>7, <2>8, <2>9, <2>10, <2>1, <1>2 DEF OnlyRow, LiveTypes,
         CountIsKept
    <2> QED
      BY <1>t, <2>11, <2>12, <2>13, <2>14, <2>15, <2>16, <2>17, <2>18, OneRow DEF RowInv
  <1>3. CASE ~Reserved(r) /\ ~message.forward
    <2>1. message.pc = "ingest"
      BY <1>3 DEF IngestDone
    <2>2. UNCHANGED <<custom, job, post, bare, right, vouched, excused, deletedFor>>
      BY <1>3 DEF IngestDone, shown, record, budget
    <2>3. /\ \A e \in Routes : (Present(r, e)' <=> Present(r, e)) /\ (AtMostOne(r, e)' <=> AtMostOne(r, e))
          /\ \A e \in Routes : AsWanted(r, e)' <=> AsWanted(r, e)
      BY <2>2 DEF Present, AtMostOne, AsWanted
    <2>4. message' \in MessageRow /\ message'.pc = "drain" /\ message'.count = message.count
      BY <1>3, <2>1, <1>t DEF IngestDone, LiveTypes, MessageRow
    <2>5. message.count = r /\ r # 0 /\ message.count >= message.count
      BY <1>3, <2>1, <1>t, LiveForwardAssumption DEF RowTyped, Ingestions, LiveForwardAssumption
    <2>6. entry' \in 0..MaxLiveIngests /\ entry' <= message'.count
      BY <1>3, <2>1, <1>t, LiveForwardAssumption DEF IngestDone, LiveTypes, CountIsKept, MessageRow,
         RowTyped, Ingestions, LiveForwardAssumption
    <2>7. /\ settler'[r] = "off" /\ settler' \in [Ingestions -> {"off", "finish", "fail", "delete"}]
        /\ \A q \in Ingestions : q # r => settler'[q] = settler[q]
      BY <1>3, <2>1, <1>t DEF LiveTypes, Settled, IngestDone
    <2>8. post[r].by # "direct"
      BY <1>3, <2>1 DEF Reserved
    <2>9. RowInv(r)'
      BY <1>r, <2>1, <2>2, <2>3, <2>4, <2>5, <2>6, <2>7, <2>8, <1>3 DEF RowInv, PostIsHeld, AtRoute,
         RowIsNew, DirectIsFirst, DoubtIsHeld, AnswerIsTrue, Edits, Native, KnownIsThere,
         AheadIsUnsent, Unsent, Ahead, TargetIsUnsent, CaptionsAreKnown, DeletedIsOver,
         RowIsDelivered, RowIsShown, RowIsSentOnce
    <2>10. LiveTypes' /\ CountIsKept' /\ OnlyRow(r)
      BY <1>t, <2>2, <2>4, <2>5, <2>6, <2>7, <2>8, <2>1, <1>3 DEF OnlyRow, LiveTypes, CountIsKept
    <2> QED
      BY <1>t, <2>9, <2>10, OneRow
  <1> QED
    BY <1>1, <1>2, <1>3 DEF IngestDone

\* cannot be recorded,
LEMMA IngestUnrecordedKept ==
  ASSUME LiveInv, IngestUnrecorded
  PROVE  LiveInv'
  <1>0. message.count \in Ingestions
    BY LiveForwardAssumption DEF IngestUnrecorded, LiveInv, LiveTypes, CountIsKept, MessageRow, Ingestions,
       LiveForwardAssumption
  <1> SUFFICES ASSUME NEW r \in Ingestions, r = message.count PROVE LiveInv'
    BY <1>0
  <1>t. LiveTypes /\ CountIsKept /\ RowTyped(r)
    BY TypedRows DEF LiveInv
  <1>r. RowInv(r)
    BY DEF LiveInv
  <1>o. RouteOrder(r) /\ custom \subseteq Routes
    BY <1>t, RoutesOrdered DEF LiveTypes
  <1>y. /\ job \in [Ingestions -> JobRow] /\ post \in [Ingestions -> PostRow]
        /\ job[r] \in JobRow /\ post[r] \in PostRow /\ r \in Ingestions
        /\ job[r].dest \in [Routes -> DestStates] /\ job[r].id \in [Routes -> KnownIds]
        /\ post[r].at + 1 \in Nat /\ job[r].tries + 1 \in Nat
    BY <1>t DEF LiveTypes, RowTyped
  <1>1. message.pc = "ingest"
    BY DEF IngestUnrecorded
  <1>2. UNCHANGED <<custom, job, post, settler, bare, right, vouched, excused, deletedFor>>
    BY DEF IngestUnrecorded, shown, record, budget
  <1>3. /\ \A e \in Routes : (Present(r, e)' <=> Present(r, e)) /\ (AtMostOne(r, e)' <=> AtMostOne(r, e))
        /\ \A e \in Routes : AsWanted(r, e)' <=> AsWanted(r, e)
    BY <1>2 DEF Present, AtMostOne, AsWanted
  <1>4. message' \in MessageRow /\ message'.pc = "queued" /\ message'.count = message.count
    BY <1>1, <1>t DEF IngestUnrecorded, LiveTypes, MessageRow
  <1>5. message.count = r /\ r # 0 /\ message.count >= message.count
    BY <1>1, <1>t, LiveForwardAssumption DEF RowTyped, Ingestions, LiveForwardAssumption
  <1>6. entry' \in 0..MaxLiveIngests /\ entry' <= message'.count
    BY <1>1, <1>t, LiveForwardAssumption DEF IngestUnrecorded, LiveTypes, CountIsKept, MessageRow,
       RowTyped, Ingestions, LiveForwardAssumption
  <1>7. RowInv(r)'
    BY <1>r, <1>1, <1>2, <1>3, <1>4, <1>5, <1>6 DEF RowInv, PostIsHeld, AtRoute, RowIsNew,
       DirectIsFirst, DoubtIsHeld, AnswerIsTrue, Edits, Native, KnownIsThere, AheadIsUnsent, Unsent,
       Ahead, TargetIsUnsent, CaptionsAreKnown, DeletedIsOver, RowIsDelivered, RowIsShown,
       RowIsSentOnce
  <1>8. LiveTypes' /\ CountIsKept' /\ OnlyRow(r)
    BY <1>t, <1>2, <1>4, <1>5, <1>6, <1>1 DEF OnlyRow, LiveTypes, CountIsKept
  <1> QED
    BY <1>t, <1>7, <1>8, OneRow

\* or fails;
LEMMA IngestFailsKept ==
  ASSUME LiveInv, IngestFails
  PROVE  LiveInv'
  <1>0. message.count \in Ingestions
    BY LiveForwardAssumption DEF IngestFails, LiveInv, LiveTypes, CountIsKept, MessageRow, Ingestions,
       LiveForwardAssumption
  <1> SUFFICES ASSUME NEW r \in Ingestions, r = message.count PROVE LiveInv'
    BY <1>0
  <1>t. LiveTypes /\ CountIsKept /\ RowTyped(r)
    BY TypedRows DEF LiveInv
  <1>r. RowInv(r)
    BY DEF LiveInv
  <1>o. RouteOrder(r) /\ custom \subseteq Routes
    BY <1>t, RoutesOrdered DEF LiveTypes
  <1>y. /\ job \in [Ingestions -> JobRow] /\ post \in [Ingestions -> PostRow]
        /\ job[r] \in JobRow /\ post[r] \in PostRow /\ r \in Ingestions
        /\ job[r].dest \in [Routes -> DestStates] /\ job[r].id \in [Routes -> KnownIds]
        /\ post[r].at + 1 \in Nat /\ job[r].tries + 1 \in Nat
    BY <1>t DEF LiveTypes, RowTyped
  <1>1. CASE Reserved(r)
    <2>1. message.pc = "ingest"
      BY <1>1 DEF IngestFails
    <2>2. UNCHANGED <<custom, entry, job, post, bare, right, vouched, excused, deletedFor>>
      BY <1>1 DEF IngestFails, shown, record, budget
    <2>3. /\ \A e \in Routes : (Present(r, e)' <=> Present(r, e)) /\ (AtMostOne(r, e)' <=> AtMostOne(r, e))
          /\ \A e \in Routes : AsWanted(r, e)' <=> AsWanted(r, e)
      BY <2>2 DEF Present, AtMostOne, AsWanted
    <2>4. message' \in MessageRow /\ message'.pc = "queued" /\ message'.count = message.count
      BY <1>1, <2>1, <1>t DEF IngestFails, LiveTypes, MessageRow
    <2>5. message.count = r /\ r # 0 /\ message.count >= message.count
      BY <1>1, <2>1, <1>t, LiveForwardAssumption DEF RowTyped, Ingestions, LiveForwardAssumption
    <2>6. /\ settler'[r] = "fail" /\ settler' \in [Ingestions -> {"off", "finish", "fail", "delete"}]
        /\ \A q \in Ingestions : q # r => settler'[q] = settler[q]
      BY <1>1, <2>1, <1>t DEF LiveTypes, Settled, IngestFails
    <2>7. post[r].by = "direct"
      BY <1>1, <2>1 DEF Reserved
    <2>8. /\ PostIsHeld(r)' /\ DirectIsFirst(r)' /\ DoubtIsHeld(r)' /\ AnswerIsTrue(r)'
          /\ KnownIsThere(r)' /\ AheadIsUnsent(r)' /\ TargetIsUnsent(r)' /\ CaptionsAreKnown(r)'
          /\ DeletedIsOver(r)' /\ RowIsDelivered(r)' /\ RowIsShown(r)' /\ RowIsSentOnce(r)'
      BY <1>r, <2>1, <2>2, <2>3, <2>4, <2>5, <2>6, <2>7, <1>1 DEF RowInv, PostIsHeld, AtRoute,
         DirectIsFirst, DoubtIsHeld, AnswerIsTrue, Edits, Native, KnownIsThere, AheadIsUnsent,
         Unsent, Ahead, TargetIsUnsent, CaptionsAreKnown, DeletedIsOver, RowIsDelivered, RowIsShown,
         RowIsSentOnce
    <2>9. RowIsNew(r)'
      BY <1>r, <2>1, <2>2, <2>3, <2>4, <2>5, <2>6, <2>7, <1>1 DEF RowInv, RowIsNew, PostIsHeld,
         AtRoute
    <2>10. LiveTypes' /\ CountIsKept' /\ OnlyRow(r)
      BY <1>t, <2>2, <2>4, <2>5, <2>6, <2>7, <2>1, <1>1 DEF OnlyRow, LiveTypes, CountIsKept
    <2> QED
      BY <1>t, <2>8, <2>9, <2>10, OneRow DEF RowInv
  <1>2. CASE ~Reserved(r)
    <2>1. message.pc = "ingest"
      BY <1>2 DEF IngestFails
    <2>2. UNCHANGED <<custom, entry, job, post, bare, right, vouched, excused, deletedFor>>
      BY <1>2 DEF IngestFails, shown, record, budget
    <2>3. /\ \A e \in Routes : (Present(r, e)' <=> Present(r, e)) /\ (AtMostOne(r, e)' <=> AtMostOne(r, e))
          /\ \A e \in Routes : AsWanted(r, e)' <=> AsWanted(r, e)
      BY <2>2 DEF Present, AtMostOne, AsWanted
    <2>4. message' \in MessageRow /\ message'.pc = "queued" /\ message'.count = message.count
      BY <1>2, <2>1, <1>t DEF IngestFails, LiveTypes, MessageRow
    <2>5. message.count = r /\ r # 0 /\ message.count >= message.count
      BY <1>2, <2>1, <1>t, LiveForwardAssumption DEF RowTyped, Ingestions, LiveForwardAssumption
    <2>6. /\ settler'[r] = "off" /\ settler' \in [Ingestions -> {"off", "finish", "fail", "delete"}]
        /\ \A q \in Ingestions : q # r => settler'[q] = settler[q]
      BY <1>2, <2>1, <1>t DEF LiveTypes, Settled, IngestFails
    <2>7. post[r].by # "direct"
      BY <1>2, <2>1 DEF Reserved
    <2>8. RowInv(r)'
      BY <1>r, <2>1, <2>2, <2>3, <2>4, <2>5, <2>6, <2>7, <1>2 DEF RowInv, PostIsHeld, AtRoute,
         RowIsNew, DirectIsFirst, DoubtIsHeld, AnswerIsTrue, Edits, Native, KnownIsThere,
         AheadIsUnsent, Unsent, Ahead, TargetIsUnsent, CaptionsAreKnown, DeletedIsOver,
         RowIsDelivered, RowIsShown, RowIsSentOnce
    <2>9. LiveTypes' /\ CountIsKept' /\ OnlyRow(r)
      BY <1>t, <2>2, <2>4, <2>5, <2>6, <2>7, <2>1, <1>2 DEF OnlyRow, LiveTypes, CountIsKept
    <2> QED
      BY <1>t, <2>8, <2>9, OneRow
  <1> QED
    BY <1>1, <1>2 DEF IngestFails

\* and what is left is to drain the outbox.
LEMMA EndIngestKept ==
  ASSUME LiveInv, EndIngest
  PROVE  LiveInv'
  <1>0. message.count \in Ingestions
    BY LiveForwardAssumption DEF EndIngest, LiveInv, LiveTypes, CountIsKept, MessageRow, Ingestions,
       LiveForwardAssumption
  <1> SUFFICES ASSUME NEW r \in Ingestions, r = message.count PROVE LiveInv'
    BY <1>0
  <1>t. LiveTypes /\ CountIsKept /\ RowTyped(r)
    BY TypedRows DEF LiveInv
  <1>r. RowInv(r)
    BY DEF LiveInv
  <1>o. RouteOrder(r) /\ custom \subseteq Routes
    BY <1>t, RoutesOrdered DEF LiveTypes
  <1>y. /\ job \in [Ingestions -> JobRow] /\ post \in [Ingestions -> PostRow]
        /\ job[r] \in JobRow /\ post[r] \in PostRow /\ r \in Ingestions
        /\ job[r].dest \in [Routes -> DestStates] /\ job[r].id \in [Routes -> KnownIds]
        /\ post[r].at + 1 \in Nat /\ job[r].tries + 1 \in Nat
    BY <1>t DEF LiveTypes, RowTyped
  <1>1. CASE message' = [message EXCEPT !.pc = "done"]
    <2>1. message.pc = "drain"
      BY <1>1 DEF EndIngest
    <2>2. UNCHANGED <<custom, entry, job, post, settler, bare, right, vouched, excused, deletedFor>>
      BY <1>1 DEF EndIngest, shown, record, budget
    <2>3. /\ \A e \in Routes : (Present(r, e)' <=> Present(r, e)) /\ (AtMostOne(r, e)' <=> AtMostOne(r, e))
          /\ \A e \in Routes : AsWanted(r, e)' <=> AsWanted(r, e)
      BY <2>2 DEF Present, AtMostOne, AsWanted
    <2>4. message' \in MessageRow /\ message'.pc = "done" /\ message'.count = message.count
      BY <1>1, <2>1, <1>t DEF EndIngest, LiveTypes, MessageRow
    <2>5. message.count = r /\ r # 0 /\ message.count >= message.count
      BY <1>1, <2>1, <1>t, LiveForwardAssumption DEF RowTyped, Ingestions, LiveForwardAssumption
    <2>6. RowInv(r)'
      BY <1>r, <2>1, <2>2, <2>3, <2>4, <2>5, <1>1 DEF RowInv, PostIsHeld, AtRoute, RowIsNew,
         DirectIsFirst, DoubtIsHeld, AnswerIsTrue, Edits, Native, KnownIsThere, AheadIsUnsent,
         Unsent, Ahead, TargetIsUnsent, CaptionsAreKnown, DeletedIsOver, RowIsDelivered, RowIsShown,
         RowIsSentOnce
    <2>7. LiveTypes' /\ CountIsKept' /\ OnlyRow(r)
      BY <1>t, <2>2, <2>4, <2>5, <2>1, <1>1 DEF OnlyRow, LiveTypes, CountIsKept
    <2> QED
      BY <1>t, <2>6, <2>7, OneRow
  <1>2. CASE message' = [message EXCEPT !.pc = "queued"]
    <2>1. message.pc = "drain"
      BY <1>2 DEF EndIngest
    <2>2. UNCHANGED <<custom, entry, job, post, settler, bare, right, vouched, excused, deletedFor>>
      BY <1>2 DEF EndIngest, shown, record, budget
    <2>3. /\ \A e \in Routes : (Present(r, e)' <=> Present(r, e)) /\ (AtMostOne(r, e)' <=> AtMostOne(r, e))
          /\ \A e \in Routes : AsWanted(r, e)' <=> AsWanted(r, e)
      BY <2>2 DEF Present, AtMostOne, AsWanted
    <2>4. message' \in MessageRow /\ message'.pc = "queued" /\ message'.count = message.count
      BY <1>2, <2>1, <1>t DEF EndIngest, LiveTypes, MessageRow
    <2>5. message.count = r /\ r # 0 /\ message.count >= message.count
      BY <1>2, <2>1, <1>t, LiveForwardAssumption DEF RowTyped, Ingestions, LiveForwardAssumption
    <2>6. RowInv(r)'
      BY <1>r, <2>1, <2>2, <2>3, <2>4, <2>5, <1>2 DEF RowInv, PostIsHeld, AtRoute, RowIsNew,
         DirectIsFirst, DoubtIsHeld, AnswerIsTrue, Edits, Native, KnownIsThere, AheadIsUnsent,
         Unsent, Ahead, TargetIsUnsent, CaptionsAreKnown, DeletedIsOver, RowIsDelivered, RowIsShown,
         RowIsSentOnce
    <2>7. LiveTypes' /\ CountIsKept' /\ OnlyRow(r)
      BY <1>t, <2>2, <2>4, <2>5, <2>1, <1>2 DEF OnlyRow, LiveTypes, CountIsKept
    <2> QED
      BY <1>t, <2>6, <2>7, OneRow
  <1> QED
    BY <1>1, <1>2 DEF EndIngest

\* A restart finds the rows as they were, those in progress in doubt.
LEMMA LiveCrashKept ==
  ASSUME LiveInv, LiveCrash
  PROVE  LiveInv'
  <1>a. LiveTypes /\ CountIsKept
    BY DEF LiveInv
  <1>b. message' \in MessageRow /\ message'.count = message.count /\ message'.pc \in {"done", "queued"}
    BY <1>a DEF LiveCrash, LiveTypes, MessageRow
  <1>c. \A q \in Ingestions : job'[q] \in JobRow
    BY <1>a DEF LiveCrash, LiveTypes, JobRow
  <1>d. job' \in [Ingestions -> JobRow] /\ post' \in [Ingestions -> PostRow]
    BY <1>c, SilentRow DEF LiveCrash
  <1>e. LiveTypes' /\ CountIsKept'
    BY <1>a, <1>b, <1>d DEF LiveCrash, LiveTypes, CountIsKept, shown, record
  <1> SUFFICES ASSUME NEW r \in Ingestions PROVE RowInv(r)'
    BY <1>e DEF LiveInv
  <1>t. LiveTypes /\ CountIsKept /\ RowTyped(r)
    BY TypedRows DEF LiveInv
  <1>r. RowInv(r)
    BY DEF LiveInv
  <1>o. RouteOrder(r) /\ custom \subseteq Routes
    BY <1>t, RoutesOrdered DEF LiveTypes
  <1>y. /\ job \in [Ingestions -> JobRow] /\ post \in [Ingestions -> PostRow]
        /\ job[r] \in JobRow /\ post[r] \in PostRow /\ r \in Ingestions
        /\ job[r].dest \in [Routes -> DestStates] /\ job[r].id \in [Routes -> KnownIds]
        /\ post[r].at + 1 \in Nat /\ job[r].tries + 1 \in Nat
    BY <1>t DEF LiveTypes, RowTyped
  <1>1. CASE job[r].status = "processing"
    <2>1. UNCHANGED <<custom, entry, bare, right, vouched, excused, deletedFor>>
      BY <1>1 DEF LiveCrash, shown, record, budget
    <2>2. /\ \A e \in Routes : (Present(r, e)' <=> Present(r, e)) /\ (AtMostOne(r, e)' <=> AtMostOne(r, e))
          /\ \A e \in Routes : AsWanted(r, e)' <=> AsWanted(r, e)
      BY <2>1 DEF Present, AtMostOne, AsWanted
    <2>3. /\ job'[r].status = "uncertain"
        /\ job'[r].stage = job[r].stage /\ job'[r].path = job[r].path /\ job'[r].tries = job[r].tries
        /\ job'[r].dest = job[r].dest /\ job'[r].id = job[r].id
      BY <1>1, <1>y DEF LiveCrash, JobRow
    <2>4. /\ post'[r].pc = "off" /\ post'[r].by = "none" /\ post'[r].at = 0 /\ post'[r].error = "none"
        /\ post'[r].id = "none" /\ post'[r].upload = FALSE /\ settler'[r] = "off"
      BY <1>1, SilentRow DEF LiveCrash
    <2>5. message'.count = message.count /\ message'.pc # "ingest"
      BY <1>1, <1>t DEF LiveCrash, LiveTypes, MessageRow
    <2>6. RowInv(r)'
      BY <1>r, <2>1, <2>2, <2>3, <2>4, <2>5, <1>1 DEF RowInv, PostIsHeld, AtRoute, RowIsNew,
         DirectIsFirst, DoubtIsHeld, AnswerIsTrue, Edits, Native, KnownIsThere, AheadIsUnsent,
         Unsent, Ahead, TargetIsUnsent, CaptionsAreKnown, DeletedIsOver, RowIsDelivered, RowIsShown,
         RowIsSentOnce
    <2> QED
      BY <2>6
  <1>2. CASE job[r].status # "processing"
    <2>1. UNCHANGED <<custom, entry, bare, right, vouched, excused, deletedFor>>
      BY <1>2 DEF LiveCrash, shown, record, budget
    <2>2. /\ \A e \in Routes : (Present(r, e)' <=> Present(r, e)) /\ (AtMostOne(r, e)' <=> AtMostOne(r, e))
          /\ \A e \in Routes : AsWanted(r, e)' <=> AsWanted(r, e)
      BY <2>1 DEF Present, AtMostOne, AsWanted
    <2>3. /\ job'[r].status = job[r].status
        /\ job'[r].stage = job[r].stage /\ job'[r].path = job[r].path /\ job'[r].tries = job[r].tries
        /\ job'[r].dest = job[r].dest /\ job'[r].id = job[r].id
      BY <1>2, <1>y DEF LiveCrash, JobRow
    <2>4. /\ post'[r].pc = "off" /\ post'[r].by = "none" /\ post'[r].at = 0 /\ post'[r].error = "none"
        /\ post'[r].id = "none" /\ post'[r].upload = FALSE /\ settler'[r] = "off"
      BY <1>2, SilentRow DEF LiveCrash
    <2>5. message'.count = message.count /\ message'.pc # "ingest"
      BY <1>2, <1>t DEF LiveCrash, LiveTypes, MessageRow
    <2>6. RowInv(r)'
      BY <1>r, <2>1, <2>2, <2>3, <2>4, <2>5, <1>2 DEF RowInv, PostIsHeld, AtRoute, RowIsNew,
         DirectIsFirst, DoubtIsHeld, AnswerIsTrue, Edits, Native, KnownIsThere, AheadIsUnsent,
         Unsent, Ahead, TargetIsUnsent, CaptionsAreKnown, DeletedIsOver, RowIsDelivered, RowIsShown,
         RowIsSentOnce
    <2> QED
      BY <2>6
  <1> QED
    BY <1>1, <1>2 DEF LiveCrash

-----------------------------------------------------------------------------
(* The theorem.                                                            *)

\* At the start nothing was taken in, posted or shown.
LEMMA LiveInvBegins == ASSUME LiveInit PROVE LiveInv
  <1>1. /\ MaxLiveIngests \in Nat /\ message = [pc |-> "queued", count |-> 0, forward |-> FALSE] /\
               entry = 0
        /\ custom \subseteq Routes /\ vouched = {} /\ excused = {} /\ deletedFor = {}
    BY LiveForwardAssumption DEF LiveInit, LiveForwardAssumption
  <1>2. NoJob \in JobRow
    BY DEF NoJob, JobRow, DestStates, KnownIds
  <1>3. job \in [Ingestions -> JobRow] /\ post \in [Ingestions -> PostRow]
    BY <1>2, SilentRow DEF LiveInit
  <1>4. /\ settler \in [Ingestions -> {"off", "finish", "fail", "delete"}]
        /\ bare \in [Posts -> Nat] /\ right \in [Posts -> Nat]
    BY DEF LiveInit
  <1>5. LiveTypes /\ CountIsKept
    BY <1>1, <1>3, <1>4 DEF LiveTypes, CountIsKept, MessageRow
  <1>6. ASSUME NEW r \in Ingestions PROVE RowInv(r)
    <2>1. /\ job[r].status = "none" /\ job[r].stage = "none" /\ job[r].path = FALSE /\ settler[r] = "off"
          /\ \A d \in Routes : job[r].dest[d] = "pending" /\ job[r].id[d] = "none"
      BY DEF LiveInit, NoJob
    <2>2. post[r].pc = "off" /\ post[r].by = "none"
      BY SilentRow DEF LiveInit
    <2>3. \A d \in Routes : bare[<<r, d>>] = 0 /\ right[<<r, d>>] = 0
      BY DEF LiveInit, Posts
    <2>4. \A d \in Routes : ~Present(r, d) /\ AtMostOne(r, d)
      BY <2>3 DEF Present, AtMostOne
    <2>5. PostIsHeld(r) /\ RowIsNew(r) /\ DirectIsFirst(r) /\ DoubtIsHeld(r) /\ AnswerIsTrue(r)
      BY <1>1, <2>1, <2>2, <2>4 DEF PostIsHeld, RowIsNew, DirectIsFirst, DoubtIsHeld, AnswerIsTrue, AtRoute
    <2>6. KnownIsThere(r) /\ AheadIsUnsent(r) /\ TargetIsUnsent(r) /\ CaptionsAreKnown(r)
      BY <2>1, <2>2, <2>4 DEF KnownIsThere, AheadIsUnsent, TargetIsUnsent, CaptionsAreKnown, AtRoute, Unsent
    <2>7. DeletedIsOver(r) /\ RowIsDelivered(r) /\ RowIsShown(r) /\ RowIsSentOnce(r)
      BY <1>1, <2>1, <2>2, <2>4 DEF DeletedIsOver, RowIsDelivered, RowIsShown, RowIsSentOnce
    <2> QED
      BY <2>5, <2>6, <2>7 DEF RowInv
  <1> QED
    BY <1>5, <1>6 DEF LiveInv

\* Every step keeps the invariant.
LEMMA LiveInvSteps == ASSUME LiveInv, [LiveNext]_liveVars PROVE LiveInv'
  <1>1. CASE UNCHANGED liveVars
    <2>1. UNCHANGED <<custom, message, entry, job, post, settler, bare, right, vouched, excused,
              deletedFor>>
      BY <1>1 DEF liveVars
    <2>2. LiveTypes' /\ CountIsKept'
      BY <2>1 DEF LiveInv, LiveTypes, CountIsKept
    <2>3. ASSUME NEW r \in Ingestions PROVE RowInv(r)'
      <3>1. RowInv(r)
        BY DEF LiveInv
      <3> QED
        BY <2>1, <3>1 DEF RowInv, PostIsHeld, RowIsNew, DirectIsFirst, DoubtIsHeld, AnswerIsTrue,
           KnownIsThere, AheadIsUnsent, TargetIsUnsent, CaptionsAreKnown, DeletedIsOver, RowIsDelivered,
           RowIsShown, RowIsSentOnce, AtRoute, Unsent, Ahead, Edits, Native, Present, AtMostOne, AsWanted
    <2> QED
      BY <2>2, <2>3 DEF LiveInv
  <1>2. ASSUME NEW direct \in BOOLEAN, BeginIngest(direct) PROVE LiveInv'
    BY <1>2, BeginIngestKept
  <1>3. CASE IngestDone \/ IngestUnrecorded \/ IngestFails \/ EndIngest \/ LiveCrash
    BY <1>3, IngestDoneKept, IngestUnrecordedKept, IngestFailsKept, EndIngestKept, LiveCrashKept
  <1>4. ASSUME NEW r \in Ingestions,
               NextRoute(r) \/ SendNative(r) \/ EditCaption(r) \/ TakeBack(r) \/ UploadFile(r)
        PROVE  LiveInv'
    BY <1>4, NextRouteKept, SendNativeKept, EditCaptionKept, TakeBackKept, UploadFileKept
  <1>5. ASSUME NEW r \in Ingestions,
               DirectAnswered(r) \/ SettleFailed(r) \/ SettleUnsent(r) \/ SettleSent(r) \/ SettleDelete(r)
        PROVE  LiveInv'
    BY <1>5, DirectAnsweredKept, SettleFailedKept, SettleUnsentKept, SettleSentKept, SettleDeleteKept
  <1>6. ASSUME NEW r \in Ingestions,
               \/ ClaimJob(r) \/ PrepareJob(r) \/ DeleteServed(r) \/ QueueAnswered(r) \/ FinishJob(r)
               \/ RetryJob(r)
        PROVE  LiveInv'
    BY <1>6, ClaimJobKept, PrepareJobKept, DeleteServedKept, QueueAnsweredKept, FinishJobKept, RetryJobKept
  <1>7. ASSUME NEW r \in Ingestions, NEW sent \in BOOLEAN, NEW scope \in {Routes} \cup {{d} : d \in Routes},
               ReconcileJob(r, sent, scope)
        PROVE  LiveInv'
    BY <1>7, ReconcileJobKept
  <1> QED
    BY <1>1, <1>2, <1>3, <1>4, <1>5, <1>6, <1>7 DEF LiveNext

\* LiveForwardIsSound: whatever a direct forward, the queue's workers, the operator and a crash do to a
\* message that is forwarded while it is downloaded, its download is deleted only when every
\* destination has its copy, a route called forwarded shows it, and no row makes a second one that
\* nobody risked.
THEOREM LiveForwardStaysSound == LiveSpec => []LiveForwardIsSound
  <1>1. LiveInit => LiveInv
    BY LiveInvBegins
  <1>2. LiveInv /\ [LiveNext]_liveVars => LiveInv'
    BY LiveInvSteps
  <1>3. LiveInv => LiveForwardIsSound
    <2> SUFFICES ASSUME LiveInv PROVE LiveForwardIsSound
      OBVIOUS
    <2>1. \A r \in Ingestions : RowIsDelivered(r) /\ RowIsShown(r) /\ RowIsSentOnce(r)
      BY DEF LiveInv, RowInv
    <2>2. DeletedIsDelivered
      BY <2>1 DEF DeletedIsDelivered, RowIsDelivered, AsWanted, LiveInv, LiveTypes
    <2>3. ForwardedIsShown
      BY <2>1 DEF ForwardedIsShown, RowIsShown, AsWanted
    <2>4. ASSUME NEW p \in Posts PROVE bare[p] + right[p] > 1 => p \in excused
      <3>1. PICK r \in Ingestions, d \in Routes : p = <<r, d>>
        BY DEF Posts
      <3>2. bare[<<r, d>>] \in Nat /\ right[<<r, d>>] \in Nat
        BY <3>1 DEF LiveInv, LiveTypes
      <3>3. ~AtMostOne(r, d) <=> bare[<<r, d>>] + right[<<r, d>>] > 1
        BY <3>2 DEF AtMostOne
      <3> QED
        BY <2>1, <3>1, <3>3 DEF RowIsSentOnce
    <2> QED
      BY <2>2, <2>3, <2>4 DEF LiveForwardIsSound, OneCopyPerRow
  <1> QED
    BY <1>1, <1>2, <1>3, PTL DEF LiveSpec
=============================================================================
