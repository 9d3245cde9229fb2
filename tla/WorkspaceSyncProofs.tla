------------------------- MODULE WorkspaceSyncProofs -------------------------
(***************************************************************************)
(* Proofs about WorkspaceSync, for any number of workspaces, events and    *)
(* warps: what is stored while another site owns the session was not made  *)
(* by a fenced workspace, a warp hands over all but what the control plane *)
(* adds after it read the rows, and every row places the session in a      *)
(* workspace that it was created in or that took it over.                  *)
(***************************************************************************)
EXTENDS WorkspaceSync, SequenceTheorems, FiniteSetTheorems, TLAPS

Message == [seq : Nat, event : Events]

(* The rows of a page stand where the page says, in the log it is of. *)
PartOf(p, l) == \A i \in DOMAIN p.rows : p.from + i \in DOMAIN l /\ l[p.from + i] = p.rows[i]

(* What is on its way from a site is in the log of that site. *)
PagesTrue == \A w \in Workspaces : PartOf(sync[w].page, log[w])
WiresTrue == \A w \in Workspaces : \A k \in DOMAIN wire[w] :
               /\ wire[w][k].seq \in DOMAIN log[w]
               /\ log[w][wire[w][k].seq] = wire[w][k].event
WarpPageTrue ==
  /\ warp.at = "final" => PartOf(warp.page, log[warp.from])
  /\ warp.at = "send" => PartOf(warp.page, log[Here])

(* Which warps are where. *)
WarpShape ==
  /\ warp.at \in {"ask", "asked", "final", "claim"} => Leaving
  /\ warp.at \in {"rows", "send", "steal"} => warp.to # Here

(* What a workspace did not make itself, the control plane has. *)
Authors ==
  \A w \in Workspaces : \A i \in DOMAIN log[w] :
    log[w][i].by # w => log[w][i] \in Range(log[Here])

(* The workspaces that rows, edits and events name were created in or took over. *)
Backed(to) == to \in Workspaces => CreatedIn(to) \/ TookOver(to)
Places ==
  \A s \in Sites :
    /\ Backed(place[s]) /\ Backed(edit[s])
    /\ \A i \in DOMAIN log[s] : Backed(log[s][i].to)

(* After the claim only the target, and the control plane itself, can add   *)
(* events there.                                                            *)
Claimed == Leaving /\ warp.at \in {"patch", "rows", "send", "steal", "set"} => owner[Here] = warp.to

(* The logs agree at i. *)
Same(i) == i \in DOMAIN log[warp.to] /\ log[warp.to][i] = log[Here][i]

(* What must go along: the rows that were read, and all that the control     *)
(* plane did not make itself.                                               *)
Must(i) == i <= warp.known \/ log[Here][i].by # Here
RowsRead ==
  warp.at \in {"send", "steal", "set"} /\ warp.to # Here => warp.known <= Len(log[Here])

(* What is not in the page any more, or came after it was read, is there. *)
Sent ==
  Leaving /\ warp.at = "send" =>
    \A i \in DOMAIN log[Here] :
      Must(i) /\ i \notin warp.page.from + 1 .. warp.page.from + Len(warp.page.rows) => Same(i)
Delivered ==
  Leaving /\ warp.at \in {"steal", "set"} /\ warp.to # Here =>
    \A i \in DOMAIN log[Here] : Must(i) => Same(i)

(* The target of a warp that is about to set the place has taken over. *)
Stolen == warp.at = "set" /\ warp.to # Here => TookOver(warp.to)

Wires == PagesTrue /\ WiresTrue /\ WarpPageTrue
Moving == WarpShape /\ Claimed /\ RowsRead /\ Sent /\ Delivered /\ Stolen
IInv == TypeOK /\ Wires /\ Authors /\ Places /\ Moving

-------------------------------------------------------------------------------
(* Pages.                                                                  *)

LEMMA EmptyPage == NoPage \in Pages /\ \A l : PartOf(NoPage, l)
<1>1. <<>> \in Seq(Events) /\ Len(<<>>) = 0 BY EmptySeq
<1>2. DOMAIN <<>> = {} OBVIOUS
<1> QED BY <1>1, <1>2 DEF NoPage, Pages, PartOf

LEMMA Indices == \A l \in Seq(Events) :
  Len(l) \in Nat /\ DOMAIN l = 1 .. Len(l) /\ \A i \in DOMAIN l : l[i] \in Events
BY LenProperties, ElementOfSeq

LEMMA AfterPage ==
  ASSUME NEW l \in Seq(Events), NEW n \in Nat
  PROVE  /\ After(l, n) \in Pages /\ PartOf(After(l, n), l)
         /\ After(l, n).from = n
         /\ n = 0 => Len(After(l, n).rows) = Len(l)
<1> DEFINE rows == SubSeq(l, n + 1, Len(l))
<1>1. Len(l) \in Nat /\ DOMAIN l = 1 .. Len(l) /\ \A i \in n + 1 .. Len(l) : l[i] \in Events
  BY Indices
<1>2. /\ rows \in Seq(Events)
      /\ Len(rows) = IF n + 1 <= Len(l) THEN Len(l) - (n + 1) + 1 ELSE 0
      /\ \A i \in 1 .. Len(l) - (n + 1) + 1 : rows[i] = l[n + 1 + i - 1]
  BY <1>1, SubSeqProperties
<1>3. DOMAIN rows = 1 .. Len(rows) /\ Len(rows) \in Nat BY <1>2, Indices
<1>4. After(l, n) = [from |-> n, rows |-> rows] BY DEF After
<1> HIDE DEF rows
<1>5. ASSUME NEW i \in DOMAIN rows PROVE n + i \in DOMAIN l /\ l[n + i] = rows[i]
  <2>1. i \in Nat /\ 1 <= i /\ i <= Len(rows) BY <1>3
  <2>2. i <= Len(l) - n
    <3>1. Len(rows) = IF n + 1 <= Len(l) THEN Len(l) - (n + 1) + 1 ELSE 0 BY <1>2
    <3>2. Len(l) \in Nat /\ Len(rows) \in Nat BY <1>1, <1>3
    <3>3. CASE n + 1 <= Len(l) BY <3>1, <3>2, <3>3, <2>1
    <3>4. CASE ~(n + 1 <= Len(l)) BY <3>1, <3>2, <3>4, <2>1
    <3> QED BY <3>3, <3>4
  <2>3. i \in 1 .. Len(l) - (n + 1) + 1 /\ n + 1 + i - 1 = n + i BY <1>1, <2>1, <2>2
  <2>4. n + i \in DOMAIN l BY <1>1, <2>1, <2>2
  <2>5. rows[i] = l[n + 1 + i - 1] BY <1>2, <2>3
  <2> QED BY <2>3, <2>4, <2>5
<1>6. PartOf(After(l, n), l) BY <1>4, <1>5 DEF PartOf
<1>7. n = 0 => Len(rows) = Len(l) BY <1>1, <1>2
<1> QED BY <1>2, <1>4, <1>6, <1>7 DEF Pages

LEMMA TailOf ==
  ASSUME NEW p \in Pages, p.rows # <<>>
  PROVE  /\ TailPage(p) \in Pages /\ TailPage(p).from = p.from + 1
         /\ Len(TailPage(p).rows) = Len(p.rows) - 1
         /\ Len(p.rows) \in Nat /\ Len(p.rows) > 0
         /\ Head(p.rows) \in Events
         /\ \A l : PartOf(p, l) => /\ PartOf(TailPage(p), l)
                                  /\ p.from + 1 \in DOMAIN l /\ l[p.from + 1] = Head(p.rows)
<1> DEFINE rows == p.rows
           tail == Tail(p.rows)
<1>1. rows \in Seq(Events) /\ p.from \in Nat BY DEF Pages
<1>2. /\ Head(rows) \in Events /\ tail \in Seq(Events)
      /\ Len(tail) = Len(rows) - 1
      /\ \A i \in 1 .. Len(tail) : tail[i] = rows[i + 1]
  BY <1>1, HeadTailProperties
<1>3. Len(rows) \in Nat /\ Len(rows) > 0 /\ DOMAIN rows = 1 .. Len(rows) BY <1>1, EmptySeq, Indices
<1>4. DOMAIN tail = 1 .. Len(tail) BY <1>2, Indices
<1>5. TailPage(p) = [from |-> p.from + 1, rows |-> tail] BY DEF TailPage
<1>6. Head(rows) = rows[1] BY <1>1
<1> HIDE DEF rows, tail
<1>7. ASSUME NEW l, \A i \in DOMAIN rows : p.from + i \in DOMAIN l /\ l[p.from + i] = rows[i]
      PROVE  /\ \A i \in DOMAIN tail : p.from + 1 + i \in DOMAIN l /\ l[p.from + 1 + i] = tail[i]
             /\ p.from + 1 \in DOMAIN l /\ l[p.from + 1] = Head(rows)
  <2>1. ASSUME NEW i \in DOMAIN tail
        PROVE  p.from + 1 + i \in DOMAIN l /\ l[p.from + 1 + i] = tail[i]
    <3>1. i + 1 \in DOMAIN rows /\ tail[i] = rows[i + 1] /\ i \in Nat BY <1>2, <1>3, <1>4
    <3>2. p.from + (i + 1) = p.from + 1 + i BY <1>1, <3>1
    <3> QED BY <1>7, <3>1, <3>2
  <2>2. 1 \in DOMAIN rows BY <1>3
  <2> QED BY <1>6, <1>7, <2>1, <2>2
<1>8. \A l : PartOf(p, l) => /\ PartOf(TailPage(p), l)
                            /\ p.from + 1 \in DOMAIN l /\ l[p.from + 1] = Head(p.rows)
  BY <1>5, <1>7 DEF PartOf, rows
<1> QED BY <1>1, <1>2, <1>3, <1>5, <1>8 DEF Pages, rows

-------------------------------------------------------------------------------
(* Logs only grow, by one event at a time.                                 *)

Grown == \A s \in Sites : \A i \in DOMAIN log[s] : i \in DOMAIN log'[s] /\ log'[s][i] = log[s][i]

(* What may be added to the log of a site. *)
Sound(s, e) == s # Here /\ e.by # s => e \in Range(log[Here])

LEMMA NewEvents ==
  ASSUME TypeOK, NEW s \in Sites, NEW to \in Sites \union {None}
  PROVE  NewEvent(s, to) \in Events /\ NewEvent(s, to).by = s /\ NewEvent(s, to).to = to
<1>1. log[s] \in Seq(Events) BY DEF TypeOK
<1>2. Own(s) \subseteq 1 .. Len(log[s]) /\ Len(log[s]) \in Nat BY <1>1, Indices DEF Own
<1>3. Cardinality(Own(s)) \in Nat
  <2>1. 1 \in Int /\ Len(log[s]) \in Int BY <1>2
  <2>2. IsFiniteSet(1 .. Len(log[s])) BY <2>1, FS_Interval
  <2>3. IsFiniteSet(Own(s)) BY <1>2, <2>2, FS_Subset
  <2> QED BY <2>3, FS_CardinalityType
<1> QED BY <1>3 DEF NewEvent, Events

LEMMA Grows ==
  ASSUME TypeOK, NEW s \in Sites, NEW e \in Events, log' = [log EXCEPT ![s] = Append(@, e)]
  PROVE  /\ log' \in [Sites -> Seq(Events)] /\ Grown
         /\ \A t \in Sites : t # s => log'[t] = log[t]
         /\ DOMAIN log'[s] = DOMAIN log[s] \union {Len(log[s]) + 1}
         /\ log'[s][Len(log[s]) + 1] = e
<1>1. log \in [Sites -> Seq(Events)] /\ log[s] \in Seq(Events) BY DEF TypeOK
<1>2. /\ Append(log[s], e) \in Seq(Events)
      /\ Len(Append(log[s], e)) = Len(log[s]) + 1
      /\ \A i \in 1 .. Len(log[s]) : Append(log[s], e)[i] = log[s][i]
      /\ Append(log[s], e)[Len(log[s]) + 1] = e
  BY <1>1, AppendProperties
<1>3. log'[s] = Append(log[s], e) /\ \A t \in Sites : t # s => log'[t] = log[t]
  BY <1>1
<1>4. Len(log[s]) \in Nat /\ DOMAIN log[s] = 1 .. Len(log[s]) BY <1>1, Indices
<1>5. DOMAIN log'[s] = 1 .. Len(log[s]) + 1 BY <1>2, <1>3, Indices
<1>6. DOMAIN log'[s] = DOMAIN log[s] \union {Len(log[s]) + 1} BY <1>4, <1>5
<1>7. log' \in [Sites -> Seq(Events)] BY <1>1, <1>2
<1>8. Grown
  <2> SUFFICES ASSUME NEW t \in Sites, NEW i \in DOMAIN log[t]
               PROVE  i \in DOMAIN log'[t] /\ log'[t][i] = log[t][i]
    BY DEF Grown
  <2>1. CASE t = s BY <2>1, <1>2, <1>3, <1>4, <1>6
  <2>2. CASE t # s BY <2>2, <1>3
  <2> QED BY <2>1, <2>2
<1> QED BY <1>2, <1>3, <1>6, <1>7, <1>8

LEMMA AuthorsKept ==
  ASSUME TypeOK, Authors, NEW s \in Sites, NEW e \in Events, Sound(s, e),
         log' = [log EXCEPT ![s] = Append(@, e)]
  PROVE  Authors'
<1>1. /\ Grown
      /\ \A t \in Sites : t # s => log'[t] = log[t]
      /\ DOMAIN log'[s] = DOMAIN log[s] \union {Len(log[s]) + 1}
      /\ log'[s][Len(log[s]) + 1] = e
  BY Grows
<1>2. \A t \in Sites : \A i \in DOMAIN log'[t] :
        (i \in DOMAIN log[t] /\ log'[t][i] = log[t][i]) \/ (t = s /\ log'[t][i] = e)
  BY <1>1 DEF Grown
<1>3. Range(log[Here]) \subseteq Range(log'[Here]) BY <1>1 DEF Grown, Range, Sites
<1> SUFFICES ASSUME NEW w \in Workspaces, NEW i \in DOMAIN log'[w], log'[w][i].by # w
             PROVE  log'[w][i] \in Range(log'[Here])
  BY DEF Authors
<1>4. w \in Sites /\ w # Here BY SyncAssumption DEF Sites
<1>5. CASE i \in DOMAIN log[w] /\ log'[w][i] = log[w][i] BY <1>5, <1>3 DEF Authors
<1>6. CASE w = s /\ log'[w][i] = e BY <1>4, <1>6, <1>3 DEF Sound
<1> QED BY <1>2, <1>4, <1>5, <1>6

(* A workspace that took the session over has done so for good. *)
LEMMA BackedKept == ASSUME Grown, NEW to, Backed(to) PROVE Backed(to)'
<1>1. CreatedIn(to) => CreatedIn(to)' BY DEF Grown, CreatedIn
<1>2. to \in Workspaces /\ TookOver(to) => TookOver(to)' BY DEF Grown, TookOver, Sites
<1> QED BY <1>1, <1>2 DEF Backed

LEMMA PlacesSame == ASSUME Places, UNCHANGED <<log, place, edit>> PROVE Places'
BY DEF Places, Backed, CreatedIn, TookOver

(* A new event, and the row that follows it. *)
LEMMA PlacesKept ==
  ASSUME TypeOK, Places, NEW s \in Sites, NEW e \in Events,
         log' = [log EXCEPT ![s] = Append(@, e)], place' = Projected(s, e),
         Backed(e.to)',
         \A t \in Sites : edit'[t] \in {edit[t], None}
  PROVE  Places'
<1>1. /\ Grown
      /\ \A t \in Sites : t # s => log'[t] = log[t]
      /\ DOMAIN log'[s] = DOMAIN log[s] \union {Len(log[s]) + 1}
      /\ log'[s][Len(log[s]) + 1] = e
  BY Grows
<1> SUFFICES ASSUME NEW t \in Sites
             PROVE  /\ Backed(place[t])' /\ Backed(edit[t])'
                    /\ \A i \in DOMAIN log'[t] : Backed(log[t][i].to)'
  BY DEF Places
<1>2. Backed(place[t])'
  <2>1. place'[t] = place[t] \/ place'[t] = e.to BY DEF Projected, TypeOK
  <2>2. CASE place'[t] = e.to BY <2>2 DEF Backed, CreatedIn, TookOver
  <2>3. CASE place'[t] = place[t]
    <3>1. Backed(place[t]) BY DEF Places
    <3>2. \A to : Backed(to) => Backed(to)' BY <1>1, BackedKept
    <3> QED BY <2>3, <3>1, <3>2 DEF Backed, CreatedIn, TookOver
  <2> QED BY <2>1, <2>2, <2>3
<1>3. Backed(edit[t])'
  <2>1. CASE edit'[t] = None BY <2>1, SyncAssumption DEF Backed
  <2>2. CASE edit'[t] = edit[t]
    <3>1. Backed(edit[t]) BY DEF Places
    <3>2. \A to : Backed(to) => Backed(to)' BY <1>1, BackedKept
    <3> QED BY <2>2, <3>1, <3>2 DEF Backed, CreatedIn, TookOver
  <2> QED BY <2>1, <2>2
<1>4. ASSUME NEW i \in DOMAIN log'[t] PROVE Backed(log[t][i].to)'
  <2>1. (i \in DOMAIN log[t] /\ log'[t][i] = log[t][i]) \/ log'[t][i] = e
    BY <1>1 DEF Grown
  <2>2. CASE log'[t][i] = e BY <2>2 DEF Backed, CreatedIn, TookOver
  <2>3. CASE i \in DOMAIN log[t] /\ log'[t][i] = log[t][i]
    <3>1. Backed(log[t][i].to) BY <2>3 DEF Places
    <3>2. \A to : Backed(to) => Backed(to)' BY <1>1, BackedKept
    <3> QED BY <2>3, <3>1, <3>2 DEF Backed, CreatedIn, TookOver
  <2> QED BY <2>1, <2>2, <2>3
<1> QED BY <1>2, <1>3, <1>4

-------------------------------------------------------------------------------
(* What a replay does, and one of a workspace's own event at the control   *)
(* plane.                                                                  *)

LEMMA Replays ==
  ASSUME TypeOK, NEW s \in Sites, NEW seq, NEW e \in Events, NEW by \in Sites,
         Replay(s, seq, e, by)
  PROVE  /\ \/ Accepted(s, seq, e, by) /\ log' = [log EXCEPT ![s] = Append(@, e)] /\ place' = Projected(s, e)
            \/ ~Accepted(s, seq, e, by) /\ log' = log /\ place' = place
         /\ log' \in [Sites -> Seq(Events)]
         /\ owner' \in [Sites -> Sites \union {None}]
         /\ \A t \in Sites : owner[t] # None \/ t # s => owner'[t] = owner[t]
         /\ place' \in [Sites -> Sites]
<1>1. \/ Accepted(s, seq, e, by) /\ log' = [log EXCEPT ![s] = Append(@, e)] /\ place' = Projected(s, e)
      \/ ~Accepted(s, seq, e, by) /\ log' = log /\ place' = place
  BY DEF Replay
<1>2. log' \in [Sites -> Seq(Events)]
  <2>1. log \in [Sites -> Seq(Events)] BY DEF TypeOK
  <2> QED BY <1>1, <2>1, Grows
<1>3. owner' = owner \/ (owner[s] = None /\ owner' = [owner EXCEPT ![s] = by])
  BY DEF Replay
<1>4. owner \in [Sites -> Sites \union {None}] BY DEF TypeOK
<1>5. place' \in [Sites -> Sites]
  <2>1. place \in [Sites -> Sites] BY DEF TypeOK
  <2>2. Projected(s, e) \in [Sites -> Sites] BY <2>1 DEF Projected, Events
  <2> QED BY <1>1, <2>1, <2>2
<1> QED BY <1>1, <1>2, <1>3, <1>4, <1>5

LEMMA NothingGrows == TypeOK /\ log' = log => Grown /\ log' \in [Sites -> Seq(Events)]
BY DEF Grown, TypeOK

(* What is stored at the control plane was made there, or by a workspace   *)
(* that is not fenced out.                                                 *)
Stores ==
  \A i \in DOMAIN log'[Here] : i \notin DOMAIN log[Here] =>
    \A w \in Workspaces : log'[Here][i].by = w => ~Fenced(Here, w)

LEMMA ReplayPlaces ==
  ASSUME TypeOK, Places, NEW s \in Sites, NEW seq, NEW e \in Events, NEW by \in Sites,
         Replay(s, seq, e, by), Backed(e.to), edit' = edit
  PROVE  Places'
<1>1. CASE log' = [log EXCEPT ![s] = Append(@, e)] /\ place' = Projected(s, e)
  <2>1. Grown BY <1>1, Grows
  <2>2. Backed(e.to)'
    <3>1. \A to : Backed(to) => Backed(to)' BY <2>1, BackedKept
    <3> QED BY <3>1 DEF Backed, CreatedIn, TookOver
  <2> QED BY <1>1, <2>2, PlacesKept
<1>2. CASE log' = log /\ place' = place BY <1>2, PlacesSame
<1> QED BY <1>1, <1>2, Replays

LEMMA ReplayedHere ==
  ASSUME TypeOK, Authors, Places,
         NEW w \in Workspaces, NEW seq, NEW e,
         seq \in DOMAIN log[w], log[w][seq] = e,
         Replay(Here, seq, e, w), edit' = edit
  PROVE  /\ Grown /\ Authors' /\ Places' /\ Stores
         /\ \A i \in DOMAIN log'[Here] : i \in DOMAIN log[Here] \/
              (~Fenced(Here, w) /\ i \in DOMAIN log'[w] /\ log'[w][i] = log'[Here][i])
<1>s. w \in Sites /\ Here \in Sites /\ w # Here /\ None # w /\ None # Here
  BY SyncAssumption DEF Sites
<1>e. e \in Events BY <1>s, Indices DEF TypeOK
<1>p. Places' BY <1>e, <1>s, ReplayPlaces DEF Places
<1>1. CASE Accepted(Here, seq, e, w) /\ log' = [log EXCEPT ![Here] = Append(@, e)]
  <2>1. seq = Len(log[Here]) + 1 /\ ~Fenced(Here, w) /\ e \notin Range(log[Here])
    BY <1>1 DEF Accepted
  <2>2. e.by = w BY <2>1 DEF Authors
  <2>3. /\ Grown
        /\ \A t \in Sites : t # Here => log'[t] = log[t]
        /\ DOMAIN log'[Here] = DOMAIN log[Here] \union {seq}
        /\ log'[Here][seq] = e
    BY <1>1, <1>e, <1>s, <2>1, Grows
  <2>4. Authors' BY <1>1, <1>e, <1>s, AuthorsKept DEF Sound
  <2>5. \A i \in DOMAIN log'[Here] : i \in DOMAIN log[Here] \/
          (~Fenced(Here, w) /\ i \in DOMAIN log'[w] /\ log'[w][i] = log'[Here][i])
    BY <1>s, <2>1, <2>3
  <2>6. Stores BY <2>1, <2>2, <2>3 DEF Stores
  <2> QED BY <1>p, <2>3, <2>4, <2>5, <2>6
<1>2. CASE log' = log
  BY <1>2, <1>p, NothingGrows DEF Authors, Stores
<1> QED BY <1>1, <1>2, <1>e, <1>s, Replays

-------------------------------------------------------------------------------
(* What growth leaves true. *)

Fiber == [at : {"sleep", "ask", "asked", "replay", "live", "dead"}, known : Nat, page : Pages]
Warp == [at : {"idle", "ask", "asked", "final", "claim", "patch", "rows", "send", "steal", "set"},
         from : Sites, to : Sites, known : Nat, page : Pages]

LEMMA PagesKept ==
  ASSUME PagesTrue, Grown,
         \A w \in Workspaces : sync'[w].page = sync[w].page \/ PartOf(sync'[w].page, log[w])
  PROVE  PagesTrue'
<1> SUFFICES ASSUME NEW w \in Workspaces PROVE PartOf(sync'[w].page, log'[w])
  BY DEF PagesTrue
<1>1. PartOf(sync'[w].page, log[w]) BY DEF PagesTrue
<1> QED BY <1>1 DEF Grown, PartOf, Sites

LEMMA WiresKept ==
  ASSUME WiresTrue, Grown,
         \A w \in Workspaces : \A k \in DOMAIN wire'[w] :
           \/ \E j \in DOMAIN wire[w] : wire'[w][k] = wire[w][j]
           \/ /\ wire'[w][k].seq \in DOMAIN log'[w]
              /\ log'[w][wire'[w][k].seq] = wire'[w][k].event
  PROVE  WiresTrue'
BY DEF WiresTrue, Grown, Sites

LEMMA WarpPageKept ==
  ASSUME WarpPageTrue, Grown, warp' = warp, TypeOK
  PROVE  WarpPageTrue'
<1>1. warp.from \in Sites /\ Here \in Sites BY DEF TypeOK, Sites
<1>2. \A s \in Sites : PartOf(warp.page, log[s]) => PartOf(warp.page, log'[s])
  BY DEF Grown, PartOf
<1> QED BY <1>1, <1>2 DEF WarpPageTrue

LEMMA MovingKept ==
  ASSUME TypeOK, TypeOK', Moving, Grown, warp' = warp,
         owner[Here] # None => owner'[Here] = owner[Here],
         Leaving /\ warp.at \in {"send", "steal", "set"} /\ warp.to # Here =>
           \A i \in DOMAIN log'[Here] :
             i \notin DOMAIN log[Here] => log'[Here][i].by = Here \/ Same(i)'
  PROVE  Moving'
<1>t. warp.to \in Sites /\ Here \in Sites /\ None \notin Sites
  BY SyncAssumption DEF TypeOK, Sites
<1>s. \A i \in DOMAIN log[Here] : (Same(i) => Same(i)') /\ (Must(i)' => Must(i))
  BY <1>t DEF Grown, Same, Must
<1>l. /\ Len(log[Here]) \in Nat /\ DOMAIN log[Here] = 1 .. Len(log[Here])
      /\ Len(log'[Here]) \in Nat /\ DOMAIN log'[Here] = 1 .. Len(log'[Here])
      /\ warp.known \in Nat
  <2>1. log[Here] \in Seq(Events) /\ log'[Here] \in Seq(Events) BY <1>t DEF TypeOK
  <2> QED BY <2>1, Indices DEF TypeOK
<1>r. Len(log[Here]) <= Len(log'[Here])
  <2>1. CASE Len(log[Here]) = 0 BY <1>l, <2>1
  <2>2. CASE Len(log[Here]) # 0
    <3>1. Len(log[Here]) \in DOMAIN log[Here] BY <1>l, <2>2
    <3>2. Len(log[Here]) \in DOMAIN log'[Here] BY <1>t, <3>1 DEF Grown
    <3> QED BY <1>l, <3>2
  <2> QED BY <2>1, <2>2
<1>n. ASSUME Leaving, warp.at \in {"send", "steal", "set"}, warp.to # Here,
             NEW i \in DOMAIN log'[Here], i \notin DOMAIN log[Here], Must(i)'
      PROVE  Same(i)'
  <2>1. ~(i <= warp.known) BY <1>l, <1>n DEF Moving, RowsRead
  <2>2. log'[Here][i].by # Here BY <1>n, <2>1 DEF Must
  <2> QED BY <1>n, <2>2
<1>1. WarpShape' BY DEF Moving, WarpShape, Leaving
<1>2. Claimed' BY <1>t DEF Moving, Claimed, Leaving
<1>3. RowsRead' BY <1>l, <1>r DEF Moving, RowsRead
<1>4. Sent'
  <2> SUFFICES ASSUME Leaving, warp.at = "send", NEW i \in DOMAIN log'[Here], Must(i)',
                      i \notin warp.page.from + 1 .. warp.page.from + Len(warp.page.rows)
               PROVE  Same(i)'
    BY DEF Sent, Leaving
  <2>1. warp.to # Here BY DEF Moving, WarpShape
  <2>2. CASE i \in DOMAIN log[Here] BY <1>s, <2>2 DEF Moving, Sent
  <2>3. CASE i \notin DOMAIN log[Here] BY <1>n, <2>1, <2>3
  <2> QED BY <2>2, <2>3
<1>5. Delivered'
  <2> SUFFICES ASSUME Leaving, warp.at \in {"steal", "set"}, warp.to # Here,
                      NEW i \in DOMAIN log'[Here], Must(i)'
               PROVE  Same(i)'
    BY DEF Delivered, Leaving
  <2>1. CASE i \in DOMAIN log[Here] BY <1>s, <2>1 DEF Moving, Delivered
  <2>2. CASE i \notin DOMAIN log[Here] BY <1>n, <2>2
  <2> QED BY <2>1, <2>2
<1>6. Stolen' BY <1>t DEF Moving, Stolen, TookOver, Grown
<1> QED BY <1>1, <1>2, <1>3, <1>4, <1>5, <1>6 DEF Moving

-------------------------------------------------------------------------------
(* Steps of the loops. *)

LEMMA Sleepers ==
  /\ Asleep \in Fiber /\ Asleep.page = NoPage
  /\ \A at \in {"ask", "live", "dead"} :
       [Asleep EXCEPT !.at = at] \in Fiber /\ [Asleep EXCEPT !.at = at].page = NoPage
BY EmptyPage DEF Asleep, Fiber

LEMMA Silence ==
  ASSUME TypeOK, NEW w \in Workspaces, wire' = wire \/ Silent(w)
  PROVE  /\ wire' \in [Workspaces -> Seq(Message)]
         /\ \A v \in Workspaces : \A k \in DOMAIN wire'[v] :
              \E j \in DOMAIN wire[v] : wire'[v][k] = wire[v][j]
<1>1. wire \in [Workspaces -> Seq(Message)] BY DEF TypeOK, Message
<1>2. <<>> \in Seq(Message) BY EmptySeq
<1>3. DOMAIN <<>> = {} OBVIOUS
<1>4. \A v \in Workspaces : wire'[v] = wire[v] \/ wire'[v] = <<>> BY <1>1 DEF Silent
<1>5. wire' \in [Workspaces -> Seq(Message)] BY <1>1, <1>2 DEF Silent
<1> QED BY <1>3, <1>4, <1>5

LEMMA LoopMoves ==
  ASSUME IInv, NEW w \in Workspaces, NEW f \in Fiber, PartOf(f.page, log[w]), Moves(w, f),
         wire' = wire \/ Silent(w),
         UNCHANGED <<log, owner, place, edit, warp, work, warps>>
  PROVE  IInv' /\ Stores
<1>t. TypeOK BY DEF IInv
<1>1. Grown BY <1>t, NothingGrows
<1>2. sync \in [Workspaces -> Fiber] BY <1>t DEF TypeOK, Fiber
<1>3. sync' \in [Workspaces -> Fiber] BY <1>2 DEF Moves
<1>4. \A v \in Workspaces : sync'[v].page = sync[v].page \/ PartOf(sync'[v].page, log[v])
  BY <1>2 DEF Moves
<1>5. wire' \in [Workspaces -> Seq(Message)] BY <1>t, Silence
<1>6. TypeOK' BY <1>t, <1>3, <1>5 DEF TypeOK, Fiber, Message
<1>7. PagesTrue' BY <1>1, <1>4, PagesKept DEF IInv, Wires
<1>8. WiresTrue' BY <1>t, <1>1, Silence, WiresKept DEF IInv, Wires
<1>9. WarpPageTrue' BY <1>t, <1>1, WarpPageKept DEF IInv, Wires
<1>10. Authors' /\ Places' BY PlacesSame DEF IInv, Authors
<1>11. Moving' BY <1>t, <1>6, <1>1, MovingKept DEF IInv
<1>12. Stores BY DEF Stores
<1> QED BY <1>6, <1>7, <1>8, <1>9, <1>10, <1>11, <1>12 DEF IInv, Wires

(* The loop of w hands an event of w to the control plane, or drops it. *)
LEMMA FromLoop ==
  ASSUME IInv, NEW w \in Workspaces, NEW seq, NEW e,
         seq \in DOMAIN log[w], log[w][seq] = e,
         Replay(Here, seq, e, w) \/ UNCHANGED <<log, owner, place>>,
         sync' \in [Workspaces -> Fiber],
         \A v \in Workspaces : sync'[v].page = sync[v].page \/ PartOf(sync'[v].page, log[v]),
         wire' \in [Workspaces -> Seq(Message)],
         \A v \in Workspaces : \A k \in DOMAIN wire'[v] :
           \E j \in DOMAIN wire[v] : wire'[v][k] = wire[v][j],
         UNCHANGED <<edit, warp, work, warps>>
  PROVE  IInv' /\ Stores
<1>t. TypeOK BY DEF IInv
<1>s. w \in Sites /\ Here \in Sites /\ w # None BY SyncAssumption DEF Sites
<1>e. e \in Events BY <1>t, <1>s, Indices DEF TypeOK
<1>1. /\ log' \in [Sites -> Seq(Events)] /\ owner' \in [Sites -> Sites \union {None}]
      /\ place' \in [Sites -> Sites]
      /\ owner[Here] # None => owner'[Here] = owner[Here]
  <2>1. CASE Replay(Here, seq, e, w) BY <2>1, <1>t, <1>s, <1>e, Replays
  <2>2. CASE UNCHANGED <<log, owner, place>> BY <2>2, <1>t DEF TypeOK
  <2> QED BY <2>1, <2>2
<1>2. /\ Grown /\ Authors' /\ Places' /\ Stores
      /\ \A i \in DOMAIN log'[Here] : i \in DOMAIN log[Here] \/
           (~Fenced(Here, w) /\ i \in DOMAIN log'[w] /\ log'[w][i] = log'[Here][i])
  <2>1. CASE Replay(Here, seq, e, w) BY <2>1, <1>t, ReplayedHere DEF IInv
  <2>2. CASE UNCHANGED <<log, owner, place>>
    BY <2>2, <1>t, NothingGrows, PlacesSame DEF IInv, Authors, Stores
  <2> QED BY <2>1, <2>2
<1>3. TypeOK' BY <1>t, <1>1 DEF TypeOK, Fiber, Message
<1>4. Wires'
  <2>1. PagesTrue' BY <1>2, PagesKept DEF IInv, Wires
  <2>2. WiresTrue' BY <1>2, WiresKept DEF IInv, Wires
  <2>3. WarpPageTrue' BY <1>t, <1>2, WarpPageKept DEF IInv, Wires
  <2> QED BY <2>1, <2>2, <2>3 DEF Wires
<1>5. Moving'
  <2>1. ASSUME Leaving, warp.at \in {"send", "steal", "set"}, warp.to # Here,
               NEW i \in DOMAIN log'[Here], i \notin DOMAIN log[Here]
        PROVE  Same(i)'
    <3>1. owner[Here] = warp.to /\ warp.to # None
      BY <1>t, <2>1, SyncAssumption DEF IInv, Moving, Claimed, TypeOK, Sites
    <3>2. ~Fenced(Here, w) /\ i \in DOMAIN log'[w] /\ log'[w][i] = log'[Here][i] BY <1>2, <2>1
    <3>3. w = warp.to BY <3>1, <3>2 DEF Fenced
    <3> QED BY <3>2, <3>3 DEF Same
  <2> QED BY <1>t, <1>1, <1>2, <1>3, <2>1, MovingKept DEF IInv
<1> QED BY <1>2, <1>3, <1>4, <1>5 DEF IInv

LEMMA ReplayHistoryKeeps ==
  ASSUME IInv, NEW w \in Workspaces, ReplayHistory(w) PROVE IInv' /\ Stores
<1>t. TypeOK BY DEF IInv
<1> DEFINE p == sync[w].page
<1>1. sync \in [Workspaces -> Fiber] BY <1>t DEF TypeOK, Fiber
<1>2. p \in Pages /\ p.rows # <<>> /\ PartOf(p, log[w])
  BY <1>1 DEF ReplayHistory, Fiber, IInv, Wires, PagesTrue
<1>3. /\ TailPage(p) \in Pages /\ PartOf(TailPage(p), log[w])
      /\ p.from + 1 \in DOMAIN log[w] /\ log[w][p.from + 1] = Head(p.rows)
  BY <1>2, TailOf
<1>4. CASE Dies(Here, p.from + 1, Head(p.rows), w)
  <2>1. Moves(w, [Asleep EXCEPT !.at = "dead"]) /\ Silent(w) /\ UNCHANGED <<log, owner, place, edit, warp, work, warps>>
    BY <1>4 DEF ReplayHistory
  <2> QED BY <2>1, Sleepers, EmptyPage, LoopMoves
<1>5. CASE ~Dies(Here, p.from + 1, Head(p.rows), w)
  <2>1. /\ Replay(Here, p.from + 1, Head(p.rows), w)
        /\ sync' = [sync EXCEPT ![w] = [sync[w] EXCEPT !.page = TailPage(p)]]
        /\ UNCHANGED <<edit, wire, warp, work, warps>>
    BY <1>5 DEF ReplayHistory, Moves
  <2>2. [sync[w] EXCEPT !.page = TailPage(p)] \in Fiber BY <1>1, <1>3 DEF Fiber
  <2>3. sync' \in [Workspaces -> Fiber] BY <1>1, <2>1, <2>2
  <2>4. \A v \in Workspaces : sync'[v].page = sync[v].page \/ PartOf(sync'[v].page, log[v])
    <3>1. sync'[w].page = TailPage(p) BY <1>1, <2>1 DEF Fiber
    <3>2. \A v \in Workspaces : v # w => sync'[v] = sync[v] BY <1>1, <2>1
    <3> QED BY <1>3, <3>1, <3>2
  <2>5. /\ wire' \in [Workspaces -> Seq(Message)]
        /\ \A v \in Workspaces : \A k \in DOMAIN wire'[v] :
             \E j \in DOMAIN wire[v] : wire'[v][k] = wire[v][j]
    BY <1>t, <2>1 DEF TypeOK, Message
  <2> QED BY <1>3, <2>1, <2>3, <2>4, <2>5, FromLoop
<1> QED BY <1>4, <1>5

LEMMA ReceiveKeeps ==
  ASSUME IInv, NEW w \in Workspaces, Receive(w) PROVE IInv' /\ Stores
<1>t. TypeOK BY DEF IInv
<1> DEFINE m == Head(wire[w])
<1>1. wire \in [Workspaces -> Seq(Message)] /\ wire[w] \in Seq(Message) /\ wire[w] # <<>>
  BY <1>t DEF TypeOK, Message, Receive
<1>2. /\ Tail(wire[w]) \in Seq(Message)
      /\ Len(Tail(wire[w])) = Len(wire[w]) - 1
      /\ \A k \in 1 .. Len(Tail(wire[w])) : Tail(wire[w])[k] = wire[w][k + 1]
  BY <1>1, HeadTailProperties
<1>3. /\ DOMAIN wire[w] = 1 .. Len(wire[w]) /\ Len(wire[w]) \in Nat /\ Len(wire[w]) > 0
      /\ DOMAIN Tail(wire[w]) = 1 .. Len(Tail(wire[w]))
  BY <1>1, <1>2, LenProperties, EmptySeq
<1>4. m = wire[w][1] BY <1>1
<1>5. m.seq \in DOMAIN log[w] /\ log[w][m.seq] = m.event
  BY <1>3, <1>4 DEF IInv, Wires, WiresTrue
<1>6. wire' = [wire EXCEPT ![w] = Tail(wire[w])] /\ UNCHANGED <<edit, sync, warp, work, warps>>
  BY DEF Receive
<1>7. wire' \in [Workspaces -> Seq(Message)] BY <1>1, <1>2, <1>6
<1>8. \A v \in Workspaces : \A k \in DOMAIN wire'[v] :
        \E j \in DOMAIN wire[v] : wire'[v][k] = wire[v][j]
  <2> SUFFICES ASSUME NEW v \in Workspaces, NEW k \in DOMAIN wire'[v]
               PROVE  \E j \in DOMAIN wire[v] : wire'[v][k] = wire[v][j]
    OBVIOUS
  <2>1. CASE v # w BY <1>1, <1>6, <2>1
  <2>2. CASE v = w
    <3>1. wire'[w] = Tail(wire[w]) BY <1>1, <1>6
    <3>2. k \in 1 .. Len(Tail(wire[w])) BY <1>3, <2>2, <3>1
    <3>3. k + 1 \in DOMAIN wire[w] BY <1>2, <1>3, <3>2
    <3> QED BY <1>2, <2>2, <3>1, <3>2, <3>3
  <2> QED BY <2>1, <2>2
<1>9. Replay(Here, m.seq, m.event, w) \/ UNCHANGED <<log, owner, place>> BY DEF Receive
<1>10. sync' \in [Workspaces -> Fiber] BY <1>t, <1>6 DEF TypeOK, Fiber
<1> HIDE DEF m
<1> QED BY <1>5, <1>6, <1>7, <1>8, <1>9, <1>10, FromLoop

LEMMA LoopKeeps ==
  ASSUME IInv, NEW w \in Workspaces, LoopStep(w) \/ AnswerLost(w) \/ Drop(w) \/ Restart(w)
  PROVE  IInv' /\ Stores
<1>t. TypeOK BY DEF IInv
<1>l. log[w] \in Seq(Events) /\ log[Here] \in Seq(Events) BY <1>t DEF TypeOK, Sites
<1>1. CASE Connect(w) \/ GoLive(w) \/ AnswerLost(w) \/ Drop(w) \/ Restart(w)
  BY <1>1, Sleepers, EmptyPage, LoopMoves DEF Connect, GoLive, AnswerLost, Drop, Restart
<1>2. CASE Ask(w)
  <2> DEFINE f == [Asleep EXCEPT !.at = "asked", !.known = KnownOf(w)]
  <2>1. KnownOf(w) \in Nat BY <1>l, Indices DEF KnownOf
  <2>2. f \in Fiber /\ f.page = NoPage BY <2>1, Sleepers DEF Fiber
  <2>3. Moves(w, f) /\ UNCHANGED <<log, owner, place, edit, wire, warp, work, warps>> BY <1>2 DEF Ask
  <2> QED BY <2>2, <2>3, EmptyPage, LoopMoves
<1>3. CASE Answer(w)
  <2> DEFINE page == After(log[w], sync[w].known)
             f == [Asleep EXCEPT !.at = "replay", !.page = page]
  <2>1. sync[w].known \in Nat BY <1>t DEF TypeOK
  <2>2. page \in Pages /\ PartOf(page, log[w]) BY <1>l, <2>1, AfterPage
  <2>3. Moves(w, f) /\ UNCHANGED <<log, owner, place, edit, wire, warp, work, warps>> BY <1>3 DEF Answer
  <2> HIDE DEF page
  <2>4. f \in Fiber /\ f.page = page BY <2>2, Sleepers DEF Fiber
  <2> QED BY <2>2, <2>3, <2>4, LoopMoves
<1> QED BY <1>1, <1>2, <1>3, ReplayHistoryKeeps, ReceiveKeeps DEF LoopStep

-------------------------------------------------------------------------------
(* Events of a site's own. *)

LEMMA Publishes ==
  ASSUME TypeOK, WiresTrue, NEW s \in Sites, NEW to \in Sites \union {None}, Publish(s, to)
  PROVE  /\ NewEvent(s, to) \in Events /\ NewEvent(s, to).by = s /\ NewEvent(s, to).to = to
         /\ log' = [log EXCEPT ![s] = Append(@, NewEvent(s, to))]
         /\ place' = Projected(s, NewEvent(s, to)) /\ place' \in [Sites -> Sites]
         /\ wire' \in [Workspaces -> Seq(Message)]
         /\ WiresTrue'
<1> DEFINE e == NewEvent(s, to)
           m == [seq |-> Len(log[s]) + 1, event |-> e]
<1>1. e \in Events /\ e.by = s /\ e.to = to BY NewEvents
<1>2. log' = [log EXCEPT ![s] = Append(@, e)] /\ place' = Projected(s, e) BY DEF Publish
<1>3. place' \in [Sites -> Sites] BY <1>1, <1>2 DEF Projected, TypeOK
<1>4. wire' = wire \/ (s \in Workspaces /\ wire' = [wire EXCEPT ![s] = Append(@, m)])
  BY DEF Publish
<1>5. wire \in [Workspaces -> Seq(Message)] BY DEF TypeOK, Message
<1>g. /\ Grown
      /\ DOMAIN log'[s] = DOMAIN log[s] \union {Len(log[s]) + 1}
      /\ log'[s][Len(log[s]) + 1] = e
  BY <1>1, <1>2, Grows
<1>6. m \in Message /\ m.seq = Len(log[s]) + 1 /\ m.event = e
  <2>1. log[s] \in Seq(Events) BY DEF TypeOK
  <2>2. Len(log[s]) + 1 \in Nat BY <2>1, Indices
  <2> QED BY <1>1, <2>2 DEF Message
<1> HIDE DEF e, m
<1>7. CASE wire' = wire
  <2>1. WiresTrue' BY <1>7, <1>g, WiresKept
  <2> QED BY <1>1, <1>2, <1>3, <1>5, <1>7, <2>1 DEF e
<1>8. CASE s \in Workspaces /\ wire' = [wire EXCEPT ![s] = Append(@, m)]
  <2>1. wire[s] \in Seq(Message) /\ wire'[s] = Append(wire[s], m)
    BY <1>5, <1>8
  <2>2. /\ wire'[s] \in Seq(Message)
        /\ Len(wire'[s]) = Len(wire[s]) + 1
        /\ \A k \in 1 .. Len(wire[s]) : wire'[s][k] = wire[s][k]
        /\ wire'[s][Len(wire[s]) + 1] = m
    BY <1>6, <2>1, AppendProperties
  <2>3. /\ DOMAIN wire[s] = 1 .. Len(wire[s]) /\ Len(wire[s]) \in Nat
        /\ DOMAIN wire'[s] = 1 .. Len(wire'[s])
    BY <2>1, <2>2, LenProperties
  <2>4. wire' \in [Workspaces -> Seq(Message)] BY <1>5, <1>8, <2>1, <2>2
  <2>5. ASSUME NEW w \in Workspaces, NEW k \in DOMAIN wire'[w]
        PROVE  \/ \E j \in DOMAIN wire[w] : wire'[w][k] = wire[w][j]
               \/ /\ wire'[w][k].seq \in DOMAIN log'[w]
                  /\ log'[w][wire'[w][k].seq] = wire'[w][k].event
    <3>1. CASE w # s BY <1>5, <1>8, <2>5, <3>1
    <3>2. CASE w = s /\ k = Len(wire[s]) + 1
      BY <1>6, <1>g, <2>2, <3>2
    <3>3. CASE w = s /\ k # Len(wire[s]) + 1
      BY <2>2, <2>3, <2>5, <3>3
    <3> QED BY <3>1, <3>2, <3>3
  <2>6. WiresTrue' BY <1>g, <2>5, WiresKept
  <2> QED BY <1>1, <1>2, <1>3, <2>4, <2>6 DEF e
<1> QED BY <1>4, <1>7, <1>8

LEMMA PublishKeeps ==
  ASSUME IInv, NEW s \in Sites, NEW to \in Sites \union {None}, Publish(s, to), Backed(to),
         UNCHANGED <<owner, sync, warp, warps>>, work' \in Nat,
         edit' \in [Sites -> Sites \union {None}], \A t \in Sites : edit'[t] \in {edit[t], None}
  PROVE  IInv' /\ Stores
<1>t. TypeOK /\ WiresTrue BY DEF IInv, Wires
<1>n. Here \in Sites /\ Here \notin Workspaces BY SyncAssumption DEF Sites
<1>1. PICK e \in Events :
      /\ e.by = s /\ e.to = to
      /\ log' = [log EXCEPT ![s] = Append(@, e)]
      /\ wire' \in [Workspaces -> Seq(Message)] /\ WiresTrue'
      /\ place' = Projected(s, e) /\ place' \in [Sites -> Sites]
  BY <1>t, Publishes
<1>2. /\ Grown /\ log' \in [Sites -> Seq(Events)]
      /\ \A t \in Sites : t # s => log'[t] = log[t]
      /\ DOMAIN log'[s] = DOMAIN log[s] \union {Len(log[s]) + 1}
      /\ log'[s][Len(log[s]) + 1] = e
  BY <1>t, <1>1, Grows
<1>3. TypeOK' BY <1>t, <1>1, <1>2 DEF TypeOK, Message
<1>4. PagesTrue' BY <1>2, PagesKept DEF IInv, Wires
<1>5. WarpPageTrue' BY <1>t, <1>2, WarpPageKept DEF IInv, Wires
<1>6. Authors' BY <1>t, <1>1, AuthorsKept DEF IInv, Sound
<1>7. Places'
  <2>1. Backed(to)' BY <1>2, BackedKept
  <2>2. Backed(e.to)' BY <1>1, <2>1
  <2> QED BY <1>t, <1>1, <2>2, PlacesKept DEF IInv
<1>8. \A i \in DOMAIN log'[Here] : i \notin DOMAIN log[Here] => log'[Here][i].by = Here
  BY <1>n, <1>1, <1>2
<1>9. Moving' BY <1>t, <1>2, <1>3, <1>8, MovingKept DEF IInv
<1>10. Stores BY <1>n, <1>8 DEF Stores
<1> QED BY <1>1, <1>3, <1>4, <1>5, <1>6, <1>7, <1>9, <1>10 DEF IInv, Wires

LEMMA WorkKeeps ==
  ASSUME IInv, NEW s \in Sites, Work(s) \/ ReadInfo(s) \/ Updated(s) PROVE IInv' /\ Stores
<1>t. TypeOK BY DEF IInv
<1>n. Here \in Sites /\ Here \notin Workspaces /\ None \notin Workspaces
  BY SyncAssumption DEF Sites
<1>w. work + 1 \in Nat BY <1>t DEF TypeOK
<1>e. edit \in [Sites -> Sites \union {None}] BY <1>t DEF TypeOK
<1>1. CASE Work(s)
  <2>1. PICK to \in {None, Here} : Publish(s, to) BY <1>1 DEF Work
  <2>2. UNCHANGED <<owner, edit, sync, warp, warps>> /\ work' = work + 1
    BY <1>1 DEF Work, Works
  <2>3. Backed(to) /\ to \in Sites \union {None} BY <1>n DEF Backed
  <2> QED BY <1>w, <1>e, <2>1, <2>2, <2>3, PublishKeeps
<1>2. CASE ReadInfo(s)
  <2>1. /\ edit' = [edit EXCEPT ![s] = place[s]] /\ work' = work + 1
        /\ UNCHANGED <<log, owner, place, sync, wire, warp, warps>>
    BY <1>2 DEF ReadInfo, Works
  <2>2. TypeOK' BY <1>t, <1>w, <2>1 DEF TypeOK
  <2>3. Grown BY <1>t, <2>1, NothingGrows
  <2>4. Wires'
    BY <2>1 DEF IInv, Wires, PagesTrue, WiresTrue, WarpPageTrue
  <2>5. Authors' BY <2>1 DEF IInv, Authors
  <2>6. Places'
    <3>1. \A t \in Sites : edit'[t] = edit[t] \/ edit'[t] = place[t] BY <1>e, <2>1
    <3> QED BY <2>1, <3>1 DEF IInv, Places, Backed, CreatedIn, TookOver
  <2>7. Moving' BY <1>t, <2>1, <2>2, <2>3, MovingKept DEF IInv
  <2>8. Stores BY <2>1 DEF Stores
  <2> QED BY <2>2, <2>4, <2>5, <2>6, <2>7, <2>8 DEF IInv
<1>3. CASE Updated(s)
  <2>1. /\ Publish(s, edit[s]) /\ edit' = [edit EXCEPT ![s] = None]
        /\ UNCHANGED <<owner, sync, warp, work, warps>>
    BY <1>3 DEF Updated
  <2>2. Backed(edit[s]) /\ edit[s] \in Sites \union {None} BY <1>e DEF IInv, Places
  <2>3. /\ edit' \in [Sites -> Sites \union {None}]
        /\ \A t \in Sites : edit'[t] \in {edit[t], None}
    BY <1>e, <2>1
  <2>4. work' \in Nat BY <1>t, <2>1 DEF TypeOK
  <2> QED BY <2>1, <2>2, <2>3, <2>4, PublishKeeps
<1> QED BY <1>1, <1>2, <1>3

-------------------------------------------------------------------------------
(* Steps of a warp. *)

LEMMA WarpIsRecord == TypeOK => warp \in Warp
BY DEF TypeOK, Warp

(* A warp that has begun to leave, or to go, a workspace. *)
LEMMA Ends ==
  ASSUME IInv
  PROVE  /\ Here \in Sites /\ None \notin Sites
         /\ Leaving => warp.from \in Workspaces
         /\ warp.to # Here => warp.to \in Workspaces
BY SyncAssumption DEF IInv, TypeOK, Leaving, Sites

LEMMA WarpMoves ==
  ASSUME IInv, warp' \in Warp, UNCHANGED <<log, place, edit, sync, wire>>,
         owner' \in [Sites -> Sites \union {None}], work' \in Nat, warps' \in Nat,
         WarpPageTrue', Moving'
  PROVE  IInv' /\ Stores
<1>1. TypeOK' BY DEF IInv, TypeOK, Warp
<1>2. PagesTrue' BY DEF IInv, Wires, PagesTrue
<1>3. WiresTrue' BY DEF IInv, Wires, WiresTrue
<1>4. Authors' BY DEF IInv, Authors
<1>5. Places' BY PlacesSame DEF IInv
<1>6. Stores BY DEF Stores
<1> QED BY <1>1, <1>2, <1>3, <1>4, <1>5, <1>6 DEF IInv, Wires

LEMMA IdleWarp ==
  /\ Idle \in Warp
  /\ Idle.at = "idle" /\ Idle.from = Here
  /\ warp' = Idle => WarpPageTrue' /\ Moving'
<1>1. Idle \in Warp /\ Idle.at = "idle" /\ Idle.from = Here
  BY EmptyPage DEF Idle, Warp, Sites
<1>2. warp' = Idle => WarpPageTrue' BY <1>1 DEF WarpPageTrue
<1>3. warp' = Idle => Moving'
  BY <1>1 DEF Moving, WarpShape, Claimed, RowsRead, Sent, Delivered, Stolen, Leaving
<1> QED BY <1>1, <1>2, <1>3

LEMMA WarpEnds ==
  ASSUME IInv, warp' = Idle, UNCHANGED <<log, owner, place, edit, sync, wire, work, warps>>
  PROVE  IInv' /\ Stores
BY IdleWarp, WarpMoves DEF IInv, TypeOK

LEMMA StartWarpKeeps ==
  ASSUME IInv, NEW to \in Sites, StartWarp(to) PROVE IInv' /\ Stores
<1> DEFINE from == place[Here]
           at == IF from # Here THEN "ask" ELSE IF to = Here THEN "set" ELSE "rows"
<1>t. TypeOK BY DEF IInv
<1>1. /\ warp' = [Idle EXCEPT !.at = at, !.from = from, !.to = to]
      /\ warps' = warps + 1
      /\ UNCHANGED <<log, owner, place, edit, sync, wire, work>>
  BY DEF StartWarp
<1>2. warp' \in Warp /\ warp'.at = at /\ warp'.from = from /\ warp'.to = to
  <2>1. from \in Sites BY <1>t DEF TypeOK, Sites
  <2>2. at \in {"ask", "set", "rows"} OBVIOUS
  <2> HIDE DEF at, from
  <2> QED BY <1>1, <2>1, <2>2, IdleWarp DEF Warp
<1>3. WarpPageTrue' BY <1>2 DEF WarpPageTrue
<1>4. Moving'
  BY <1>1, <1>2 DEF Moving, WarpShape, Claimed, RowsRead, Sent, Delivered, Stolen, Leaving
<1>5. warps' \in Nat BY <1>t, <1>1 DEF TypeOK
<1> QED BY <1>t, <1>1, <1>2, <1>3, <1>4, <1>5, WarpMoves DEF TypeOK

LEMMA ClaimKeeps == ASSUME IInv, Claim PROVE IInv' /\ Stores
<1>t. TypeOK BY DEF IInv
<1>1. /\ warp.at = "claim"
      /\ warp' = [warp EXCEPT !.at = "patch"] /\ owner' = [owner EXCEPT ![Here] = warp.to]
      /\ UNCHANGED <<log, place, edit, sync, wire, work, warps>>
  BY DEF Claim
<1>2. warp' \in Warp /\ warp'.at = "patch" /\ warp'.from = warp.from /\ warp'.to = warp.to
  BY <1>t, <1>1, WarpIsRecord DEF Warp
<1>3. owner' \in [Sites -> Sites \union {None}] /\ owner'[Here] = warp.to
  BY <1>t, <1>1 DEF TypeOK, Sites
<1>4. WarpPageTrue' BY <1>2 DEF WarpPageTrue
<1>5. Moving'
  BY <1>1, <1>2, <1>3 DEF IInv, Moving, WarpShape, Claimed, RowsRead, Sent, Delivered, Stolen, Leaving
<1> QED BY <1>t, <1>1, <1>2, <1>3, <1>4, <1>5, WarpMoves DEF TypeOK

LEMMA ReadRowsKeeps == ASSUME IInv, ReadRows PROVE IInv' /\ Stores
<1> DEFINE page == After(log[Here], 0)
<1>t. TypeOK /\ Here \in Sites BY DEF IInv, Sites
<1>1. /\ warp.at = "rows"
      /\ warp' = [warp EXCEPT !.at = "send", !.known = Len(log[Here]), !.page = page]
      /\ UNCHANGED <<log, owner, place, edit, sync, wire, work, warps>>
  BY DEF ReadRows
<1>2. log[Here] \in Seq(Events) /\ Len(log[Here]) \in Nat BY <1>t, Indices DEF TypeOK
<1>3. /\ page \in Pages /\ PartOf(page, log[Here]) /\ page.from = 0
      /\ Len(page.rows) = Len(log[Here])
  BY <1>2, AfterPage
<1> HIDE DEF page
<1>4. /\ warp' \in Warp /\ warp'.at = "send" /\ warp'.from = warp.from /\ warp'.to = warp.to
      /\ warp'.page = page /\ warp'.known = Len(log[Here])
  BY <1>t, <1>1, <1>2, <1>3, WarpIsRecord DEF Warp
<1>5. WarpPageTrue' BY <1>1, <1>3, <1>4 DEF WarpPageTrue
<1>6. Sent'
  <2>1. 0 + 1 .. 0 + Len(log[Here]) = DOMAIN log[Here] BY <1>2, Indices
  <2> QED BY <1>1, <1>3, <1>4, <2>1 DEF Sent
<1>7. RowsRead' BY <1>1, <1>2, <1>4 DEF RowsRead
<1>8. Moving'
  BY <1>1, <1>4, <1>6, <1>7 DEF IInv, Moving, WarpShape, Claimed, Delivered, Stolen, Leaving
<1> QED BY <1>t, <1>1, <1>4, <1>5, <1>8, WarpMoves DEF TypeOK

LEMMA LeavingKeeps ==
  ASSUME IInv, WarpAsk \/ WarpAnswer \/ WarpAnswerLost \/ Patch PROVE IInv' /\ Stores
<1>t. TypeOK BY DEF IInv
<1>w. warp \in Warp BY <1>t, WarpIsRecord
<1>0. UNCHANGED <<log, owner, place, edit, sync, wire, work, warps>>
  BY DEF WarpAsk, WarpAnswer, WarpAnswerLost, Patch
<1>1. CASE WarpAsk
  <2>1. KnownOf(warp.from) \in Nat
    <3>1. log[Here] \in Seq(Events) BY <1>t DEF TypeOK, Sites
    <3> QED BY <3>1, Indices DEF KnownOf
  <2>2. warp.at = "ask" /\ warp' = [warp EXCEPT !.at = "asked", !.known = KnownOf(warp.from)]
    BY <1>1 DEF WarpAsk
  <2>3. warp' \in Warp /\ warp'.at = "asked" /\ warp'.from = warp.from
    BY <1>w, <2>1, <2>2 DEF Warp
  <2>4. WarpPageTrue' BY <2>3 DEF WarpPageTrue
  <2>5. Moving'
    BY <1>0, <2>2, <2>3 DEF IInv, Moving, WarpShape, Claimed, RowsRead, Sent, Delivered, Stolen, Leaving
  <2> QED BY <1>t, <1>0, <2>3, <2>4, <2>5, WarpMoves DEF TypeOK
<1>2. CASE WarpAnswer
  <2> DEFINE page == After(log[warp.from], warp.known)
  <2>1. page \in Pages /\ PartOf(page, log[warp.from])
    <3>1. log[warp.from] \in Seq(Events) /\ warp.known \in Nat BY <1>t DEF TypeOK
    <3> QED BY <3>1, AfterPage
  <2>2. warp.at = "asked" /\ warp' = [warp EXCEPT !.at = "final", !.page = page, !.known = 0]
    BY <1>2 DEF WarpAnswer
  <2> HIDE DEF page
  <2>3. warp' \in Warp /\ warp'.at = "final" /\ warp'.from = warp.from /\ warp'.page = page
    BY <1>w, <2>1, <2>2 DEF Warp
  <2>4. WarpPageTrue' BY <1>0, <2>1, <2>3 DEF WarpPageTrue
  <2>5. Moving'
    BY <1>0, <2>2, <2>3 DEF IInv, Moving, WarpShape, Claimed, RowsRead, Sent, Delivered, Stolen, Leaving
  <2> QED BY <1>t, <1>0, <2>3, <2>4, <2>5, WarpMoves DEF TypeOK
<1>3. CASE WarpAnswerLost
  <2>1. warp.at = "asked" /\ warp' = [warp EXCEPT !.at = "claim", !.known = 0]
    BY <1>3 DEF WarpAnswerLost
  <2>2. warp' \in Warp /\ warp'.at = "claim" /\ warp'.from = warp.from
    BY <1>w, <2>1 DEF Warp
  <2>3. WarpPageTrue' BY <2>2 DEF WarpPageTrue
  <2>4. Moving'
    BY <1>0, <2>1, <2>2 DEF IInv, Moving, WarpShape, Claimed, RowsRead, Sent, Delivered, Stolen, Leaving
  <2> QED BY <1>t, <1>0, <2>2, <2>3, <2>4, WarpMoves DEF TypeOK
<1>4. CASE Patch
  <2> DEFINE at == IF warp.to = Here THEN "set" ELSE "rows"
  <2>1. warp.at = "patch" /\ warp' = [warp EXCEPT !.at = at]
    BY <1>4 DEF Patch
  <2>2. warp' \in Warp /\ warp'.at = at /\ warp'.from = warp.from /\ warp'.to = warp.to
    <3>1. at \in {"set", "rows"} OBVIOUS
    <3> HIDE DEF at
    <3> QED BY <1>w, <2>1, <3>1 DEF Warp
  <2>3. WarpPageTrue' BY <2>2 DEF WarpPageTrue
  <2>4. Moving'
    BY <1>0, <2>1, <2>2 DEF IInv, Moving, WarpShape, Claimed, RowsRead, Sent, Delivered, Stolen, Leaving
  <2> QED BY <1>t, <1>0, <2>2, <2>3, <2>4, WarpMoves DEF TypeOK
<1> QED BY <1>1, <1>2, <1>3, <1>4

(* The workspace that is left: its last events, before the claim. *)
LEMMA FinalReplayKeeps == ASSUME IInv, FinalReplay PROVE IInv' /\ Stores
<1> DEFINE p == warp.page
           w == warp.from
<1>t. TypeOK BY DEF IInv
<1>w. warp \in Warp /\ warp.at = "final" BY <1>t, WarpIsRecord DEF FinalReplay
<1>l. Leaving /\ w \in Workspaces BY <1>w, Ends DEF IInv, Moving, WarpShape
<1>0. UNCHANGED <<edit, sync, wire, work, warps>> BY DEF FinalReplay
<1>1. CASE p.rows = <<>>
  <2>1. warp' = [warp EXCEPT !.at = "claim", !.page = NoPage] /\ UNCHANGED <<log, owner, place>>
    BY <1>1 DEF FinalReplay
  <2>2. warp' \in Warp /\ warp'.at = "claim" /\ warp'.from = warp.from
    BY <1>w, <2>1, EmptyPage DEF Warp
  <2>3. WarpPageTrue' BY <2>2 DEF WarpPageTrue
  <2>4. Moving'
    BY <1>w, <2>1, <2>2 DEF IInv, Moving, WarpShape, Claimed, RowsRead, Sent, Delivered, Stolen, Leaving
  <2> QED BY <1>t, <1>0, <2>1, <2>2, <2>3, <2>4, WarpMoves DEF TypeOK
<1>2. CASE p.rows # <<>> /\ Dies(Here, p.from + 1, Head(p.rows), w)
  <2>1. warp' = Idle /\ UNCHANGED <<log, owner, place>> BY <1>2 DEF FinalReplay
  <2> QED BY <1>0, <2>1, WarpEnds
<1>3. CASE p.rows # <<>> /\ ~Dies(Here, p.from + 1, Head(p.rows), w)
  <2>1. Replay(Here, p.from + 1, Head(p.rows), w) /\ warp' = [warp EXCEPT !.page = TailPage(p)]
    BY <1>3 DEF FinalReplay
  <2>2. p \in Pages /\ PartOf(p, log[w]) BY <1>w DEF Warp, IInv, Wires, WarpPageTrue
  <2>3. /\ TailPage(p) \in Pages /\ PartOf(TailPage(p), log[w])
        /\ Head(p.rows) \in Events
        /\ p.from + 1 \in DOMAIN log[w] /\ log[w][p.from + 1] = Head(p.rows)
    BY <1>3, <2>2, TailOf
  <2>4. /\ warp' \in Warp /\ warp'.at = "final" /\ warp'.from = w /\ warp'.page = TailPage(p)
    BY <1>w, <2>1, <2>3 DEF Warp
  <2>5. Grown /\ Authors' /\ Places' /\ Stores
    BY <1>0, <1>t, <1>l, <2>1, <2>3, ReplayedHere DEF IInv
  <2>6. /\ log' \in [Sites -> Seq(Events)] /\ owner' \in [Sites -> Sites \union {None}]
        /\ place' \in [Sites -> Sites]
    BY <1>t, <1>l, <2>1, <2>3, Ends, Replays DEF Sites
  <2>7. TypeOK' BY <1>t, <1>0, <2>4, <2>6 DEF TypeOK, Warp
  <2>8. PagesTrue' BY <1>0, <2>5, PagesKept DEF IInv, Wires
  <2>9. WiresTrue' BY <1>0, <2>5, WiresKept DEF IInv, Wires
  <2>10. WarpPageTrue'
    <3>1. PartOf(TailPage(p), log'[w]) BY <1>l, <2>3, <2>5 DEF Grown, PartOf, Sites
    <3> QED BY <2>4, <3>1 DEF WarpPageTrue
  <2>11. Moving'
    BY <1>l, <2>4 DEF Moving, WarpShape, Claimed, RowsRead, Sent, Delivered, Stolen, Leaving
  <2> QED BY <2>5, <2>7, <2>8, <2>9, <2>10, <2>11 DEF IInv, Wires
<1> QED BY <1>1, <1>2, <1>3

LEMMA Beyond ==
  \A f, n \in Nat : \A i \in f + 1 .. f + n : i # f + 1 => i \in f + 1 + 1 .. f + 1 + (n - 1)
OBVIOUS

(* The target takes the rows one by one; what it has taken stays. *)
LEMMA SendKeeps == ASSUME IInv, Send PROVE IInv' /\ Stores
<1> DEFINE p == warp.page
           by == warp.to
           e == Head(p.rows)
<1>t. TypeOK /\ Authors /\ Places BY DEF IInv
<1>w. warp \in Warp /\ warp.at = "send" BY <1>t, WarpIsRecord DEF Send
<1>s. by # Here /\ by \in Workspaces /\ by \in Sites /\ Here \in Sites
  BY <1>w, Ends DEF IInv, Moving, WarpShape, Sites
<1>p. p \in Pages /\ PartOf(p, log[Here]) BY <1>w DEF Warp, IInv, Wires, WarpPageTrue
<1>0. UNCHANGED <<edit, sync, wire, work, warps>> BY DEF Send
<1>1. CASE p.rows = <<>>
  <2>1. warp' = [warp EXCEPT !.at = "steal", !.page = NoPage] /\ UNCHANGED <<log, owner, place>>
    BY <1>1 DEF Send
  <2>2. /\ warp' \in Warp /\ warp'.at = "steal" /\ warp'.from = warp.from /\ warp'.to = warp.to
        /\ warp'.known = warp.known
    BY <1>w, <2>1, EmptyPage DEF Warp
  <2>3. WarpPageTrue' BY <2>2 DEF WarpPageTrue
  <2>4. Delivered'
    <3>1. Len(p.rows) = 0 /\ p.from \in Nat BY <1>1, <1>p, EmptySeq DEF Pages
    <3>2. p.from + 1 .. p.from + Len(p.rows) = {} BY <3>1
    <3>3. Leaving => \A i \in DOMAIN log[Here] : Must(i) => Same(i)
      BY <1>w, <3>2 DEF IInv, Moving, Sent
    <3> QED BY <2>1, <2>2, <3>3 DEF Delivered, Leaving, Same, Must
  <2>5. Moving'
    BY <1>w, <1>s, <2>1, <2>2, <2>4 DEF IInv, Moving, WarpShape, Claimed, RowsRead, Sent, Stolen, Leaving
  <2> QED BY <1>t, <1>0, <2>1, <2>2, <2>3, <2>5, WarpMoves DEF TypeOK
<1>2. CASE p.rows # <<>> /\ (Fenced(by, by) \/ Dies(by, p.from + 1, e, by))
  <2>1. warp' = Idle /\ UNCHANGED <<log, owner, place>> BY <1>2 DEF Send
  <2> QED BY <1>0, <2>1, WarpEnds
<1>3. CASE p.rows # <<>> /\ ~Fenced(by, by) /\ ~Dies(by, p.from + 1, e, by)
  <2> DEFINE seq == p.from + 1
  <2>1. Replay(by, seq, e, by) /\ warp' = [warp EXCEPT !.page = TailPage(p)]
    BY <1>3 DEF Send
  <2>2. /\ TailPage(p) \in Pages /\ TailPage(p).from = p.from + 1 /\ PartOf(TailPage(p), log[Here])
        /\ Len(TailPage(p).rows) = Len(p.rows) - 1 /\ Len(p.rows) \in Nat /\ p.from \in Nat
        /\ e \in Events
        /\ seq \in DOMAIN log[Here] /\ log[Here][seq] = e
    BY <1>3, <1>p, TailOf DEF Pages
  <2>3. Known(by, seq, e) \/ Accepted(by, seq, e, by)
    BY <1>3 DEF Dies, Ignored
  <2> HIDE DEF e, seq
  <2>4. /\ warp' \in Warp /\ warp'.at = "send" /\ warp'.from = warp.from /\ warp'.to = by
        /\ warp'.page = TailPage(p) /\ warp'.known = warp.known
    BY <1>w, <2>1, <2>2 DEF Warp
  <2>5. /\ log' \in [Sites -> Seq(Events)] /\ owner' \in [Sites -> Sites \union {None}]
        /\ place' \in [Sites -> Sites] /\ owner'[Here] = owner[Here]
        /\ \/ Accepted(by, seq, e, by) /\ log' = [log EXCEPT ![by] = Append(@, e)]
           \/ ~Accepted(by, seq, e, by) /\ log' = log
        /\ Places'
    <3>1. /\ \/ Accepted(by, seq, e, by) /\ log' = [log EXCEPT ![by] = Append(@, e)] /\ place' = Projected(by, e)
             \/ ~Accepted(by, seq, e, by) /\ log' = log /\ place' = place
          /\ log' \in [Sites -> Seq(Events)]
          /\ owner' \in [Sites -> Sites \union {None}]
          /\ \A t \in Sites : owner[t] # None \/ t # by => owner'[t] = owner[t]
          /\ place' \in [Sites -> Sites]
          /\ Places'
      <4>1. Replay(by, seq, e, by) /\ TypeOK /\ by \in Sites /\ e \in Events
        BY <1>t, <1>s, <2>1, <2>2
      <4>2. Backed(e.to) /\ Places /\ edit' = edit BY <1>0, <1>s, <1>t, <2>2 DEF Places
      <4> HIDE DEF by, p
      <4>3. /\ \/ Accepted(by, seq, e, by) /\ log' = [log EXCEPT ![by] = Append(@, e)] /\ place' = Projected(by, e)
               \/ ~Accepted(by, seq, e, by) /\ log' = log /\ place' = place
            /\ log' \in [Sites -> Seq(Events)]
            /\ owner' \in [Sites -> Sites \union {None}]
            /\ \A t \in Sites : owner[t] # None \/ t # by => owner'[t] = owner[t]
            /\ place' \in [Sites -> Sites]
        BY ONLY <4>1, Replays
      <4>4. Places' BY ONLY <4>1, <4>2, ReplayPlaces
      <4> QED BY ONLY <4>3, <4>4
    <3> QED BY <3>1, <1>s
  <2>6. Sound(by, e)
    <3>1. e \in Range(log[Here]) BY <2>2 DEF Range
    <3> QED BY <3>1 DEF Sound
  <2>7. /\ Grown /\ Authors' /\ log'[Here] = log[Here]
        /\ seq \in DOMAIN log'[by] /\ log'[by][seq] = log[Here][seq]
    <3>1. CASE Accepted(by, seq, e, by) /\ log' = [log EXCEPT ![by] = Append(@, e)]
      <4>1. /\ Grown /\ log'[Here] = log[Here] /\ Authors'
            /\ DOMAIN log'[by] = DOMAIN log[by] \union {seq} /\ log'[by][seq] = e
        BY <1>s, <1>t, <2>2, <2>6, <3>1, Grows, AuthorsKept DEF Accepted
      <4> QED BY <2>2, <4>1
    <3>2. CASE ~Accepted(by, seq, e, by) /\ log' = log
      <4>1. Grown /\ Authors' BY <1>t, <3>2, NothingGrows DEF Authors
      <4>2. seq \in DOMAIN log'[by] /\ log'[by][seq] = log[Here][seq]
        BY <2>2, <2>3, <3>2 DEF Known
      <4> QED BY <3>2, <4>1, <4>2
    <3> QED BY <2>5, <3>1, <3>2
  <2>8. TypeOK' BY <1>t, <1>0, <2>4, <2>5 DEF TypeOK, Warp
  <2>9. PagesTrue' BY <1>0, <2>7, PagesKept DEF IInv, Wires
  <2>10. WiresTrue' BY <1>0, <2>7, WiresKept DEF IInv, Wires
  <2>11. WarpPageTrue' BY <2>2, <2>4, <2>7 DEF WarpPageTrue
  <2>12. Sent'
    <3> SUFFICES ASSUME Leaving, NEW i \in DOMAIN log[Here], Must(i),
                        i \notin TailPage(p).from + 1 .. TailPage(p).from + Len(TailPage(p).rows)
                 PROVE  Same(i)'
      BY <2>4, <2>7 DEF Sent, Leaving, Must
    <3>1. CASE i = seq BY <2>4, <2>7, <3>1 DEF Same
    <3>2. CASE i # seq
      <4>1. i \notin p.from + 1 .. p.from + Len(p.rows)
        <5>1. i \notin p.from + 1 + 1 .. p.from + 1 + (Len(p.rows) - 1) BY <2>2
        <5> QED BY <2>2, <3>2, <5>1, Beyond DEF seq
      <4>2. Same(i) BY <1>w, <4>1 DEF IInv, Moving, Sent
      <4> QED BY <1>s, <2>4, <2>7, <4>2 DEF Same, Grown
    <3> QED BY <3>1, <3>2
  <2>13. RowsRead' BY <1>w, <2>4, <2>7 DEF IInv, Moving, RowsRead
  <2>14. Moving'
    BY <1>w, <1>s, <2>4, <2>5, <2>12, <2>13
    DEF IInv, Moving, WarpShape, Claimed, Delivered, Stolen, Leaving
  <2>15. Stores BY <2>7 DEF Stores
  <2> QED BY <2>5, <2>7, <2>8, <2>9, <2>10, <2>11, <2>14, <2>15 DEF IInv, Wires
<1> QED BY <1>1, <1>2, <1>3

LEMMA StealKeeps == ASSUME IInv, Steal PROVE IInv' /\ Stores
<1>b. PICK by : by = warp.to OBVIOUS
<1>t. TypeOK /\ Authors /\ Places /\ WiresTrue BY DEF IInv, Wires
<1>w. warp \in Warp /\ warp.at = "steal" BY <1>t, WarpIsRecord DEF Steal
<1>s. by # Here /\ by \in Workspaces /\ by \in Sites /\ Here \in Sites
  BY <1>b, <1>w, Ends DEF IInv, Moving, WarpShape, Sites
<1>1. /\ Publish(by, by) /\ warp' = [warp EXCEPT !.at = "set"]
      /\ UNCHANGED <<owner, edit, sync, work, warps>>
  BY <1>b DEF Steal
<1>2. PICK e \in Events :
      /\ e.by = by /\ e.to = by
      /\ log' = [log EXCEPT ![by] = Append(@, e)]
      /\ place' = Projected(by, e) /\ place' \in [Sites -> Sites]
      /\ wire' \in [Workspaces -> Seq(Message)] /\ WiresTrue'
  BY <1>t, <1>s, <1>1, Publishes
<1>3. /\ Grown /\ log' \in [Sites -> Seq(Events)] /\ log'[Here] = log[Here]
      /\ DOMAIN log'[by] = DOMAIN log[by] \union {Len(log[by]) + 1}
      /\ log'[by][Len(log[by]) + 1] = e
  BY <1>t, <1>s, <1>2, Grows
<1>4. /\ warp' \in Warp /\ warp'.at = "set" /\ warp'.from = warp.from /\ warp'.to = by
      /\ warp'.known = warp.known
  BY <1>b, <1>w, <1>1 DEF Warp
<1>5. TypeOK' BY <1>t, <1>1, <1>2, <1>3, <1>4 DEF TypeOK, Message, Warp
<1>6. PagesTrue' BY <1>1, <1>3, PagesKept DEF IInv, Wires
<1>7. WarpPageTrue' BY <1>4 DEF WarpPageTrue
<1>8. Authors' BY <1>t, <1>s, <1>2, AuthorsKept DEF Sound
<1>9. TookOver(by)' BY <1>2, <1>3 DEF TookOver
<1>10. Stolen' BY <1>4, <1>9 DEF Stolen, TookOver
<1>11. Delivered'
  <2>1. Leaving => \A i \in DOMAIN log[Here] : Must(i) => Same(i)
    BY <1>b, <1>w, <1>s DEF IInv, Moving, Delivered
  <2> QED BY <1>b, <1>s, <1>3, <1>4, <2>1 DEF Delivered, Leaving, Same, Grown, Must
<1>12. RowsRead' BY <1>b, <1>w, <1>3, <1>4 DEF IInv, Moving, RowsRead
<1>13. Moving'
  BY <1>b, <1>w, <1>1, <1>4, <1>10, <1>11, <1>12 DEF IInv, Moving, WarpShape, Claimed, Sent, Leaving
<1>14. Places'
  <2>1. Backed(e.to)' BY <1>2, <1>9 DEF Backed
  <2>2. \A t \in Sites : edit'[t] \in {edit[t], None} BY <1>1
  <2> QED BY <1>t, <1>s, <1>2, <2>1, <2>2, PlacesKept
<1>15. Stores BY <1>3 DEF Stores
<1> QED BY <1>2, <1>5, <1>6, <1>7, <1>8, <1>13, <1>14, <1>15 DEF IInv, Wires

LEMMA SetWorkspaceKeeps == ASSUME IInv, SetWorkspace PROVE IInv' /\ Stores
<1>o. PICK to : to = warp.to OBVIOUS
<1>t. TypeOK /\ Authors /\ Places /\ WiresTrue BY DEF IInv, Wires
<1>w. warp \in Warp /\ warp.at = "set" BY <1>t, WarpIsRecord DEF SetWorkspace
<1>s. Here \in Sites /\ Here \notin Workspaces /\ to \in Sites /\ to # None
  BY <1>o, <1>w, SyncAssumption DEF Warp, Sites
<1>1. Publish(Here, to) /\ warp' = Idle /\ UNCHANGED <<owner, edit, sync, work, warps>>
  BY <1>o DEF SetWorkspace
<1>2. PICK e \in Events :
      /\ e.by = Here /\ e.to = to
      /\ log' = [log EXCEPT ![Here] = Append(@, e)]
      /\ place' = Projected(Here, e) /\ place' \in [Sites -> Sites]
      /\ wire' \in [Workspaces -> Seq(Message)] /\ WiresTrue'
  BY <1>t, <1>s, <1>1, Publishes
<1>b. \A t \in Sites : edit'[t] \in {edit[t], None} BY <1>1
<1>p. Backed(e.to)'
  <2>1. Backed(to) BY <1>o, <1>s, <1>w DEF IInv, Moving, Stolen, Backed
  <2>2. Grown BY <1>t, <1>s, <1>2, Grows
  <2>3. Backed(to)' BY <2>1, <2>2, BackedKept
  <2> QED BY <1>2, <2>3
<1>3. /\ Grown /\ log' \in [Sites -> Seq(Events)]
      /\ DOMAIN log'[Here] = DOMAIN log[Here] \union {Len(log[Here]) + 1}
      /\ log'[Here][Len(log[Here]) + 1] = e
  BY <1>t, <1>s, <1>2, Grows
<1>4. TypeOK' BY <1>t, <1>1, <1>2, <1>3, IdleWarp DEF TypeOK, Message, Warp
<1>5. PagesTrue' BY <1>1, <1>3, PagesKept DEF IInv, Wires
<1>6. WarpPageTrue' /\ Moving' BY <1>1, IdleWarp
<1>7. Authors' BY <1>t, <1>s, <1>2, AuthorsKept DEF Sound
<1>8. Places' BY <1>b, <1>p, <1>t, <1>s, <1>2, PlacesKept
<1>9. Stores BY <1>s, <1>2, <1>3 DEF Stores
<1> QED BY <1>2, <1>4, <1>5, <1>6, <1>7, <1>8, <1>9 DEF IInv, Wires

LEMMA CrashKeeps == ASSUME IInv, Crash PROVE IInv' /\ Stores
<1>t. TypeOK BY DEF IInv
<1>1. /\ sync' = [w \in Workspaces |-> Asleep] /\ wire' = [w \in Workspaces |-> <<>>]
      /\ warp' = Idle /\ edit' = [edit EXCEPT ![Here] = None]
      /\ UNCHANGED <<log, owner, place, work, warps>>
  BY DEF Crash
<1>2. <<>> \in Seq(Message) /\ DOMAIN <<>> = {} BY EmptySeq
<1>3. TypeOK' BY <1>t, <1>1, <1>2, Sleepers, IdleWarp DEF TypeOK, Fiber, Message, Warp
<1>4. PagesTrue' BY <1>1, Sleepers, EmptyPage DEF PagesTrue
<1>5. WiresTrue' BY <1>1, <1>2 DEF WiresTrue
<1>6. WarpPageTrue' /\ Moving' BY <1>1, IdleWarp
<1>7. Authors' /\ Stores BY <1>1 DEF IInv, Authors, Stores
<1>8. Places'
  <2>1. \A t \in Sites : edit'[t] = edit[t] \/ edit'[t] = None BY <1>t, <1>1 DEF TypeOK
  <2> QED BY <1>1, <2>1, SyncAssumption DEF IInv, Places, Backed, CreatedIn, TookOver
<1> QED BY <1>3, <1>4, <1>5, <1>6, <1>7, <1>8 DEF IInv, Wires

-------------------------------------------------------------------------------
(* The invariant is inductive.                                             *)

LEMMA InvInit == Init => IInv
<1> SUFFICES ASSUME Init PROVE IInv
  OBVIOUS
<1>s. Here \in Sites /\ Here \notin Workspaces /\ None \notin Workspaces BY SyncAssumption DEF Sites
<1>0. PICK born \in Sites, to \in Sites :
        /\ log = [s \in Sites |-> IF s = born THEN <<[by |-> born, n |-> 0, to |-> to]>> ELSE <<>>]
        /\ place = [s \in Sites |-> IF s = born THEN to ELSE Here]
  BY DEF Init
<1> DEFINE first == [by |-> born, n |-> 0, to |-> to]
<1>1. first \in Events /\ first.by = born /\ first.to = to BY DEF Events
<1>2. /\ <<>> \in Seq(Message) /\ <<>> \in Seq(Events) /\ DOMAIN <<>> = {} BY EmptySeq
<1>3. <<first>> \in Seq(Events) BY <1>1
<1>4. \A s \in Sites : log[s] = IF s = born THEN <<first>> ELSE <<>> BY <1>0
<1>5. log \in [Sites -> Seq(Events)] /\ place \in [Sites -> Sites] BY <1>0, <1>2, <1>3, <1>s
<1>6. TypeOK
  BY <1>s, <1>2, <1>5, Sleepers, IdleWarp DEF Init, TypeOK, Fiber, Message, Warp
<1>7. Wires
  BY <1>2, Sleepers, EmptyPage, IdleWarp DEF Init, Wires, PagesTrue, WiresTrue, WarpPageTrue
<1>8. DOMAIN <<first>> = {1} /\ <<first>>[1] = first OBVIOUS
<1>9. /\ \A s \in Sites : \A i \in DOMAIN log[s] : s = born /\ log[s][i] = first
      /\ 1 \in DOMAIN log[born] /\ log[born][1] = first
  BY <1>2, <1>4, <1>8
<1> HIDE DEF first
<1>10. Authors BY <1>1, <1>9 DEF Authors, Sites
<1>11. Places
  <2>1. CreatedIn(to) BY <1>1, <1>9 DEF CreatedIn
  <2>2. \A s \in Sites : (place[s] = to \/ place[s] = Here) /\ edit[s] = None BY <1>0 DEF Init
  <2> QED BY <1>1, <1>9, <1>s, <2>1, <2>2 DEF Places, Backed
<1>12. Moving
  BY IdleWarp DEF Init, Moving, WarpShape, Claimed, RowsRead, Sent, Delivered, Stolen, Leaving
<1> QED BY <1>6, <1>7, <1>10, <1>11, <1>12 DEF IInv

LEMMA InvStep == IInv /\ [Next]_vars => IInv' /\ Stores
<1> SUFFICES ASSUME IInv, [Next]_vars PROVE IInv' /\ Stores
  OBVIOUS
<1>1. CASE \E s \in Sites : Work(s) \/ ReadInfo(s) \/ Updated(s) \/ StartWarp(s)
  BY <1>1, WorkKeeps, StartWarpKeeps
<1>2. CASE \E w \in Workspaces : LoopStep(w) \/ AnswerLost(w) \/ Drop(w) \/ Restart(w)
  BY <1>2, LoopKeeps
<1>3. CASE WarpStep \/ WarpAnswerLost \/ WarpFails
  <2>1. CASE WarpFails BY <2>1, WarpEnds DEF WarpFails
  <2>2. CASE WarpAsk \/ WarpAnswer \/ WarpAnswerLost \/ Patch BY <2>2, LeavingKeeps
  <2>3. CASE FinalReplay BY <2>3, FinalReplayKeeps
  <2>4. CASE Claim \/ ReadRows BY <2>4, ClaimKeeps, ReadRowsKeeps
  <2>5. CASE Send \/ Steal \/ SetWorkspace BY <2>5, SendKeeps, StealKeeps, SetWorkspaceKeeps
  <2> QED BY <1>3, <2>1, <2>2, <2>3, <2>4, <2>5 DEF WarpStep
<1>4. CASE Crash BY <1>4, CrashKeeps
<1>5. CASE UNCHANGED vars
  <2>1. UNCHANGED <<log, owner, place, edit, sync, wire, warp, work, warps>> BY <1>5 DEF vars
  <2>2. Places' BY <2>1, PlacesSame DEF IInv
  <2>3. (TypeOK /\ Wires /\ Authors /\ Moving)'
    BY <2>1 DEF IInv, TypeOK, Wires, PagesTrue, WiresTrue, WarpPageTrue, Authors,
       Moving, WarpShape, Claimed, RowsRead, Sent, Delivered, Stolen, TookOver, Same, Must, Leaving
  <2> QED BY <2>1, <2>2, <2>3 DEF Stores, IInv
<1> QED BY <1>1, <1>2, <1>3, <1>4, <1>5 DEF Next

LEMMA Invariance == Spec => []IInv
<1>1. IInv /\ [Next]_vars => IInv' BY InvStep
<1> QED BY InvInit, <1>1, PTL DEF Spec

-------------------------------------------------------------------------------
(* The type invariant, for any number of workspaces, of events and of warps. *)
THEOREM TypeCorrect == Spec => []TypeOK
<1>1. IInv => TypeOK BY DEF IInv
<1> QED BY <1>1, Invariance, PTL

(* Every row places the session in a workspace that it was created in or   *)
(* that took it over, however old the row is that an Updated repeats.      *)
THEOREM PlacedWhereTakenAlways == Spec => []PlacedWhereTaken
<1>1. IInv => PlacedWhereTaken
  <2> SUFFICES ASSUME IInv, NEW s \in Sites, place[s] # Here
               PROVE  CreatedIn(place[s]) \/ TookOver(place[s])
    BY DEF PlacedWhereTaken
  <2>1. place[s] \in Workspaces BY DEF IInv, TypeOK, Sites
  <2> QED BY <2>1 DEF IInv, Places, Backed
<1> QED BY <1>1, Invariance, PTL

(* A warp out of a workspace hands over the rows that were read and all    *)
(* that other sites made, whatever arrives meanwhile.                      *)
THEOREM HandsOverAlways == Spec => []HandsOver
<1>1. IInv => HandsOver BY DEF IInv, Moving, Delivered, Must, Same, HandsOver
<1> QED BY <1>1, Invariance, PTL

(* What is stored while another site owns the session was not made in the  *)
(* workspace it was taken from, by whatever way and however late it comes. *)
THEOREM FencedOutAlways == Spec => FencedOut
<1>1. IInv /\ [Next]_vars =>
        \A w \in Workspaces :
          Len(log'[Here]) > Len(log[Here]) /\ Last(log'[Here]).by = w => ~Fenced(Here, w)
  <2> SUFFICES ASSUME IInv, [Next]_vars, NEW w \in Workspaces,
                      Len(log'[Here]) > Len(log[Here]), Last(log'[Here]).by = w
               PROVE  ~Fenced(Here, w)
    OBVIOUS
  <2>1. IInv' /\ Stores BY InvStep
  <2>2. log[Here] \in Seq(Events) /\ log'[Here] \in Seq(Events) BY <2>1 DEF IInv, TypeOK, Sites
  <2> DEFINE n == Len(log'[Here])
  <2>3. /\ n \in Nat /\ DOMAIN log'[Here] = 1 .. n
        /\ Len(log[Here]) \in Nat /\ DOMAIN log[Here] = 1 .. Len(log[Here])
    BY <2>2, Indices
  <2>4. n \in DOMAIN log'[Here] /\ n \notin DOMAIN log[Here] BY <2>3
  <2>5. log'[Here][n].by = w BY DEF Last
  <2> QED BY <2>1, <2>4, <2>5 DEF Stores
<1> QED BY <1>1, Invariance, PTL DEF Spec, FencedOut

===============================================================================
