------------------------ MODULE DocumentEditingProofs ------------------------
(***************************************************************************)
(* Theorems about DocumentEditing, for every instance of its constants.    *)
(***************************************************************************)
EXTENDS DocumentEditing, SequenceTheorems, TLAPS

-----------------------------------------------------------------------------
(* Types.                                                                  *)

Texts == SUBSET Nat
Lease == [holder : Clients \cup {Nobody}, epoch : Nat]
Draft == [revision : Nat, text : Texts]
HostState == [holder : Clients \cup {Nobody}, epoch : Nat, revision : Nat]

StepKinds == {"none", "upload", "release", "show", "acquire", "recover", "takeover"}
StepPlaces == {"none", "acquire", "put", "release", "get", "done", "failed"}
SavePlaces == {"none", "check", "force", "saved", "conflict", "failed", "asking", "reloading",
               "stuck"}
Links == {"down", "up", "asked", "answered", "opened"}
WindowStates == {"open", "close_requested", "closing", "closed"}

StepRecord == [kind : StepKinds, at : StepPlaces, epoch : Nat, generation : Nat, text : Texts,
               answer : HostState, fetched : Draft, uploaded : Nat]
SaveRecord == [at : SavePlaces, generation : Nat, text : Texts, expected : Texts]

Window == [value : Texts, saved : Texts, external_dirty : BOOLEAN, generation : Nat,
           fingerprint : Texts, held : BOOLEAN,
           host : HostState, lease_epoch : Nat, uploaded : Nat, shown_draft : Nat,
           error : BOOLEAN, step : StepRecord, save : SaveRecord, reloads : Nat,
           link : Links, opening : HostState, window : WindowStates,
           copied : Texts, writable : BOOLEAN, exposed : Texts]

Budget == [edits : Nat, undos : Nat, takeovers : Nat, saves : Nat, drops : Nat, closes : Nat,
           faults : Nat, news : Nat \ {0}, large : SUBSET Nat]

Types ==
    /\ lease \in Lease
    /\ next_epoch \in Nat \ {0}
    /\ draft \in Draft
    /\ disk \in Texts
    /\ client \in [Clients -> Window]
    /\ news \in [Clients -> Seq(HostState)]
    /\ typed \in Nat
    /\ given_up \in Texts /\ overwritten \in Texts /\ continues \in SUBSET Clients
    /\ left \in Budget

-----------------------------------------------------------------------------
(* The inductive invariant.                                                *)

\* A window shows, sends, fetched and saves nothing but what was typed.
WindowTexts(w) ==
    w.value \cup w.saved \cup w.fingerprint \cup w.copied \cup w.exposed
        \cup w.step.text \cup w.step.fetched.text \cup w.save.text

TextsTyped ==
    /\ disk \cup draft.text \cup given_up \cup overwritten \subseteq 1 .. typed
    /\ \A c \in Clients : WindowTexts(client[c]) \subseteq 1 .. typed

\* Epochs a Client knows were granted.
WindowEpochs(w) ==
    {w.lease_epoch, w.host.epoch, w.opening.epoch, w.step.epoch, w.step.answer.epoch}

EpochsGranted ==
    /\ lease.epoch < next_epoch
    /\ lease.holder # Nobody => lease.epoch # 0
    /\ \A c \in Clients :
          /\ \A epoch \in WindowEpochs(client[c]) : epoch < next_epoch
          /\ \A i \in DOMAIN news[c] : news[c][i].epoch < next_epoch

NewsBounded == \A c \in Clients : Len(news[c]) <= left.news

\* What a step has so far fits where it is, and the window it belongs to.
StepFits(c, w) ==
    LET s == w.step IN
    /\ (s.kind = "none") <=> (s.at = "none")
    /\ s.kind = "show" => w.lease_epoch = 0 /\ s.uploaded = 0
    /\ s.at \in {"put", "get", "acquire", "release"} => s.uploaded = 0
    /\ s.kind = "upload" =>
          /\ w.uploaded < w.generation
          /\ s.generation <= w.generation
          /\ s.generation = w.generation => s.text = w.value
    /\ s.at = "put" => s.kind = "upload"
    /\ s.at = "get" /\ s.kind # "show" => s.answer.holder = c
    /\ s.at \notin {"done", "failed"} => s.fetched.revision = 0
    /\ s.at = "done" /\ s.uploaded # 0 =>
          /\ s.kind = "upload" /\ s.uploaded = s.generation
          /\ s.fetched.revision = 0
          /\ s.answer.holder = c /\ s.answer.epoch = s.epoch
          /\ HoldsLeaseOf(c, s.epoch) => draft.text = s.text
    /\ s.at = "done" /\ s.fetched.revision # 0 /\ s.kind # "show" =>
          /\ s.answer.holder = c
          /\ HoldsLeaseOf(c, s.answer.epoch) => draft.text = s.fetched.text

\* A window never counts more as stored than it shows, and what it counts is stored.
UploadFits(c, w) ==
    /\ w.uploaded <= w.generation
    /\ w.uploaded # 0 /\ w.uploaded = w.generation /\ HoldsLeaseOf(c, w.lease_epoch)
          => draft.text = w.value

WindowOK(c, w) == StepFits(c, w) /\ UploadFits(c, w)

IInv ==
    /\ Types
    /\ TextsTyped
    /\ EpochsGranted
    /\ NewsBounded
    /\ \A c \in Clients : WindowOK(c, client[c])

-----------------------------------------------------------------------------
(* What happens in a window.                                               *)

\* All that the invariant says of one window
Good(c, w) ==
    /\ w \in Window
    /\ WindowTexts(w) \subseteq 1 .. typed
    /\ \A epoch \in WindowEpochs(w) : epoch < next_epoch
    /\ WindowOK(c, w)

\* The parts of a window
LEMMA WindowParts ==
    ASSUME NEW w \in Window
    PROVE  /\ {w.value, w.saved, w.fingerprint, w.copied, w.exposed} \subseteq Texts
           /\ {w.generation, w.lease_epoch, w.uploaded, w.shown_draft, w.reloads} \subseteq Nat
           /\ {w.held, w.error, w.external_dirty, w.writable} \subseteq BOOLEAN
           /\ w.host \in HostState /\ w.opening \in HostState
           /\ w.step \in StepRecord /\ w.save \in SaveRecord
           /\ w.link \in Links /\ w.window \in WindowStates
BY DEF Window

\* The parts of a step
LEMMA StepParts ==
    ASSUME NEW s \in StepRecord
    PROVE  /\ s.kind \in StepKinds /\ s.at \in StepPlaces
           /\ s.epoch \in Nat /\ s.generation \in Nat /\ s.uploaded \in Nat
           /\ s.text \in Texts /\ s.answer \in HostState /\ s.fetched \in Draft
           /\ s.fetched.text \in Texts /\ s.fetched.revision \in Nat
           /\ s.answer.epoch \in Nat
BY DEF StepRecord, Draft, HostState

\* The step of a window that does nothing
LEMMA NoStepParts ==
    /\ NoStep \in StepRecord
    /\ NoStep.kind = "none" /\ NoStep.at = "none" /\ NoStep.epoch = 0 /\ NoStep.generation = 0
    /\ NoStep.text = {} /\ NoStep.answer.epoch = 0 /\ NoStep.fetched.text = {}
    /\ NoStep.fetched.revision = 0 /\ NoStep.uploaded = 0
BY EditingAssumption DEF NoStep, StepRecord, StepKinds, StepPlaces, Unknown, State, NoLease,
       NoDraft, HostState, Draft, Texts

\* What Spawn starts
LEMMA Spawned ==
    ASSUME NEW w \in Window, NEW kind \in StepKinds \ {"none"}, w.step.at = "none",
           NEW s, s = Spawn(w, kind).step
    PROVE  /\ Spawn(w, kind) = [w EXCEPT !.step = s]
           /\ s \in StepRecord
           /\ s.uploaded = 0 /\ s.fetched.revision = 0 /\ s.fetched.text = {} /\ s.answer.epoch = 0
           /\ s.epoch \in {0, w.lease_epoch}
           /\ s.at \in {"put", "release", "get", "acquire"} /\ s.kind = kind
           /\ kind = "upload" <=> s.at = "put"
           /\ kind = "show" <=> s.at = "get"
           /\ kind = "upload" => s.generation = w.generation /\ s.text = w.value
           /\ kind # "upload" => s.generation = 0 /\ s.text = {}
<1> USE NoStepParts, WindowParts
<1>1. CASE kind = "upload"
  <2> DEFINE n == [NoStep EXCEPT !.kind = kind, !.at = "put", !.epoch = w.lease_epoch,
                                 !.generation = w.generation, !.text = w.value]
  <2>1. Spawn(w, kind) = [w EXCEPT !.step = n]
    BY <1>1 DEF Spawn
  <2>2. n \in StepRecord
    BY <1>1 DEF StepRecord, StepKinds, StepPlaces
  <2>3. /\ n.kind = kind /\ n.at = "put" /\ n.epoch = w.lease_epoch /\ n.generation = w.generation
        /\ n.text = w.value /\ n.answer = NoStep.answer /\ n.fetched = NoStep.fetched
        /\ n.uploaded = NoStep.uploaded
    BY DEF StepRecord
  <2> HIDE DEF n
  <2>4. s = n
    BY <2>1 DEF Window
  <2> QED
    BY <1>1, <2>1, <2>2, <2>3, <2>4
<1>2. CASE kind = "release"
  <2> DEFINE n == [NoStep EXCEPT !.kind = kind, !.at = "release", !.epoch = w.lease_epoch]
  <2>1. Spawn(w, kind) = [w EXCEPT !.step = n]
    BY <1>2 DEF Spawn
  <2>2. n \in StepRecord
    BY <1>2 DEF StepRecord, StepKinds, StepPlaces
  <2>3. /\ n.kind = kind /\ n.at = "release" /\ n.epoch = w.lease_epoch
        /\ n.generation = NoStep.generation
        /\ n.text = NoStep.text /\ n.answer = NoStep.answer /\ n.fetched = NoStep.fetched
        /\ n.uploaded = NoStep.uploaded
    BY DEF StepRecord
  <2> HIDE DEF n
  <2>4. s = n
    BY <2>1 DEF Window
  <2> QED
    BY <1>2, <2>1, <2>2, <2>3, <2>4
<1>3. CASE kind \notin {"upload", "release"}
  <2> DEFINE n == [NoStep EXCEPT !.kind = kind, !.at = IF kind = "show" THEN "get" ELSE "acquire"]
  <2>1. Spawn(w, kind) = [w EXCEPT !.step = n]
    BY <1>3 DEF Spawn
  <2>2. n \in StepRecord
    BY <1>3 DEF StepRecord, StepKinds, StepPlaces
  <2>3. /\ n.kind = kind /\ n.at = (IF kind = "show" THEN "get" ELSE "acquire")
        /\ n.epoch = NoStep.epoch /\ n.generation = NoStep.generation
        /\ n.text = NoStep.text /\ n.answer = NoStep.answer /\ n.fetched = NoStep.fetched
        /\ n.uploaded = NoStep.uploaded
    BY DEF StepRecord
  <2> HIDE DEF n
  <2>4. s = n
    BY <2>1 DEF Window
  <2> QED
    BY <1>3, <2>1, <2>2, <2>3, <2>4
<1> QED
  BY <1>1, <1>2, <1>3

\* A window with another step
LEMMA WithStep ==
    ASSUME NEW w \in Window, NEW s \in StepRecord, NEW v, v = [w EXCEPT !.step = s]
    PROVE  /\ v \in Window /\ v.step = s
           /\ v.value = w.value /\ v.saved = w.saved /\ v.fingerprint = w.fingerprint
           /\ v.copied = w.copied /\ v.exposed = w.exposed /\ v.save = w.save
           /\ v.generation = w.generation /\ v.lease_epoch = w.lease_epoch
           /\ v.uploaded = w.uploaded /\ v.host = w.host /\ v.opening = w.opening
BY DEF Window

\* A window may start a step when its state calls for it.
LEMMA GoodSpawn ==
    ASSUME NEW c, NEW w, Good(c, w), NEW kind \in StepKinds \ {"none"},
           kind = "upload" => w.lease_epoch # 0 /\ w.uploaded # w.generation,
           kind = "show" => w.lease_epoch = 0,
           next_epoch # 0, next_epoch \in Nat
    PROVE  Good(c, Spawn(w, kind))
<1>0. w \in Window
  BY DEF Good
<1>1. CASE w.step.at # "none"
  BY <1>1 DEF Spawn
<1>2. CASE w.step.at = "none"
  <2> DEFINE s == Spawn(w, kind).step
             v == Spawn(w, kind)
  <2>1. /\ v = [w EXCEPT !.step = s]
        /\ s \in StepRecord
        /\ s.uploaded = 0 /\ s.fetched.revision = 0 /\ s.fetched.text = {} /\ s.answer.epoch = 0
        /\ s.epoch \in {0, w.lease_epoch}
        /\ s.at \in {"put", "release", "get", "acquire"} /\ s.kind = kind
        /\ kind = "upload" <=> s.at = "put"
        /\ kind = "show" <=> s.at = "get"
        /\ kind = "upload" => s.generation = w.generation /\ s.text = w.value
        /\ kind # "upload" => s.generation = 0 /\ s.text = {}
    BY <1>0, <1>2, Spawned
  <2> HIDE DEF s, v
  <2>2. /\ v \in Window /\ v.step = s
        /\ v.value = w.value /\ v.saved = w.saved /\ v.fingerprint = w.fingerprint
        /\ v.copied = w.copied /\ v.exposed = w.exposed /\ v.save = w.save
        /\ v.generation = w.generation /\ v.lease_epoch = w.lease_epoch
        /\ v.uploaded = w.uploaded /\ v.host = w.host /\ v.opening = w.opening
    BY <1>0, <2>1, WithStep
  <2>3. WindowTexts(v) \subseteq 1 .. typed
    BY <2>1, <2>2 DEF Good, WindowTexts
  <2>4. \A epoch \in WindowEpochs(v) : epoch < next_epoch
    BY <2>1, <2>2 DEF Good, WindowEpochs
  <2>5. StepFits(c, v)
    BY <1>0, <2>1, <2>2, WindowParts DEF Good, WindowOK, StepFits, UploadFits
  <2>6. UploadFits(c, v)
    BY <2>1, <2>2 DEF Good, WindowOK, UploadFits
  <2> QED
    BY <2>2, <2>3, <2>4, <2>5, <2>6 DEF Good, WindowOK, v
<1> QED
  BY <1>1, <1>2

\* What a window that lost its lease keeps: a text the Host does not have is in a Device copy,
\* or exposed when that failed.
LEMMA LoseParts ==
    ASSUME NEW w \in Window, NEW v, v = Lose(w)
    PROVE  /\ v \in Window /\ v.step = w.step
           /\ v.value = w.value /\ v.saved = w.saved /\ v.fingerprint = w.fingerprint
           /\ v.save = w.save /\ v.generation = w.generation
           /\ v.lease_epoch = 0 /\ v.uploaded = 0 /\ v.host = w.host /\ v.opening = w.opening
           /\ v.held = w.held /\ v.window = w.window
           /\ v.copied \in {w.copied, w.copied \cup w.value}
           /\ v.exposed \in {w.exposed, w.exposed \cup (w.value \ w.saved)}
           /\ IsDirty(w) /\ w.uploaded # w.generation
                 => w.value \subseteq v.copied \/ w.value \ w.saved \subseteq v.exposed
<1> DEFINE lost == [w EXCEPT !.lease_epoch = 0, !.uploaded = 0, !.shown_draft = 0]
<1>1. /\ lost \in Window /\ lost.step = w.step
      /\ lost.value = w.value /\ lost.saved = w.saved /\ lost.fingerprint = w.fingerprint
      /\ lost.copied = w.copied /\ lost.exposed = w.exposed /\ lost.save = w.save
      /\ lost.generation = w.generation /\ lost.lease_epoch = 0
      /\ lost.uploaded = 0 /\ lost.host = w.host /\ lost.opening = w.opening
      /\ lost.held = w.held /\ lost.window = w.window
  BY DEF Window
<1>2. PICK u : u = IF w.uploaded # w.generation THEN Preserve(lost) ELSE lost
  OBVIOUS
<1>3. v = IF ~IsDirty(w) THEN lost ELSE [u EXCEPT !.reloads = @ + 1]
  BY <1>2 DEF Lose
<1> HIDE DEF lost
<1>4. PICK copied : copied = IF w.uploaded # w.generation /\ lost.writable
                              THEN w.copied \cup w.value ELSE w.copied
  OBVIOUS
<1>5. PICK exposed : exposed = IF w.uploaded # w.generation /\ ~lost.writable
                                THEN w.exposed \cup (w.value \ w.saved) ELSE w.exposed
  OBVIOUS
<1>6. u = [lost EXCEPT !.copied = copied, !.exposed = exposed]
  <2>1. CASE w.uploaded = w.generation
    <3>1. u = lost /\ copied = lost.copied /\ exposed = lost.exposed
      BY <1>1, <1>2, <1>4, <1>5, <2>1
    <3> QED
      BY <1>1, <3>1 DEF Window
  <2>2. CASE w.uploaded # w.generation /\ lost.writable
    <3>1. u = [lost EXCEPT !.copied = copied] /\ exposed = lost.exposed
      BY <1>1, <1>2, <1>4, <1>5, <2>2 DEF Preserve
    <3> QED
      BY <1>1, <3>1 DEF Window
  <2>3. CASE w.uploaded # w.generation /\ ~lost.writable
    <3>1. u = [lost EXCEPT !.exposed = exposed] /\ copied = lost.copied
      BY <1>1, <1>2, <1>4, <1>5, <2>3 DEF Preserve
    <3> QED
      BY <1>1, <3>1 DEF Window
  <2> QED
    BY <2>1, <2>2, <2>3
<1>7. copied \in Texts /\ exposed \in Texts
  BY <1>4, <1>5, WindowParts DEF Texts
<1>8. /\ u \in Window /\ u.copied = copied /\ u.exposed = exposed /\ u.step = lost.step
      /\ u.value = lost.value /\ u.saved = lost.saved /\ u.fingerprint = lost.fingerprint
      /\ u.save = lost.save /\ u.generation = lost.generation
      /\ u.lease_epoch = lost.lease_epoch /\ u.uploaded = lost.uploaded
      /\ u.host = lost.host /\ u.opening = lost.opening
      /\ u.held = lost.held /\ u.window = lost.window
  BY <1>1, <1>6, <1>7 DEF Window
<1>9. CASE ~IsDirty(w)
  BY <1>1, <1>3, <1>9
<1>10. CASE IsDirty(w)
  <2>1. v = [u EXCEPT !.reloads = @ + 1] /\ u.reloads + 1 \in Nat
    BY <1>3, <1>8, <1>10, WindowParts
  <2>2. /\ v \in Window /\ v.copied = u.copied /\ v.exposed = u.exposed /\ v.step = u.step
        /\ v.value = u.value /\ v.saved = u.saved /\ v.fingerprint = u.fingerprint
        /\ v.save = u.save /\ v.generation = u.generation
        /\ v.lease_epoch = u.lease_epoch /\ v.uploaded = u.uploaded
        /\ v.host = u.host /\ v.opening = u.opening
        /\ v.held = u.held /\ v.window = u.window
    BY <1>8, <2>1 DEF Window
  <2> QED
    BY <1>1, <1>4, <1>5, <1>8, <2>2
<1> QED
  BY <1>9, <1>10

\* A window that lost its lease
LEMMA GoodLose ==
    ASSUME NEW c \in Clients, NEW w, Good(c, w), EpochsGranted, lease \in Lease, next_epoch \in Nat
    PROVE  Good(c, Lose(w)) /\ Lose(w).lease_epoch = 0 /\ Lose(w).step = w.step
<1> DEFINE v == Lose(w)
<1>0. w \in Window
  BY DEF Good
<1>1. /\ v \in Window /\ v.step = w.step
      /\ v.value = w.value /\ v.saved = w.saved /\ v.fingerprint = w.fingerprint
      /\ v.copied \in {w.copied, w.copied \cup w.value}
      /\ v.exposed \in {w.exposed, w.exposed \cup (w.value \ w.saved)} /\ v.save = w.save
      /\ v.generation = w.generation /\ v.lease_epoch = 0
      /\ v.uploaded = 0 /\ v.host = w.host /\ v.opening = w.opening
  BY <1>0, LoseParts
<1> HIDE DEF v
<1>2. WindowTexts(v) \subseteq 1 .. typed
  BY <1>1 DEF Good, WindowTexts
<1>3. \A epoch \in WindowEpochs(v) : epoch < next_epoch
  BY <1>1 DEF Good, WindowEpochs, EpochsGranted, Lease
<1>4. StepFits(c, v)
  BY <1>0, <1>1, WindowParts DEF Good, WindowOK, StepFits, UploadFits
<1>5. UploadFits(c, v)
  BY <1>0, <1>1, WindowParts DEF UploadFits
<1> QED
  BY <1>1, <1>2, <1>3, <1>4, <1>5 DEF Good, WindowOK, v

\* Most changes of a window leave its step, its text and what it counts as stored; or it stops
\* counting.
LEMMA GoodSame ==
    ASSUME NEW c, NEW w, Good(c, w), NEW v \in Window,
           v.step = w.step, v.value = w.value, v.generation = w.generation,
           \/ v.lease_epoch = w.lease_epoch /\ v.uploaded = w.uploaded
           \/ v.uploaded = 0 /\ (v.lease_epoch = 0 \/ w.step.kind # "show"),
           WindowTexts(v) \subseteq 1 .. typed,
           \A epoch \in WindowEpochs(v) : epoch < next_epoch
    PROVE  Good(c, v)
<1>0. w \in Window
  BY DEF Good
<1>1. StepFits(c, v)
  BY <1>0, WindowParts DEF Good, WindowOK, StepFits, UploadFits
<1>2. UploadFits(c, v)
  BY <1>0, WindowParts DEF Good, WindowOK, UploadFits
<1> QED
  BY <1>1, <1>2 DEF Good, WindowOK

\* A window that watches another Client (reconcile_document) stays good.
LEMMA GoodWatch ==
    ASSUME NEW c \in Clients, NEW w, Good(c, w), EpochsGranted, lease \in Lease,
           next_epoch \in Nat \ {0}
    PROVE  Good(c, Watch(w))
<1> DEFINE watching == IF w.lease_epoch # 0 THEN Lose(w)
                       ELSE [w EXCEPT !.exposed = @ \cup (w.value \ w.saved)]
<1>0. w \in Window
  BY DEF Good
<1>1. Good(c, watching) /\ watching.lease_epoch = 0
  <2>1. CASE w.lease_epoch # 0
    BY <2>1, GoodLose
  <2>2. CASE w.lease_epoch = 0
    <3> DEFINE v == [w EXCEPT !.exposed = @ \cup (w.value \ w.saved)]
    <3>1. w.exposed \cup (w.value \ w.saved) \in Texts
      BY <1>0, WindowParts DEF Texts
    <3>2. /\ v \in Window /\ v.step = w.step
          /\ v.value = w.value /\ v.saved = w.saved /\ v.fingerprint = w.fingerprint
          /\ v.copied = w.copied /\ v.exposed = w.exposed \cup (w.value \ w.saved) /\ v.save = w.save
          /\ v.generation = w.generation /\ v.lease_epoch = w.lease_epoch
          /\ v.uploaded = w.uploaded /\ v.host = w.host /\ v.opening = w.opening
      BY <1>0, <3>1 DEF Window
    <3> HIDE DEF v
    <3>3. WindowTexts(v) \subseteq 1 .. typed
      BY <3>2 DEF Good, WindowTexts
    <3>4. \A epoch \in WindowEpochs(v) : epoch < next_epoch
      BY <3>2 DEF Good, WindowEpochs
    <3>5. Good(c, v)
      BY <3>2, <3>3, <3>4, GoodSame
    <3> QED
      BY <2>2, <3>2, <3>5 DEF v
  <2> QED
    BY <2>1, <2>2
<1> HIDE DEF watching
<1>2. Good(c, [watching EXCEPT !.shown_draft = 0, !.held = TRUE])
  <2> DEFINE v == [watching EXCEPT !.shown_draft = 0, !.held = TRUE]
  <2>1. watching \in Window
    BY <1>1 DEF Good
  <2>2. /\ v \in Window /\ v.step = watching.step
        /\ v.value = watching.value /\ v.saved = watching.saved
        /\ v.fingerprint = watching.fingerprint
        /\ v.copied = watching.copied /\ v.exposed = watching.exposed /\ v.save = watching.save
        /\ v.generation = watching.generation /\ v.lease_epoch = watching.lease_epoch
        /\ v.uploaded = watching.uploaded /\ v.host = watching.host
        /\ v.opening = watching.opening
    BY <2>1 DEF Window
  <2> HIDE DEF v
  <2>3. WindowTexts(v) \subseteq 1 .. typed
    BY <1>1, <2>2 DEF Good, WindowTexts
  <2>4. \A epoch \in WindowEpochs(v) : epoch < next_epoch
    BY <1>1, <2>2 DEF Good, WindowEpochs
  <2>5. Good(c, v)
    BY <1>1, <2>2, <2>3, <2>4, GoodSame
  <2> QED
    BY <2>5 DEF v
<1>3. Good(c, Spawn(watching, "show"))
  BY <1>1, GoodSpawn DEF StepKinds
<1> QED
  BY <1>1, <1>2, <1>3 DEF Watch, watching

\* A window whose document is its own, or nobody's, forgets what it stored under another lease.
LEMMA GoodTracked ==
    ASSUME NEW c \in Clients, NEW w, Good(c, w), w.step.at = "none", next_epoch \in Nat \ {0}
    PROVE  Good(c, Tracked(w)) /\ Tracked(w).step = w.step
<1> DEFINE v == Tracked(w)
<1>0. w \in Window /\ w.step.kind = "none" /\ w.host.epoch \in Nat /\ w.lease_epoch \in Nat
  BY WindowParts DEF Good, WindowOK, StepFits, HostState
<1>1. /\ v \in Window /\ v.step = w.step
      /\ v.value = w.value /\ v.saved = w.saved /\ v.fingerprint = w.fingerprint
      /\ v.copied = w.copied /\ v.exposed = w.exposed /\ v.save = w.save
      /\ v.generation = w.generation
      /\ v.host = w.host /\ v.opening = w.opening
      /\ \/ v.lease_epoch = w.lease_epoch /\ v.uploaded = w.uploaded
         \/ v.uploaded = 0 /\ v.lease_epoch \in {0, w.host.epoch}
  <2>1. ASSUME NEW epoch \in Nat
        PROVE  LET u == [w EXCEPT !.held = FALSE, !.lease_epoch = epoch, !.uploaded = 0] IN
               /\ u \in Window /\ u.step = w.step
               /\ u.value = w.value /\ u.saved = w.saved /\ u.fingerprint = w.fingerprint
               /\ u.copied = w.copied /\ u.exposed = w.exposed /\ u.save = w.save
               /\ u.generation = w.generation
               /\ u.host = w.host /\ u.opening = w.opening
               /\ u.uploaded = 0 /\ u.lease_epoch = epoch
    BY <1>0 DEF Window
  <2>2. LET u == [w EXCEPT !.held = FALSE] IN
        /\ u \in Window /\ u.step = w.step
        /\ u.value = w.value /\ u.saved = w.saved /\ u.fingerprint = w.fingerprint
        /\ u.copied = w.copied /\ u.exposed = w.exposed /\ u.save = w.save
        /\ u.generation = w.generation
        /\ u.host = w.host /\ u.opening = w.opening
        /\ u.uploaded = w.uploaded /\ u.lease_epoch = w.lease_epoch
    BY <1>0 DEF Window
  <2>3. CASE w.host.holder = Nobody
    <3>1. v = [w EXCEPT !.held = FALSE, !.lease_epoch = 0, !.uploaded = 0]
      BY <2>3 DEF Tracked
    <3> HIDE DEF v
    <3> QED
      BY <2>1, <3>1
  <2>4. CASE w.host.holder # Nobody /\ w.lease_epoch # w.host.epoch
    <3>1. v = [w EXCEPT !.held = FALSE, !.lease_epoch = w.host.epoch, !.uploaded = 0]
      BY <2>4 DEF Tracked
    <3> HIDE DEF v
    <3> QED
      BY <1>0, <2>1, <3>1
  <2>5. CASE w.host.holder # Nobody /\ w.lease_epoch = w.host.epoch
    <3>1. v = [w EXCEPT !.held = FALSE]
      BY <2>5 DEF Tracked
    <3> HIDE DEF v
    <3> QED
      BY <2>2, <3>1
  <2> QED
    BY <2>3, <2>4, <2>5
<1> HIDE DEF v
<1>2. WindowTexts(v) \subseteq 1 .. typed
  BY <1>1 DEF Good, WindowTexts
<1>3. \A epoch \in WindowEpochs(v) : epoch < next_epoch
  BY <1>1 DEF Good, WindowEpochs
<1>4. Good(c, v)
  BY <1>0, <1>1, <1>2, <1>3, GoodSame
<1> QED
  BY <1>1, <1>4 DEF v

\* Whatever reconcile_document decides keeps a window good.
LEMMA GoodReconcile ==
    ASSUME NEW c \in Clients, NEW w, Good(c, w), EpochsGranted, lease \in Lease,
           next_epoch \in Nat \ {0}
    PROVE  Good(c, Reconcile(c, w))
<1>1. CASE ~Connected(w) \/ w.step.at # "none"
  BY <1>1 DEF Reconcile
<1>2. CASE Connected(w) /\ w.step.at = "none" /\ w.host.holder \notin {Nobody, c}
  BY <1>2, GoodWatch DEF Reconcile
<1>3. CASE Connected(w) /\ w.step.at = "none" /\ w.host.holder \in {Nobody, c}
  <2> DEFINE t == Tracked(w)
  <2>1. Good(c, t)
    BY <1>3, GoodTracked
  <2>2. \/ Edit(w) = t
        \/ Edit(w) = [t EXCEPT !.error = TRUE]
        \/ \E kind \in {"recover", "acquire", "release"} : Edit(w) = Spawn(t, kind)
        \/ t.lease_epoch # 0 /\ t.uploaded # t.generation /\ Edit(w) = Spawn(t, "upload")
    BY DEF Edit
  <2> HIDE DEF t
  <2>4. Good(c, [t EXCEPT !.error = TRUE])
    <3>1. PICK u : u = [t EXCEPT !.error = TRUE]
      OBVIOUS
    <3>2. t \in Window
      BY <2>1 DEF Good
    <3>3. /\ u \in Window /\ u.step = t.step
          /\ u.value = t.value /\ u.saved = t.saved /\ u.fingerprint = t.fingerprint
          /\ u.copied = t.copied /\ u.exposed = t.exposed /\ u.save = t.save
          /\ u.generation = t.generation /\ u.lease_epoch = t.lease_epoch
          /\ u.uploaded = t.uploaded /\ u.host = t.host /\ u.opening = t.opening
      BY <3>1, <3>2 DEF Window
    <3>4. WindowTexts(u) \subseteq 1 .. typed
      BY <2>1, <3>3 DEF Good, WindowTexts
    <3>5. \A epoch \in WindowEpochs(u) : epoch < next_epoch
      BY <2>1, <3>3 DEF Good, WindowEpochs
    <3> QED
      BY <2>1, <3>1, <3>3, <3>4, <3>5, GoodSame
  <2>3. Good(c, Edit(w))
    BY <2>1, <2>2, <2>4, GoodSpawn DEF StepKinds
  <2> QED
    BY <1>3, <2>3 DEF Reconcile
<1> QED
  BY <1>1, <1>2, <1>3

\* Without a step only what counts as stored matters.
LEMMA GoodNoStep ==
    ASSUME NEW c, NEW v \in Window, v.step = NoStep, UploadFits(c, v),
           WindowTexts(v) \subseteq 1 .. typed,
           \A epoch \in WindowEpochs(v) : epoch < next_epoch
    PROVE  Good(c, v)
BY NoStepParts DEF Good, WindowOK, StepFits

\* Windows that show, track and save the same
Alike(v, w) ==
    /\ v.value = w.value /\ v.saved = w.saved /\ v.fingerprint = w.fingerprint
    /\ v.copied = w.copied /\ v.exposed = w.exposed /\ v.save = w.save
    /\ v.generation = w.generation /\ v.opening = w.opening

\* A window whose step is done
LEMMA GoodResting ==
    ASSUME NEW c, NEW w, Good(c, w), next_epoch \in Nat \ {0},
           NEW v \in Window, v.step = NoStep, Alike(v, w),
           v.lease_epoch = w.lease_epoch, v.uploaded = w.uploaded, v.host = w.host
    PROVE  Good(c, v)
<1>1. WindowTexts(v) \subseteq 1 .. typed
  BY NoStepParts DEF Good, WindowTexts, Alike
<1>2. \A epoch \in WindowEpochs(v) : epoch < next_epoch
  BY NoStepParts DEF Good, WindowEpochs, Alike
<1>3. UploadFits(c, v)
  BY DEF Good, WindowOK, UploadFits, Alike
<1> QED
  BY <1>1, <1>2, <1>3, GoodNoStep

\* A window without a lease
LEMMA WithoutLease ==
    ASSUME NEW w \in Window, NEW v, v = [w EXCEPT !.lease_epoch = 0, !.uploaded = 0]
    PROVE  /\ v \in Window /\ v.step = w.step /\ Alike(v, w) /\ v.host = w.host
           /\ v.lease_epoch = 0 /\ v.uploaded = 0
BY DEF Window, Alike

\* What an answer changes
LEMMA AnsweredParts ==
    ASSUME NEW c \in Clients, NEW r \in Window, NEW s \in StepRecord,
           NEW v, v = Answered(c, r, s)
    PROVE  /\ v \in Window /\ v.step = r.step /\ Alike(v, r) /\ v.host = s.answer
           /\ \/ /\ v.lease_epoch = IF s.answer.holder = c THEN s.answer.epoch ELSE r.lease_epoch
                 /\ v.uploaded = IF s.uploaded # 0 THEN s.uploaded
                                 ELSE IF s.answer.holder = c /\ r.lease_epoch # s.answer.epoch
                                 THEN 0 ELSE r.uploaded
              \/ v.lease_epoch = 0 /\ v.uploaded = 0 /\ s.answer.holder # c
<1> DEFINE mine == s.answer.holder = c
           epoch == IF mine THEN s.answer.epoch ELSE r.lease_epoch
           stored == IF s.uploaded # 0 THEN s.uploaded
                     ELSE IF mine /\ r.lease_epoch # s.answer.epoch THEN 0 ELSE r.uploaded
           k == [r EXCEPT !.host = s.answer, !.lease_epoch = epoch, !.uploaded = stored,
                          !.held = @ /\ ~mine]
<1>1. epoch \in Nat /\ stored \in Nat /\ s.answer \in HostState
  BY WindowParts, StepParts
<1>2. v = k \/ (v = [k EXCEPT !.lease_epoch = 0, !.uploaded = 0] /\ ~mine)
  BY EditingAssumption DEF Answered
<1> HIDE DEF epoch, stored, mine
<1>3. /\ k \in Window /\ k.step = r.step /\ Alike(k, r)
      /\ k.lease_epoch = epoch /\ k.uploaded = stored /\ k.host = s.answer
  BY <1>1 DEF Window, Alike
<1> HIDE DEF k
<1>4. CASE v = k
  BY <1>3, <1>4 DEF epoch, stored, mine
<1>5. CASE v = [k EXCEPT !.lease_epoch = 0, !.uploaded = 0] /\ ~mine
  BY <1>3, <1>5, WithoutLease DEF Alike, mine
<1> QED
  BY <1>2, <1>4, <1>5

\* A window that applied the Host's answer
LEMMA GoodAnswered ==
    ASSUME NEW c \in Clients, NEW w, Good(c, w), next_epoch \in Nat \ {0},
           NEW s, s = w.step, s.at = "done", s.kind # "show",
           NEW r, Good(c, r), r.step = NoStep, Alike(r, w),
           r.lease_epoch = w.lease_epoch, r.uploaded = w.uploaded,
           NEW v, v = Answered(c, r, s)
    PROVE  /\ Good(c, v) /\ v.step = NoStep /\ Alike(v, w)
           /\ s.answer.holder = c => v.lease_epoch = s.answer.epoch
<1>0. w \in Window /\ r \in Window /\ s \in StepRecord
  BY WindowParts DEF Good
<1>1. /\ v \in Window /\ v.step = r.step /\ Alike(v, r) /\ v.host = s.answer
      /\ \/ /\ v.lease_epoch = IF s.answer.holder = c THEN s.answer.epoch ELSE r.lease_epoch
            /\ v.uploaded = IF s.uploaded # 0 THEN s.uploaded
                            ELSE IF s.answer.holder = c /\ r.lease_epoch # s.answer.epoch
                            THEN 0 ELSE r.uploaded
         \/ v.lease_epoch = 0 /\ v.uploaded = 0 /\ s.answer.holder # c
  BY <1>0, AnsweredParts
<1>2. WindowTexts(v) \subseteq 1 .. typed
  BY <1>1, NoStepParts DEF Good, WindowTexts, Alike
<1>3. \A e \in WindowEpochs(v) : e < next_epoch
  BY <1>1, NoStepParts DEF Good, WindowEpochs, Alike
<1>4. UploadFits(c, v)
  <2>1. CASE v.uploaded = 0
    BY <1>1, <2>1, WindowParts DEF UploadFits
  <2>2. CASE v.uploaded # 0 /\ s.uploaded # 0
    BY <1>0, <1>1, <2>2, WindowParts DEF Good, WindowOK, StepFits, UploadFits, Alike
  <2>3. CASE v.uploaded # 0 /\ s.uploaded = 0
    BY <1>1, <2>3 DEF Good, WindowOK, UploadFits, Alike
  <2> QED
    BY <2>1, <2>2, <2>3
<1>5. Good(c, v)
  BY <1>1, <1>2, <1>3, <1>4, GoodNoStep
<1> QED
  BY <1>1, <1>5 DEF Alike

\* A window with more edits that exposed
LEMMA GoodExposed ==
    ASSUME NEW c, NEW w, Good(c, w), NEW exposed \in Texts, exposed \subseteq 1 .. typed,
           NEW v, v = [w EXCEPT !.exposed = exposed]
    PROVE  Good(c, v) /\ v.step = w.step
<1>1. w \in Window
  BY DEF Good
<1>2. /\ v \in Window /\ v.step = w.step /\ v.value = w.value /\ v.saved = w.saved
      /\ v.fingerprint = w.fingerprint /\ v.copied = w.copied /\ v.exposed = exposed
      /\ v.save = w.save /\ v.generation = w.generation /\ v.lease_epoch = w.lease_epoch
      /\ v.uploaded = w.uploaded /\ v.host = w.host /\ v.opening = w.opening
  BY <1>1 DEF Window
<1>3. WindowTexts(v) \subseteq 1 .. typed /\ \A e \in WindowEpochs(v) : e < next_epoch
  BY <1>2 DEF Good, WindowTexts, WindowEpochs
<1> QED
  BY <1>2, <1>3, GoodSame

\* What a replaced text adds to what exposed was in the save under way.
LEMMA ReplacedExposed ==
    ASSUME NEW w \in Window
    PROVE  \E exposed \in {w.exposed, w.exposed \cup (w.save.text \ w.value)} :
              Replaced(w) = [w EXCEPT !.exposed = exposed]
<1>1. w = [w EXCEPT !.exposed = w.exposed]
  BY DEF Window
<1> QED
  BY <1>1 DEF Replaced

\* A window whose text was replaced while a save of it may be under way
LEMMA GoodReplaced ==
    ASSUME NEW c, NEW w, Good(c, w)
    PROVE  Good(c, Replaced(w)) /\ Replaced(w).step = w.step
<1>1. w \in Window /\ w.save \in SaveRecord
  BY WindowParts DEF Good
<1>2. PICK exposed \in {w.exposed, w.exposed \cup (w.save.text \ w.value)} :
         Replaced(w) = [w EXCEPT !.exposed = exposed]
  BY <1>1, ReplacedExposed
<1>3. exposed \in Texts /\ exposed \subseteq 1 .. typed
  BY <1>1, <1>2, WindowParts DEF Good, WindowTexts, SaveRecord, Texts
<1> QED
  BY <1>2, <1>3, GoodExposed

\* The draft a step fetched is the Host's when the window holds the lease, and counts as stored.
LEMMA GoodFetched ==
    ASSUME NEW c \in Clients, NEW w, Good(c, w), w.step = NoStep,
           NEW d \in Draft, d.text \subseteq 1 .. typed,
           d.revision # 0 /\ w.lease_epoch # 0 /\ HoldsLeaseOf(c, w.lease_epoch)
               => draft.text = d.text,
           NEW v, v = Fetched(w, d)
    PROVE  Good(c, v)
<1>0. w \in Window /\ d.revision \in Nat /\ d.text \in Texts
  BY DEF Good, Draft
<1>1. CASE d.revision = 0
  BY <1>1 DEF Fetched
<1>2. CASE d.revision # 0 /\ w.lease_epoch = 0
  <2>1. v = [w EXCEPT !.shown_draft = d.revision, !.held = TRUE]
    BY <1>2 DEF Fetched
  <2>2. /\ v \in Window /\ v.step = w.step /\ Alike(v, w) /\ v.host = w.host
        /\ v.lease_epoch = w.lease_epoch /\ v.uploaded = w.uploaded
    BY <1>0, <2>1 DEF Window, Alike
  <2>3. WindowTexts(v) \subseteq 1 .. typed /\ \A e \in WindowEpochs(v) : e < next_epoch
    BY <2>2 DEF Good, WindowTexts, WindowEpochs, Alike
  <2> QED
    BY <2>2, <2>3, GoodSame DEF Alike
<1>3. CASE d.revision # 0 /\ w.lease_epoch # 0
  <2> DEFINE g == IF w.generation > d.revision THEN w.generation ELSE d.revision
             save == IF w.save.at = "stuck" THEN NoSave ELSE w.save
             u == IF g = d.revision THEN g ELSE 0
  <2>1. /\ g \in Nat /\ u \in Nat /\ u <= g /\ save \in SaveRecord
        /\ save.text \in {{}, w.save.text}
    BY <1>0, WindowParts DEF SaveRecord, NoSave, SavePlaces, Texts
  <2> DEFINE x == [w EXCEPT !.shown_draft = d.revision, !.value = d.text, !.generation = g,
                            !.external_dirty = TRUE, !.save = save, !.uploaded = u]
  <2>2. v = Replaced(x)
    BY <1>3 DEF Fetched
  <2> HIDE DEF g, save, u
  <2>3. /\ x \in Window /\ x.step = w.step
        /\ x.value = d.text /\ x.saved = w.saved /\ x.fingerprint = w.fingerprint
        /\ x.copied = w.copied /\ x.exposed = w.exposed /\ x.save = save
        /\ x.generation = g /\ x.lease_epoch = w.lease_epoch /\ x.uploaded = u
        /\ x.host = w.host /\ x.opening = w.opening
    BY <1>0, <2>1 DEF Window
  <2> HIDE DEF x
  <2>4. WindowTexts(x) \subseteq 1 .. typed
    BY <2>1, <2>3 DEF Good, WindowTexts
  <2>5. \A e \in WindowEpochs(x) : e < next_epoch
    BY <2>3 DEF Good, WindowEpochs
  <2>6. UploadFits(c, x)
    BY <1>3, <2>1, <2>3 DEF UploadFits
  <2>7. Good(c, x)
    BY <2>3, <2>4, <2>5, <2>6, GoodNoStep
  <2> QED
    BY <2>2, <2>7, GoodReplaced
<1> QED
  BY <1>1, <1>2, <1>3

\* Windows that differ in nothing that steps and uploads depend on
Untouched(v, w) ==
    /\ v.step = w.step /\ v.value = w.value /\ v.generation = w.generation
    /\ v.lease_epoch = w.lease_epoch /\ v.uploaded = w.uploaded

Extras(w) == w.saved \cup w.fingerprint \cup w.copied \cup w.exposed \cup w.save.text

\* The rest of a window may change.
LEMMA GoodBeside ==
    ASSUME NEW c, NEW w, Good(c, w), NEW v \in Window, Untouched(v, w),
           Extras(v) \subseteq 1 .. typed,
           v.host.epoch < next_epoch, v.opening.epoch < next_epoch
    PROVE  Good(c, v)
<1>1. WindowTexts(v) \subseteq 1 .. typed
  BY DEF Good, WindowTexts, Untouched, Extras
<1>2. \A e \in WindowEpochs(v) : e < next_epoch
  BY DEF Good, WindowEpochs, Untouched
<1> QED
  BY <1>1, <1>2, GoodSame DEF Untouched

\* What is good of a window is good of its parts.
LEMMA GoodParts ==
    ASSUME NEW c, NEW w, Good(c, w)
    PROVE  /\ w \in Window /\ Extras(w) \subseteq 1 .. typed /\ w.value \subseteq 1 .. typed
           /\ w.host.epoch < next_epoch /\ w.opening.epoch < next_epoch
           /\ w.lease_epoch < next_epoch
           /\ w.step.epoch < next_epoch /\ w.step.answer.epoch < next_epoch
           /\ w.step.text \subseteq 1 .. typed /\ w.step.fetched.text \subseteq 1 .. typed
           /\ w.save.text \subseteq 1 .. typed
BY DEF Good, WindowTexts, WindowEpochs, Extras

-----------------------------------------------------------------------------
(* What a step of the system keeps of a window.                            *)

\* No epoch that was granted before is that of a new lease.
LEMMA GoodKept ==
    ASSUME NEW c, NEW w, Good(c, w), typed \in Nat, next_epoch \in Nat,
           typed' \in Nat, typed <= typed', next_epoch' \in Nat, next_epoch <= next_epoch',
           \A e \in Nat : e < next_epoch /\ HoldsLeaseOf(c, e)'
                              => HoldsLeaseOf(c, e) /\ draft'.text = draft.text
    PROVE  Good(c, w)'
<1>0. w \in Window /\ w.step \in StepRecord
  BY WindowParts DEF Good
<1>1. (WindowTexts(w) \subseteq 1 .. typed)'
  BY DEF Good, WindowTexts
<1>2. (\A e \in WindowEpochs(w) : e < next_epoch)'
  <2>1. \A e \in WindowEpochs(w) : e \in Nat
    BY <1>0, WindowParts, StepParts DEF WindowEpochs, HostState
  <2> QED
    BY <2>1 DEF Good, WindowEpochs
<1>3. /\ \A e \in {w.lease_epoch, w.step.epoch, w.step.answer.epoch} : e \in Nat /\ e < next_epoch
      /\ StepFits(c, w) /\ UploadFits(c, w)
  BY <1>0, WindowParts, StepParts DEF Good, WindowEpochs, WindowOK
<1>4. UploadFits(c, w)'
  BY <1>3 DEF UploadFits
<1>5. StepFits(c, w)'
  BY <1>3 DEF StepFits
<1> QED
  BY <1>0, <1>1, <1>2, <1>4, <1>5 DEF Good, WindowOK

\* What is good of the window of a Client, after a step
LEMMA GoodPrimed ==
    ASSUME NEW c, NEW w, w = client'[c], Good(c, w)'
    PROVE  Good(c, client[c])'
BY DEF Good, WindowOK, StepFits, UploadFits, WindowTexts, WindowEpochs, HoldsLeaseOf

\* An edit makes what was sent, and what is stored, older than the text.
LEMMA GoodEdited ==
    ASSUME NEW c, NEW w, Good(c, w), NEW v \in Window,
           v.step = w.step, v.generation = w.generation + 1,
           v.lease_epoch = w.lease_epoch, v.uploaded = w.uploaded,
           UNCHANGED <<lease, next_epoch, draft>>,
           WindowTexts(v) \subseteq 1 .. typed',
           v.host.epoch < next_epoch, v.opening.epoch < next_epoch
    PROVE  Good(c, v)'
<1>0. w \in Window /\ w.step \in StepRecord /\ w.uploaded \in Nat /\ w.generation \in Nat
      /\ w.step.generation \in Nat
  BY WindowParts, StepParts DEF Good
<1>1. (WindowTexts(v) \subseteq 1 .. typed)'
  BY DEF WindowTexts
<1>2. (\A e \in WindowEpochs(v) : e < next_epoch)'
  BY DEF Good, WindowEpochs
<1>3. StepFits(c, w) /\ UploadFits(c, w)
  BY DEF Good, WindowOK
<1>4. UploadFits(c, v)'
  BY <1>0, <1>3 DEF UploadFits
<1>5. StepFits(c, v)'
  BY <1>0, <1>3 DEF StepFits, UploadFits, HoldsLeaseOf
<1> QED
  BY <1>1, <1>2, <1>4, <1>5 DEF Good, WindowOK

\* A window whose step came further
LEMMA GoodStepped ==
    ASSUME NEW c, NEW w, Good(c, w), NEW s \in StepRecord, NEW v, v = [w EXCEPT !.step = s],
           typed' = typed, next_epoch \in Nat, next_epoch' \in Nat, next_epoch <= next_epoch',
           s.text \cup s.fetched.text \subseteq 1 .. typed,
           s.epoch < next_epoch', s.answer.epoch < next_epoch',
           StepFits(c, v)', UploadFits(c, v)'
    PROVE  Good(c, v)'
<1>0. w \in Window
  BY DEF Good
<1>1. /\ v \in Window /\ v.step = s
      /\ v.value = w.value /\ v.saved = w.saved /\ v.fingerprint = w.fingerprint
      /\ v.copied = w.copied /\ v.exposed = w.exposed /\ v.save = w.save
      /\ v.generation = w.generation /\ v.lease_epoch = w.lease_epoch
      /\ v.uploaded = w.uploaded /\ v.host = w.host /\ v.opening = w.opening
  BY <1>0, WithStep
<1>2. (WindowTexts(v) \subseteq 1 .. typed)'
  BY <1>1 DEF Good, WindowTexts
<1>3. (\A e \in WindowEpochs(v) : e < next_epoch)'
  <2>1. \A e \in WindowEpochs(w) : e \in Nat /\ e < next_epoch
    BY <1>0, WindowParts, StepParts DEF Good, WindowEpochs, HostState
  <2> QED
    BY <1>1, <2>1 DEF WindowEpochs
<1> QED
  BY <1>1, <1>2, <1>3 DEF Good, WindowOK

-----------------------------------------------------------------------------
(* The rest of the state.                                                  *)

\* News of a Client
NewsFit(q) ==
    /\ q \in Seq(HostState)
    /\ Len(q) <= left.news
    /\ \A i \in 1 .. Len(q) : q[i].epoch < next_epoch

\* The invariant but for the windows: the Host, the news, and the history with the budget
HostFits ==
    /\ lease \in Lease /\ next_epoch \in Nat \ {0} /\ draft \in Draft /\ disk \in Texts
    /\ lease.epoch < next_epoch
    /\ lease.holder # Nobody => lease.epoch # 0
    /\ disk \cup draft.text \subseteq 1 .. typed

NewsFits == news \in [Clients -> Seq(HostState)] /\ \A c \in Clients : NewsFit(news[c])

HistoryFits ==
    /\ typed \in Nat
    /\ given_up \in Texts /\ overwritten \in Texts /\ continues \in SUBSET Clients
    /\ given_up \cup overwritten \subseteq 1 .. typed
    /\ left \in Budget

WindowsFit == client \in [Clients -> Window] /\ \A c \in Clients : Good(c, client[c])

\* The invariant, by parts
LEMMA Parts == IInv <=> HostFits /\ NewsFits /\ HistoryFits /\ WindowsFit
<1>1. ASSUME IInv PROVE HostFits /\ HistoryFits
  BY <1>1 DEF IInv, Types, TextsTyped, EpochsGranted, HostFits, HistoryFits
<1>2. ASSUME IInv PROVE NewsFits
  <2>1. news \in [Clients -> Seq(HostState)]
    BY <1>2 DEF IInv, Types
  <2>2. \A c \in Clients : Len(news[c]) <= left.news
    BY <1>2 DEF IInv, NewsBounded
  <2>3. ASSUME NEW c \in Clients, NEW i \in 1 .. Len(news[c]) PROVE news[c][i].epoch < next_epoch
    <3>1. news[c] \in Seq(HostState)
      BY <2>1
    <3>2. DOMAIN news[c] = 1 .. Len(news[c])
      BY <3>1
    <3> QED
      BY <1>2, <3>2 DEF IInv, EpochsGranted
  <2> QED
    BY <2>1, <2>2, <2>3 DEF NewsFits, NewsFit
<1>3. ASSUME IInv PROVE WindowsFit
  BY <1>3 DEF IInv, Types, TextsTyped, EpochsGranted, WindowsFit, Good
<1>4. ASSUME HostFits, NewsFits, HistoryFits, WindowsFit PROVE IInv
  <2>1. Types
    BY <1>4 DEF HostFits, NewsFits, HistoryFits, WindowsFit, Types
  <2>2. TextsTyped
    BY <1>4 DEF HostFits, HistoryFits, WindowsFit, Good, TextsTyped
  <2>3. NewsBounded
    BY <1>4 DEF NewsFits, NewsFit, NewsBounded
  <2>4. ASSUME NEW c \in Clients, NEW i \in DOMAIN news[c] PROVE news[c][i].epoch < next_epoch
    <3>1. news[c] \in Seq(HostState)
      BY <1>4 DEF NewsFits
    <3>2. DOMAIN news[c] = 1 .. Len(news[c])
      BY <3>1
    <3> QED
      BY <1>4, <3>2 DEF NewsFits, NewsFit
  <2>5. EpochsGranted
    BY <1>4, <2>4 DEF HostFits, WindowsFit, Good, EpochsGranted
  <2>6. \A c \in Clients : WindowOK(c, client[c])
    BY <1>4 DEF WindowsFit, Good
  <2> QED
    BY <2>1, <2>2, <2>3, <2>5, <2>6 DEF IInv
<1> QED
  BY <1>1, <1>2, <1>3, <1>4

\* ... after a step
LEMMA PartsAfter ==
    ASSUME HostFits', NewsFits', HistoryFits', WindowsFit'
    PROVE  IInv'
<1>1. Types'
  BY DEF HostFits, NewsFits, HistoryFits, WindowsFit, Types
<1>2. TextsTyped'
  BY DEF HostFits, HistoryFits, WindowsFit, Good, TextsTyped
<1>3. NewsBounded'
  BY DEF NewsFits, NewsFit, NewsBounded
<1>4. ASSUME NEW c \in Clients, NEW i \in DOMAIN news'[c] PROVE news'[c][i].epoch < next_epoch'
  <2>1. news'[c] \in Seq(HostState)
    BY DEF NewsFits
  <2>2. DOMAIN news'[c] = 1 .. Len(news'[c])
    BY <2>1
  <2> QED
    BY <2>2 DEF NewsFits, NewsFit
<1>5. EpochsGranted'
  BY <1>4 DEF HostFits, WindowsFit, Good, EpochsGranted
<1>6. (\A c \in Clients : WindowOK(c, client[c]))'
  BY DEF WindowsFit, Good
<1> QED
  BY <1>1, <1>2, <1>3, <1>5, <1>6 DEF IInv

\* What most lemmas about windows ask of the rest
LEMMA Context ==
    ASSUME IInv
    PROVE  /\ HostFits /\ NewsFits /\ HistoryFits /\ WindowsFit
           /\ EpochsGranted /\ lease \in Lease
           /\ next_epoch \in Nat \ {0} /\ next_epoch \in Nat /\ typed \in Nat
           /\ \A c \in Clients : Good(c, client[c])
BY Parts DEF IInv, HostFits, HistoryFits, WindowsFit

\* One window changes; the others keep what is good of them.
LEMMA OneWindow ==
    ASSUME IInv, NEW c \in Clients, NEW v, client' = [client EXCEPT ![c] = v], Good(c, v)',
           typed' \in Nat, typed <= typed', next_epoch' \in Nat, next_epoch <= next_epoch',
           \A k \in Clients \ {c} : \A e \in Nat :
               e < next_epoch /\ HoldsLeaseOf(k, e)' => HoldsLeaseOf(k, e) /\ draft'.text = draft.text
    PROVE  WindowsFit'
<1>1. client \in [Clients -> Window]
  BY Context DEF WindowsFit
<1>2. v \in Window
  BY DEF Good
<1>3. client' \in [Clients -> Window]
  BY <1>1, <1>2
<1>4. ASSUME NEW k \in Clients PROVE Good(k, client[k])'
  <2>1. CASE k = c
    <3>1. v = client'[c]
      BY <1>1
    <3> QED
      BY <2>1, <3>1, GoodPrimed
  <2>2. CASE k # c
    <3>1. PICK w : w = client[k]
      OBVIOUS
    <3>2. w = client'[k]
      BY <1>1, <2>2, <3>1
    <3>3. Good(k, w)
      BY <3>1, Context
    <3>4. Good(k, w)'
      BY <2>2, <3>3, Context, GoodKept
    <3> QED
      BY <3>2, <3>4, GoodPrimed
  <2> QED
    BY <2>1, <2>2
<1> QED
  BY <1>3, <1>4 DEF WindowsFit

\* A window changes while the Host, the draft and the lease do not.
LEMMA WindowOnly ==
    ASSUME IInv, NEW c \in Clients, NEW v, client' = [client EXCEPT ![c] = v], Good(c, v),
           UNCHANGED <<lease, next_epoch, draft, typed>>
    PROVE  WindowsFit'
<1>1. /\ typed \in Nat /\ next_epoch \in Nat
      /\ \A k : \A e \in Nat : HoldsLeaseOf(k, e)' => HoldsLeaseOf(k, e) /\ draft'.text = draft.text
  BY Context DEF HoldsLeaseOf
<1>2. /\ typed' \in Nat /\ next_epoch' \in Nat /\ typed <= typed' /\ next_epoch <= next_epoch'
      /\ \A e \in Nat : HoldsLeaseOf(c, e)' => HoldsLeaseOf(c, e) /\ draft'.text = draft.text
  BY <1>1
<1>3. Good(c, v)'
  BY <1>1, <1>2, GoodKept
<1> QED
  BY <1>1, <1>2, <1>3, OneWindow

\* The rest does not change.
LEMMA HostSame ==
    ASSUME IInv, UNCHANGED hostVars, typed' \in Nat, typed <= typed'
    PROVE  HostFits'
BY Context DEF HostFits, hostVars

\* ... nor do the news
LEMMA NewsSame ==
    ASSUME IInv, UNCHANGED <<news, next_epoch>>, left'.news = left.news
    PROVE  NewsFits'
BY Context DEF NewsFits, NewsFit

\* ... nor does the history.
LEMMA HistorySame ==
    ASSUME IInv, UNCHANGED historyVars, left' \in Budget
    PROVE  HistoryFits'
BY Context DEF HistoryFits, historyVars

\* What happens costs from the budget.
LEMMA Spent ==
    ASSUME IInv, NEW what \in {"edits", "undos", "takeovers", "saves", "drops", "closes", "faults"},
           Spend(what)
    PROVE  left' \in Budget /\ left'.news = left.news
<1>1. left \in Budget
  BY Context DEF HistoryFits
<1>2. CASE what = "edits"
  BY <1>1, <1>2 DEF Spend, Budget
<1>3. CASE what = "undos"
  BY <1>1, <1>3 DEF Spend, Budget
<1>4. CASE what = "takeovers"
  BY <1>1, <1>4 DEF Spend, Budget
<1>5. CASE what = "saves"
  BY <1>1, <1>5 DEF Spend, Budget
<1>6. CASE what = "drops"
  BY <1>1, <1>6 DEF Spend, Budget
<1>7. CASE what = "closes"
  BY <1>1, <1>7 DEF Spend, Budget
<1>8. CASE what = "faults"
  BY <1>1, <1>8 DEF Spend, Budget
<1> QED
  BY <1>2, <1>3, <1>4, <1>5, <1>6, <1>7, <1>8

\* A Client whose news are taken, or dropped
LEMMA NewsTaken ==
    ASSUME IInv, NEW c \in Clients, NEW q, NewsFit(q), news' = [news EXCEPT ![c] = q],
           UNCHANGED next_epoch, left'.news = left.news
    PROVE  NewsFits'
BY Context DEF NewsFits, NewsFit

\* A state that is told to every Client replaces one that was not sent, so that news stay bounded.
LEMMA Notified ==
    ASSUME IInv, NEW state \in HostState, Notify(state), UNCHANGED left,
           next_epoch' \in Nat, next_epoch <= next_epoch', state.epoch < next_epoch'
    PROVE  NewsFits'
<1>1. PICK sent \in SUBSET {c \in Clients : Len(news[c]) \in 1 .. left.news - 1} :
         news' = [c \in Clients |->
                    IF ~Subscribed(c) THEN news[c]
                    ELSE IF news[c] = <<>> \/ c \in sent THEN Append(news[c], state)
                    ELSE Append(Front(news[c]), state)]
  BY DEF Notify
<1>2. ASSUME NEW c \in Clients
      PROVE  /\ news'[c] \in Seq(HostState) /\ Len(news'[c]) <= left.news
             /\ \A i \in 1 .. Len(news'[c]) : news'[c][i].epoch < next_epoch'
  <2> DEFINE q == news[c]
  <2>1. /\ q \in Seq(HostState) /\ Len(q) <= left.news
        /\ \A i \in 1 .. Len(q) : q[i].epoch < next_epoch /\ q[i].epoch \in Nat
        /\ left.news \in Nat \ {0} /\ next_epoch \in Nat
    <3>1. /\ q \in Seq(HostState) /\ Len(q) <= left.news
          /\ \A i \in 1 .. Len(q) : q[i].epoch < next_epoch
      BY Context DEF NewsFits, NewsFit
    <3>2. \A i \in 1 .. Len(q) : q[i] \in HostState
      BY <3>1
    <3>3. \A i \in 1 .. Len(q) : q[i].epoch \in Nat
      BY <3>2 DEF HostState
    <3>4. left.news \in Nat \ {0} /\ next_epoch \in Nat
      BY Context DEF HistoryFits, Budget
    <3> QED
      BY <3>1, <3>3, <3>4
  <2>2. \/ news'[c] = q
        \/ news'[c] = Append(q, state) /\ Len(q) + 1 <= left.news
        \/ news'[c] = Append(Front(q), state) /\ Len(q) # 0
    <3>1. c \in sent => Len(q) + 1 <= left.news
      BY <2>1
    <3>2. q = <<>> => Len(q) + 1 <= left.news
      BY <2>1
    <3>3. q # <<>> => Len(q) # 0
      BY <2>1
    <3> QED
      BY <1>1, <3>1, <3>2, <3>3
  <2> HIDE DEF q
  <2>3. ASSUME NEW p \in Seq(HostState), Len(p) + 1 <= left.news,
               \A i \in 1 .. Len(p) : p[i].epoch < next_epoch /\ p[i].epoch \in Nat
        PROVE  LET n == Append(p, state) IN
               /\ n \in Seq(HostState) /\ Len(n) <= left.news
               /\ \A i \in 1 .. Len(n) : n[i].epoch < next_epoch'
    BY <2>1, <2>3
  <2>4. Len(q) # 0 =>
           /\ Front(q) \in Seq(HostState) /\ Len(Front(q)) = Len(q) - 1
           /\ \A i \in 1 .. Len(q) - 1 : Front(q)[i] = q[i]
    <3>1. /\ 1 \in Int /\ Len(q) - 1 \in Int /\ Len(q) \in Nat
          /\ \A i \in 1 .. Len(q) - 1 : q[i] \in HostState
      BY <2>1
    <3> DEFINE p == SubSeq(q, 1, Len(q) - 1)
    <3>3. /\ p \in Seq(HostState)
          /\ Len(p) = IF 1 <= Len(q) - 1 THEN Len(q) - 1 - 1 + 1 ELSE 0
          /\ \A i \in 1 .. Len(q) - 1 - 1 + 1 : p[i] = q[1 + i - 1]
      BY <3>1, SubSeqProperties
    <3>4. Front(q) = p
      BY DEF Front
    <3> HIDE DEF p
    <3> QED
      BY <3>1, <3>3, <3>4
  <2>5. CASE news'[c] = q
    BY <2>1, <2>5
  <2>6. CASE news'[c] = Append(q, state) /\ Len(q) + 1 <= left.news
    BY <2>1, <2>3, <2>6
  <2>7. CASE news'[c] = Append(Front(q), state) /\ Len(q) # 0
    <3>1. /\ Len(Front(q)) + 1 <= left.news
          /\ \A i \in 1 .. Len(Front(q)) : Front(q)[i].epoch < next_epoch /\ Front(q)[i].epoch \in Nat
      BY <2>1, <2>4, <2>7
    <3> QED
      BY <2>3, <2>4, <2>7, <3>1
  <2> QED
    BY <2>2, <2>5, <2>6, <2>7
<1>3. news' \in [Clients -> Seq(HostState)]
  BY <1>1, <1>2
<1> QED
  BY <1>2, <1>3 DEF NewsFits, NewsFit

-----------------------------------------------------------------------------
(* Steps that change one window and leave the lease and the draft alone.   *)

\* The windows of such a step
LEMMA WindowStep ==
    ASSUME IInv, NEW c \in Clients, NEW v, Show(c, v), Good(c, v),
           UNCHANGED <<lease, next_epoch, draft, typed>>,
           disk' \in Texts, disk' \subseteq 1 .. typed, NewsFits', HistoryFits'
    PROVE  IInv'
<1>1. HostFits'
  BY Context DEF HostFits
<1>2. WindowsFit'
  BY WindowOnly DEF Show
<1> QED
  BY <1>1, <1>2, PartsAfter

\* ... and nothing else
LEMMA OnlyWindow ==
    ASSUME IInv, NEW c \in Clients, NEW v, Show(c, v), Good(c, v),
           UNCHANGED <<hostVars, news, historyVars, left>>
    PROVE  IInv'
<1>1. /\ UNCHANGED <<lease, next_epoch, draft, typed, disk>>
      /\ UNCHANGED <<news, next_epoch>> /\ UNCHANGED historyVars /\ left' = left
  BY DEF hostVars, historyVars
<1>2. disk \in Texts /\ disk \subseteq 1 .. typed /\ left \in Budget
  BY Context DEF HostFits, HistoryFits
<1>3. NewsFits' /\ HistoryFits'
  BY <1>1, <1>2, NewsSame, HistorySame
<1> QED
  BY <1>1, <1>2, <1>3, WindowStep

\* Windows that save, load, connect or close: what the Host knows of stays.
LEMMA GoodOutside ==
    ASSUME IInv, NEW c \in Clients, NEW w, w = client[c], NEW v \in Window, Untouched(v, w),
           v.saved = w.saved, v.fingerprint = w.fingerprint, v.copied = w.copied,
           v.exposed = w.exposed, v.save.text \subseteq 1 .. typed,
           v.host = w.host, v.opening = w.opening
    PROVE  Good(c, v)
<1>1. Good(c, w)
  BY Context
<1>2. Extras(v) \subseteq 1 .. typed /\ v.host.epoch < next_epoch /\ v.opening.epoch < next_epoch
  BY <1>1, GoodParts DEF Extras
<1> QED
  BY <1>1, <1>2, GoodBeside

\* A step that failed ends and leaves an error.
LEMMA StepFailsKeeps ==
    ASSUME IInv, NEW c \in Clients, StepFails(c)
    PROVE  IInv'
<1>1. PICK w : w = client[c]
  OBVIOUS
<1>2. Good(c, w) /\ next_epoch \in Nat \ {0}
  BY <1>1, Context
<1>3. PICK v : v = [w EXCEPT !.step = NoStep, !.error = TRUE]
  OBVIOUS
<1>4. w \in Window
  BY <1>2, GoodParts
<1>5. Good(c, v)
  <2>1. /\ v \in Window /\ v.step = NoStep /\ Alike(v, w)
        /\ v.lease_epoch = w.lease_epoch /\ v.uploaded = w.uploaded /\ v.host = w.host
    BY <1>3, <1>4, NoStepParts DEF Window, Alike
  <2> QED
    BY <1>2, <2>1, GoodResting
<1>6. Show(c, v) /\ UNCHANGED <<hostVars, news, historyVars, left>>
  BY <1>1, <1>3 DEF StepFails
<1> QED
  BY <1>5, <1>6, OnlyWindow

\* The user starts a takeover.
LEMMA TakeOverKeeps ==
    ASSUME IInv, NEW c \in Clients, TakeOver(c)
    PROVE  IInv'
<1>1. /\ Good(c, Spawn(client[c], "takeover")) /\ Show(c, Spawn(client[c], "takeover"))
      /\ UNCHANGED <<hostVars, news, historyVars>> /\ Spend("takeovers")
  BY Context, GoodSpawn DEF TakeOver, StepKinds
<1>2. left' \in Budget /\ left'.news = left.news
  BY <1>1, Spent
<1>3. /\ UNCHANGED <<lease, next_epoch, draft, typed, disk>>
      /\ UNCHANGED <<news, next_epoch>> /\ UNCHANGED historyVars
  BY <1>1 DEF hostVars, historyVars
<1>4. disk' \in Texts /\ disk' \subseteq 1 .. typed
  BY <1>3, Context DEF HostFits
<1>5. NewsFits' /\ HistoryFits'
  BY <1>2, <1>3, NewsSame, HistorySame
<1> QED
  BY <1>1, <1>3, <1>4, <1>5, WindowStep

\* save_document asks for a save of the text as it is.
LEMMA SaveKeeps ==
    ASSUME IInv, NEW c \in Clients, Save(c)
    PROVE  IInv'
<1>1. PICK w : w = client[c]
  OBVIOUS
<1>2. Good(c, w) /\ w \in Window /\ w.value \subseteq 1 .. typed
  BY <1>1, Context, GoodParts
<1>3. PICK s : s = [at |-> "check", generation |-> w.generation, text |-> w.value,
                    expected |-> w.fingerprint]
  OBVIOUS
<1>4. s \in SaveRecord /\ s.text = w.value
  BY <1>2, <1>3, WindowParts DEF SaveRecord, SavePlaces
<1>5. PICK v : v = [w EXCEPT !.save = s]
  OBVIOUS
<1>6. /\ v \in Window /\ Untouched(v, w) /\ v.saved = w.saved /\ v.fingerprint = w.fingerprint
      /\ v.copied = w.copied /\ v.exposed = w.exposed /\ v.save = s
      /\ v.host = w.host /\ v.opening = w.opening
  BY <1>2, <1>4, <1>5 DEF Window, Untouched
<1>7. Good(c, v)
  BY <1>1, <1>2, <1>4, <1>6, GoodOutside
<1>8. Show(c, v) /\ UNCHANGED <<hostVars, news, historyVars>> /\ Spend("saves")
  BY <1>1, <1>3, <1>5 DEF Save
<1>9. left' \in Budget /\ left'.news = left.news
  BY <1>8, Spent
<1>10. /\ UNCHANGED <<lease, next_epoch, draft, typed, disk>>
       /\ UNCHANGED <<news, next_epoch>> /\ UNCHANGED historyVars
  BY <1>8 DEF hostVars, historyVars
<1>11. disk' \in Texts /\ disk' \subseteq 1 .. typed
  BY <1>10, Context DEF HostFits
<1>12. NewsFits' /\ HistoryFits'
  BY <1>9, <1>10, NewsSame, HistorySame
<1> QED
  BY <1>7, <1>8, <1>10, <1>11, <1>12, WindowStep

\* A save request that came further
LEMMA SaveAt ==
    ASSUME IInv, NEW c \in Clients, NEW w, w = client[c], NEW at \in SavePlaces,
           NEW v, v = [w EXCEPT !.save.at = at]
    PROVE  Good(c, v)
<1>1. Good(c, w) /\ w \in Window /\ w.save.text \subseteq 1 .. typed
  BY Context, GoodParts
<1>2. PICK s : s = [w.save EXCEPT !.at = at]
  OBVIOUS
<1>3. s \in SaveRecord /\ s.text = w.save.text
  BY <1>1, <1>2, WindowParts DEF SaveRecord
<1>4. v = [w EXCEPT !.save = s]
  BY <1>1, <1>2 DEF Window, SaveRecord
<1>5. /\ v \in Window /\ Untouched(v, w) /\ v.saved = w.saved /\ v.fingerprint = w.fingerprint
      /\ v.copied = w.copied /\ v.exposed = w.exposed /\ v.save = s
      /\ v.host = w.host /\ v.opening = w.opening
  BY <1>1, <1>3, <1>4 DEF Window, Untouched
<1> QED
  BY <1>1, <1>3, <1>5, GoodOutside

\* A window whose save request ended
LEMMA SaveEnds ==
    ASSUME IInv, NEW c \in Clients, NEW w, w = client[c], NEW reloads \in Nat,
           NEW v, v = [w EXCEPT !.save = NoSave, !.reloads = reloads]
    PROVE  Good(c, v)
<1>1. Good(c, w) /\ w \in Window
  BY Context, GoodParts
<1>2. NoSave \in SaveRecord /\ NoSave.text = {}
  BY DEF NoSave, SaveRecord, SavePlaces, Texts
<1>3. /\ v \in Window /\ Untouched(v, w) /\ v.saved = w.saved /\ v.fingerprint = w.fingerprint
      /\ v.copied = w.copied /\ v.exposed = w.exposed /\ v.save = NoSave
      /\ v.host = w.host /\ v.opening = w.opening
  BY <1>1, <1>2 DEF Window, Untouched
<1> QED
  BY <1>1, <1>2, <1>3, GoodOutside

\* The file gets the text of the request, or the request finds a conflict.
LEMMA SaveFileKeeps ==
    ASSUME IInv, NEW c \in Clients, SaveFile(c)
    PROVE  IInv'
<1>1. PICK w : w = client[c]
  OBVIOUS
<1>2. PICK at \in SavePlaces, exposed \in {w.exposed, w.exposed \cup (disk \ w.save.text)} :
         /\ Show(c, [[w EXCEPT !.save.at = at] EXCEPT !.exposed = exposed])
         /\ disk' \in {disk, w.save.text}
         /\ UNCHANGED <<lease, next_epoch, draft, news, historyVars, left>>
  <2>1. w \in Window
    BY <1>1, Context, GoodParts
  <2>2. ASSUME NEW at, NEW exposed
        PROVE  /\ [w EXCEPT !.save.at = at] = [[w EXCEPT !.save.at = at] EXCEPT !.exposed = w.exposed]
               /\ [w EXCEPT !.save.at = at, !.exposed = exposed]
                     = [[w EXCEPT !.save.at = at] EXCEPT !.exposed = exposed]
    BY <2>1 DEF Window
  <2>3. UNCHANGED <<lease, next_epoch, draft, news, historyVars, left>>
    BY DEF SaveFile
  <2>4. CASE /\ Show(c, [w EXCEPT !.save.at = "conflict"])
             /\ UNCHANGED disk
    <3>1. Show(c, [[w EXCEPT !.save.at = "conflict"] EXCEPT !.exposed = w.exposed])
      BY <2>2, <2>4
    <3> QED
      BY <2>3, <2>4, <3>1 DEF SavePlaces
  <2>5. ASSUME NEW exposed \in {w.exposed, w.exposed \cup (disk \ w.save.text)},
               Show(c, [w EXCEPT !.save.at = "saved", !.exposed = exposed]), disk' = w.save.text
        PROVE  \E at \in SavePlaces :
                  /\ Show(c, [[w EXCEPT !.save.at = at] EXCEPT !.exposed = exposed])
                  /\ disk' \in {disk, w.save.text}
                  /\ UNCHANGED <<lease, next_epoch, draft, news, historyVars, left>>
    <3>1. Show(c, [[w EXCEPT !.save.at = "saved"] EXCEPT !.exposed = exposed])
      BY <2>2, <2>5
    <3> QED
      BY <2>3, <2>5, <3>1 DEF SavePlaces
  <2> QED
    BY <1>1, <2>4, <2>5 DEF SaveFile
<1>3. PICK u, v : u = [w EXCEPT !.save.at = at] /\ v = [u EXCEPT !.exposed = exposed]
  OBVIOUS
<1>4. Good(c, v)
  <2>1. Good(c, u)
    BY <1>1, <1>3, SaveAt
  <2>2. exposed \in Texts /\ exposed \subseteq 1 .. typed
    BY <1>1, <1>2, Context, GoodParts, WindowParts DEF Extras, HostFits, Texts
  <2> QED
    BY <1>3, <2>1, <2>2, GoodExposed
<1>5. /\ w.save.text \in Texts /\ w.save.text \subseteq 1 .. typed
      /\ disk \in Texts /\ disk \subseteq 1 .. typed /\ left \in Budget
  BY <1>1, Context, GoodParts, WindowParts DEF SaveRecord, HostFits, HistoryFits
<1>6. /\ disk' \in Texts /\ disk' \subseteq 1 .. typed
      /\ UNCHANGED <<lease, next_epoch, draft, typed>>
      /\ UNCHANGED <<news, next_epoch>> /\ UNCHANGED historyVars /\ left' = left
  BY <1>2, <1>5 DEF historyVars
<1>7. NewsFits' /\ HistoryFits'
  BY <1>5, <1>6, NewsSame, HistorySame
<1> QED
  BY <1>2, <1>3, <1>4, <1>6, <1>7, WindowStep

\* apply_project_file_save_result: what was saved, a question, a reload or nothing
LEMMA SaveDoneKeeps ==
    ASSUME IInv, NEW c \in Clients, SaveDone(c)
    PROVE  IInv'
<1>1. PICK w : w = client[c]
  OBVIOUS
<1>2. Good(c, w) /\ w \in Window /\ w.reloads \in Nat /\ w.save \in SaveRecord
      /\ w.external_dirty \in BOOLEAN /\ w.save.text \in Texts /\ w.save.text \subseteq 1 .. typed
  BY <1>1, Context, GoodParts, WindowParts DEF SaveRecord
<1>3. UNCHANGED <<hostVars, news, historyVars, left>>
  BY DEF SaveDone
<1>4. CASE Show(c, [w EXCEPT !.saved = w.save.text, !.fingerprint = w.save.text, !.save = NoSave,
                            !.external_dirty = @ /\ w.save.generation # w.generation])
  <2>1. PICK v : v = [w EXCEPT !.saved = w.save.text, !.fingerprint = w.save.text, !.save = NoSave,
                            !.external_dirty = @ /\ w.save.generation # w.generation]
    OBVIOUS
  <2>2. NoSave \in SaveRecord /\ NoSave.text = {}
    BY DEF NoSave, SaveRecord, SavePlaces, Texts
  <2>3. /\ v \in Window /\ Untouched(v, w) /\ v.saved = w.save.text /\ v.fingerprint = w.save.text
        /\ v.copied = w.copied /\ v.exposed = w.exposed /\ v.save = NoSave
        /\ v.host = w.host /\ v.opening = w.opening
    BY <1>2, <2>1, <2>2 DEF Window, Untouched
  <2>4. Extras(v) \subseteq 1 .. typed /\ v.host.epoch < next_epoch /\ v.opening.epoch < next_epoch
    BY <1>2, <2>2, <2>3, GoodParts DEF Extras
  <2>5. Good(c, v)
    BY <1>2, <2>3, <2>4, GoodBeside
  <2> QED
    BY <1>3, <1>4, <2>1, <2>5, OnlyWindow
<1>5. CASE Show(c, [w EXCEPT !.save.at = "asking"])
  <2>1. PICK v : v = [w EXCEPT !.save.at = "asking"]
    OBVIOUS
  <2>2. Good(c, v)
    BY <1>1, <2>1, SaveAt DEF SavePlaces
  <2> QED
    BY <1>3, <1>5, <2>1, <2>2, OnlyWindow
<1>6. CASE Show(c, [w EXCEPT !.save = NoSave, !.reloads = @ + 1])
  <2>1. PICK v : v = [w EXCEPT !.save = NoSave, !.reloads = w.reloads + 1]
    OBVIOUS
  <2>2. w.reloads + 1 \in Nat
    BY <1>2
  <2>3. Good(c, v)
    BY <1>1, <2>1, <2>2, SaveEnds
  <2> QED
    BY <1>3, <1>6, <2>1, <2>3, OnlyWindow
<1>7. CASE Show(c, [w EXCEPT !.save = NoSave])
  <2>1. PICK v : v = [w EXCEPT !.save = NoSave, !.reloads = w.reloads]
    OBVIOUS
  <2>2. v = [w EXCEPT !.save = NoSave]
    BY <1>2, <2>1 DEF Window
  <2>3. Good(c, v)
    BY <1>1, <1>2, <2>1, SaveEnds
  <2> QED
    BY <1>3, <1>7, <2>2, <2>3, OnlyWindow
<1> QED
  BY <1>1, <1>4, <1>5, <1>6, <1>7 DEF SaveDone

\* A window that changes only its connection, or whether it is open
LEMMA GoodLink ==
    ASSUME NEW c \in Clients, NEW w, Good(c, w), NEW link \in Links, NEW window \in WindowStates,
           NEW v, v = [w EXCEPT !.link = link, !.window = window]
    PROVE  Good(c, v)
<1>1. w \in Window
  BY GoodParts
<1>2. /\ v \in Window /\ Untouched(v, w) /\ v.saved = w.saved /\ v.fingerprint = w.fingerprint
      /\ v.copied = w.copied /\ v.exposed = w.exposed /\ v.save = w.save
      /\ v.host = w.host /\ v.opening = w.opening
  BY <1>1 DEF Window, Untouched
<1>3. Extras(v) \subseteq 1 .. typed /\ v.host.epoch < next_epoch /\ v.opening.epoch < next_epoch
  BY <1>2, GoodParts DEF Extras
<1> QED
  BY <1>2, <1>3, GoodBeside

\* finish_close_when_synced changes only whether the window is open.
LEMMA GoodFinishClose ==
    ASSUME NEW c \in Clients, NEW w, Good(c, w)
    PROVE  Good(c, FinishClose(w))
<1>1. w \in Window /\ w.link \in Links
  BY GoodParts, WindowParts
<1>2. \/ FinishClose(w) = w
      \/ \E window \in WindowStates : FinishClose(w) = [w EXCEPT !.window = window]
  BY DEF FinishClose, WindowStates
<1>3. ASSUME NEW window \in WindowStates
      PROVE  Good(c, [w EXCEPT !.window = window])
  <2>1. [w EXCEPT !.window = window] = [w EXCEPT !.link = w.link, !.window = window]
    BY <1>1 DEF Window
  <2> QED
    BY <1>1, <2>1, GoodLink
<1> QED
  BY <1>2, <1>3

\* A window that learns a state of the Host
LEMMA GoodTold ==
    ASSUME NEW c \in Clients, NEW w, Good(c, w), NEW host \in HostState, host.epoch < next_epoch,
           NEW opening \in HostState, opening.epoch < next_epoch, NEW link \in Links,
           NEW v, v = [w EXCEPT !.link = link, !.host = host, !.opening = opening]
    PROVE  Good(c, v)
<1>1. w \in Window
  BY GoodParts
<1>2. /\ v \in Window /\ Untouched(v, w) /\ v.saved = w.saved /\ v.fingerprint = w.fingerprint
      /\ v.copied = w.copied /\ v.exposed = w.exposed /\ v.save = w.save
      /\ v.host = host /\ v.opening = opening
  BY <1>1 DEF Window, Untouched
<1>3. Extras(v) \subseteq 1 .. typed
  BY <1>2, GoodParts DEF Extras
<1> QED
  BY <1>2, <1>3, GoodBeside

\* States of the Host
LEMMA States ==
    ASSUME HostFits
    PROVE  /\ State(lease, draft) \in HostState /\ State(lease, draft).epoch < next_epoch
           /\ Unknown \in HostState /\ Unknown.epoch = 0 /\ 0 < next_epoch
           /\ Unknown = State(NoLease, NoDraft)
BY EditingAssumption DEF HostFits, State, HostState, Lease, Draft, Unknown, NoLease, NoDraft

\* The tick opens the workspace again, or reconciles and closes.
LEMMA TickKeeps ==
    ASSUME IInv, NEW c \in Clients, Tick(c)
    PROVE  IInv'
<1>1. PICK w : w = client[c]
  OBVIOUS
<1>2. Good(c, w) /\ w \in Window /\ w.window \in WindowStates
  BY <1>1, Context, GoodParts, WindowParts
<1>3. UNCHANGED <<hostVars, news, historyVars, left>>
  BY DEF Tick
<1>4. CASE Show(c, [w EXCEPT !.link = "asked"])
  <2>1. PICK v : v = [w EXCEPT !.link = "asked", !.window = w.window]
    OBVIOUS
  <2>2. v = [w EXCEPT !.link = "asked"]
    BY <1>2, <2>1 DEF Window
  <2>3. Good(c, v)
    BY <1>2, <2>1, GoodLink DEF Links
  <2> QED
    BY <1>3, <1>4, <2>2, <2>3, OnlyWindow
<1>5. CASE Show(c, FinishClose(Reconcile(c, w)))
  <2>1. Good(c, FinishClose(Reconcile(c, w)))
    BY <1>2, Context, GoodReconcile, GoodFinishClose
  <2> QED
    BY <1>3, <1>5, <2>1, OnlyWindow
<1> QED
  BY <1>1, <1>4, <1>5 DEF Tick

\* A connection comes back.
LEMMA ReconnectKeeps ==
    ASSUME IInv, NEW c \in Clients, Reconnect(c)
    PROVE  IInv'
<1>1. PICK w : w = client[c]
  OBVIOUS
<1>2. Good(c, w) /\ w \in Window /\ w.window \in WindowStates
  BY <1>1, Context, GoodParts, WindowParts
<1>3. PICK v : v = [w EXCEPT !.link = "up", !.window = w.window]
  OBVIOUS
<1>4. v = [w EXCEPT !.link = "up"]
  BY <1>2, <1>3 DEF Window
<1>5. Good(c, v)
  BY <1>2, <1>3, GoodLink DEF Links
<1>6. Show(c, v) /\ UNCHANGED <<hostVars, news, historyVars, left>>
  BY <1>1, <1>4 DEF Reconnect
<1> QED
  BY <1>5, <1>6, OnlyWindow

\* The Device store begins or ceases to take copies.
LEMMA DeviceChangesKeeps ==
    ASSUME IInv, NEW c \in Clients, DeviceChanges(c)
    PROVE  IInv'
<1>1. PICK w, v : w = client[c] /\ v = [w EXCEPT !.writable = ~@]
  OBVIOUS
<1>2. Good(c, w) /\ w \in Window /\ w.writable \in BOOLEAN
  BY <1>1, Context, GoodParts, WindowParts
<1>3. /\ v \in Window /\ v.step = w.step
      /\ v.value = w.value /\ v.saved = w.saved /\ v.fingerprint = w.fingerprint
      /\ v.copied = w.copied /\ v.exposed = w.exposed /\ v.save = w.save
      /\ v.generation = w.generation /\ v.lease_epoch = w.lease_epoch
      /\ v.uploaded = w.uploaded /\ v.host = w.host /\ v.opening = w.opening
  BY <1>1, <1>2 DEF Window
<1>4. Good(c, v)
  <2>1. WindowTexts(v) \subseteq 1 .. typed
    BY <1>2, <1>3 DEF Good, WindowTexts
  <2>2. \A epoch \in WindowEpochs(v) : epoch < next_epoch
    BY <1>2, <1>3 DEF Good, WindowEpochs
  <2> QED
    BY <1>2, <1>3, <2>1, <2>2, GoodSame
<1>5. Show(c, v) /\ UNCHANGED <<hostVars, news, historyVars>> /\ Spend("faults")
  BY <1>1 DEF DeviceChanges
<1>6. left' \in Budget /\ left'.news = left.news
  BY <1>5, Spent
<1>7. /\ UNCHANGED <<lease, next_epoch, draft, typed, disk>>
      /\ UNCHANGED <<news, next_epoch>> /\ UNCHANGED historyVars
  BY <1>5 DEF hostVars, historyVars
<1>8. disk' \in Texts /\ disk' \subseteq 1 .. typed
  BY <1>7, Context DEF HostFits
<1>9. NewsFits' /\ HistoryFits'
  BY <1>6, <1>7, NewsSame, HistorySame
<1> QED
  BY <1>4, <1>5, <1>7, <1>8, <1>9, WindowStep

\* The Host answers with the state as it is.
LEMMA OpenKeeps ==
    ASSUME IInv, NEW c \in Clients, Open(c)
    PROVE  IInv'
<1>1. PICK w : w = client[c]
  OBVIOUS
<1>2. Good(c, w) /\ w \in Window /\ w.host \in HostState /\ w.host.epoch < next_epoch
  BY <1>1, Context, GoodParts, WindowParts
<1>3. PICK opening : opening = State(lease, draft)
  OBVIOUS
<1>4. opening \in HostState /\ opening.epoch < next_epoch
  BY <1>3, Context, States
<1>5. PICK v : v = [w EXCEPT !.link = "answered", !.host = w.host, !.opening = opening]
  OBVIOUS
<1>6. v = [w EXCEPT !.link = "answered", !.opening = opening]
  BY <1>2, <1>5 DEF Window
<1>7. Good(c, v)
  BY <1>2, <1>4, <1>5, GoodTold DEF Links
<1>8. Show(c, v) /\ UNCHANGED <<hostVars, news, historyVars, left>>
  BY <1>1, <1>3, <1>6 DEF Open
<1> QED
  BY <1>7, <1>8, OnlyWindow

\* The window learns the state it was answered with, which may be an old one.
LEMMA ShowOpenedKeeps ==
    ASSUME IInv, NEW c \in Clients, ShowOpened(c)
    PROVE  IInv'
<1>1. PICK w : w = client[c]
  OBVIOUS
<1>2. Good(c, w) /\ w \in Window /\ w.opening \in HostState /\ w.opening.epoch < next_epoch
  BY <1>1, Context, GoodParts, WindowParts
<1>3. Unknown \in HostState /\ Unknown.epoch < next_epoch
  BY Context, States
<1>4. PICK v : v = [w EXCEPT !.link = "opened", !.host = w.opening, !.opening = Unknown]
  OBVIOUS
<1>5. Good(c, v)
  BY <1>2, <1>3, <1>4, GoodTold DEF Links
<1>6. Good(c, Reconcile(c, v))
  BY <1>5, Context, GoodReconcile
<1>7. Show(c, Reconcile(c, v)) /\ UNCHANGED <<hostVars, news, historyVars, left>>
  BY <1>1, <1>4 DEF ShowOpened
<1> QED
  BY <1>6, <1>7, OnlyWindow

\* The window learns the oldest state that is on its way.
LEMMA DeliverKeeps ==
    ASSUME IInv, NEW c \in Clients, Deliver(c)
    PROVE  IInv'
<1>1. PICK w, q : w = client[c] /\ q = news[c]
  OBVIOUS
<1>2. /\ Good(c, w) /\ w \in Window /\ w.opening \in HostState /\ w.opening.epoch < next_epoch
      /\ w.link \in Links
  BY <1>1, Context, GoodParts, WindowParts
<1>3. /\ q \in Seq(HostState) /\ q # <<>> /\ NewsFit(q) /\ left \in Budget
  BY <1>1, Context DEF Deliver, NewsFits, HistoryFits
<1>4. /\ Head(q) \in HostState /\ Head(q).epoch < next_epoch /\ NewsFit(Tail(q))
  <2>1. left.news \in Nat
    BY <1>3 DEF Budget
  <2>2. /\ Head(q) \in HostState /\ Head(q) = q[1] /\ Len(q) \in Nat \ {0}
        /\ Tail(q) \in Seq(HostState) /\ Len(Tail(q)) = Len(q) - 1
        /\ \A i \in 1 .. Len(q) - 1 : Tail(q)[i] = q[i + 1]
    BY <1>3
  <2> QED
    BY <1>3, <2>1, <2>2 DEF NewsFit
<1>5. PICK v : v = [w EXCEPT !.link = w.link, !.host = Head(q), !.opening = w.opening]
  OBVIOUS
<1>6. v = [w EXCEPT !.host = Head(q)]
  BY <1>2, <1>5 DEF Window
<1>7. Good(c, v)
  BY <1>2, <1>4, <1>5, GoodTold
<1>8. Good(c, Reconcile(c, v))
  BY <1>7, Context, GoodReconcile
<1>9. /\ Show(c, Reconcile(c, v)) /\ news' = [news EXCEPT ![c] = Tail(q)]
      /\ UNCHANGED <<lease, next_epoch, draft, typed>> /\ disk' = disk
      /\ UNCHANGED next_epoch /\ UNCHANGED historyVars /\ left' = left
  BY <1>1, <1>6 DEF Deliver, hostVars, historyVars
<1>10. disk' \in Texts /\ disk' \subseteq 1 .. typed
  BY <1>9, Context DEF HostFits
<1>11. NewsFits' /\ HistoryFits'
  BY <1>3, <1>4, <1>9, NewsTaken, HistorySame
<1> QED
  BY <1>8, <1>9, <1>10, <1>11, WindowStep

\* A window that is to close is reconciled first.
LEMMA RequestCloseKeeps ==
    ASSUME IInv, NEW c \in Clients, RequestClose(c)
    PROVE  IInv'
<1>1. PICK w : w = client[c]
  OBVIOUS
<1>2. Good(c, w) /\ w \in Window /\ w.link \in Links
  BY <1>1, Context, GoodParts, WindowParts
<1>3. PICK v : v = [w EXCEPT !.link = w.link, !.window = "close_requested"]
  OBVIOUS
<1>4. v = [w EXCEPT !.window = "close_requested"]
  BY <1>2, <1>3 DEF Window
<1>5. Good(c, v)
  BY <1>2, <1>3, GoodLink DEF WindowStates
<1>6. Good(c, FinishClose(Reconcile(c, v)))
  BY <1>5, Context, GoodReconcile, GoodFinishClose
<1>7. /\ Show(c, FinishClose(Reconcile(c, v))) /\ Spend("closes")
      /\ UNCHANGED <<lease, next_epoch, draft, typed>> /\ disk' = disk
      /\ UNCHANGED <<news, next_epoch>> /\ UNCHANGED historyVars
  BY <1>1, <1>4 DEF RequestClose, hostVars, historyVars
<1>8. left' \in Budget /\ left'.news = left.news
  BY <1>7, Spent
<1>9. disk' \in Texts /\ disk' \subseteq 1 .. typed
  BY <1>7, Context DEF HostFits
<1>10. NewsFits' /\ HistoryFits'
  BY <1>7, <1>8, NewsSame, HistorySame
<1> QED
  BY <1>6, <1>7, <1>9, <1>10, WindowStep

\* The user overwrites, reloads or cancels.
LEMMA AnswerConflictKeeps ==
    ASSUME IInv, NEW c \in Clients, AnswerConflict(c)
    PROVE  IInv'
<1>1. PICK w : w = client[c]
  OBVIOUS
<1>2. Good(c, w) /\ w \in Window /\ w.value \subseteq 1 .. typed /\ w.value \in Texts
      /\ w.reloads \in Nat
  BY <1>1, Context, GoodParts, WindowParts
<1>3. PICK v :
         /\ Show(c, v)
         /\ \/ \E at \in SavePlaces : v = [w EXCEPT !.save.at = at]
            \/ v = [w EXCEPT !.save = NoSave]
  BY <1>1 DEF AnswerConflict, SavePlaces
<1>4. Good(c, v)
  <2>1. CASE \E at \in SavePlaces : v = [w EXCEPT !.save.at = at]
    BY <1>1, <2>1, SaveAt
  <2>2. CASE v = [w EXCEPT !.save = NoSave]
    <3>1. v = [w EXCEPT !.save = NoSave, !.reloads = w.reloads]
      BY <1>2, <2>2 DEF Window
    <3> QED
      BY <1>1, <1>2, <3>1, SaveEnds
  <2> QED
    BY <1>3, <2>1, <2>2
<1>5. /\ UNCHANGED <<lease, next_epoch, draft, typed>> /\ disk' = disk
      /\ UNCHANGED <<news, next_epoch>> /\ left' = left
      /\ UNCHANGED <<typed, continues, overwritten>>
      /\ \/ given_up' = given_up \cup (disk \ w.save.text)
         \/ given_up' = given_up \cup w.value
         \/ given_up' = given_up
  BY <1>1 DEF AnswerConflict, hostVars, historyVars
<1>6. disk \in Texts /\ disk \subseteq 1 .. typed
  BY Context DEF HostFits
<1>7. HistoryFits'
  BY <1>2, <1>5, <1>6, Context DEF HistoryFits, Texts
<1>8. NewsFits'
  BY <1>5, NewsSame
<1> QED
  BY <1>3, <1>4, <1>5, <1>6, <1>7, <1>8, WindowStep

-----------------------------------------------------------------------------
(* Steps that apply a result, or change the text.                          *)

\* apply_document_outcome: the answer, a draft that was fetched, and what to do next
LEMMA StepDoneKeeps ==
    ASSUME IInv, NEW c \in Clients, StepDone(c)
    PROVE  IInv'
<1>1. PICK w, s : w = client[c] /\ s = w.step
  OBVIOUS
<1>2. PICK r : r = [w EXCEPT !.step = NoStep, !.error = FALSE]
  OBVIOUS
<1>3. PICK a : a = IF s.kind = "show" THEN r ELSE Answered(c, r, s)
  OBVIOUS
<1>4. /\ s.at = "done"
      /\ Show(c, Reconcile(c, Fetched(a, s.fetched)))
      /\ continues' \in {continues, continues \cup {c}}
      /\ given_up' \in {given_up, given_up \cup (w.fingerprint \ s.fetched.text)}
      /\ UNCHANGED <<hostVars, news, typed, overwritten, left>>
  BY <1>1, <1>2, <1>3 DEF StepDone
<1>5. /\ Good(c, w) /\ next_epoch \in Nat \ {0} /\ w \in Window /\ s \in StepRecord
      /\ s.fetched \in Draft /\ s.fetched.text \subseteq 1 .. typed
      /\ w.fingerprint \in Texts /\ w.fingerprint \subseteq 1 .. typed
  BY <1>1, Context, GoodParts, WindowParts, StepParts DEF Extras
<1>6. /\ Good(c, r) /\ r.step = NoStep /\ Alike(r, w)
      /\ r.lease_epoch = w.lease_epoch /\ r.uploaded = w.uploaded
  <2>1. /\ r \in Window /\ r.step = NoStep /\ Alike(r, w)
        /\ r.lease_epoch = w.lease_epoch /\ r.uploaded = w.uploaded /\ r.host = w.host
    BY <1>2, <1>5, NoStepParts DEF Window, Alike
  <2> QED
    BY <1>5, <2>1, GoodResting
<1>7. StepFits(c, w)
  BY <1>5 DEF Good, WindowOK
<1>8. /\ Good(c, a) /\ a.step = NoStep
      /\ s.fetched.revision # 0 /\ a.lease_epoch # 0 /\ HoldsLeaseOf(c, a.lease_epoch)
             => draft.text = s.fetched.text
  <2>1. CASE s.kind = "show"
    BY <1>1, <1>3, <1>6, <1>7, <2>1 DEF StepFits
  <2>2. CASE s.kind # "show"
    <3>1. a = Answered(c, r, s)
      BY <1>3, <2>2
    <3>2. Good(c, a) /\ a.step = NoStep /\ (s.answer.holder = c => a.lease_epoch = s.answer.epoch)
      BY <1>1, <1>4, <1>5, <1>6, <2>2, <3>1, GoodAnswered
    <3>3. s.fetched.revision # 0 =>
             s.answer.holder = c /\ (HoldsLeaseOf(c, s.answer.epoch) => draft.text = s.fetched.text)
      BY <1>1, <1>4, <1>7, <2>2 DEF StepFits
    <3> QED
      BY <3>2, <3>3
  <2> QED
    BY <2>1, <2>2
<1>9. Good(c, Fetched(a, s.fetched))
  BY <1>5, <1>8, GoodFetched
<1>10. Good(c, Reconcile(c, Fetched(a, s.fetched)))
  BY <1>9, Context, GoodReconcile
<1>11. /\ UNCHANGED <<lease, next_epoch, draft, typed>> /\ disk' = disk
       /\ UNCHANGED <<news, next_epoch>> /\ left' = left
       /\ UNCHANGED <<typed, overwritten>>
  BY <1>4 DEF hostVars
<1>12. disk' \in Texts /\ disk' \subseteq 1 .. typed
  BY <1>11, Context DEF HostFits
<1>13. HistoryFits'
  BY <1>4, <1>5, <1>11, Context DEF HistoryFits, Texts
<1>14. NewsFits'
  BY <1>11, NewsSame
<1> QED
  BY <1>4, <1>10, <1>11, <1>12, <1>13, <1>14, WindowStep

\* The windows of a step that changes a text
LEMMA EditStep ==
    ASSUME IInv, NEW c \in Clients, NEW v, Show(c, v), Good(c, v)', UNCHANGED hostVars,
           typed' \in Nat, typed <= typed', NewsFits', HistoryFits'
    PROVE  IInv'
<1>1. HostFits'
  BY HostSame
<1>2. /\ next_epoch' \in Nat /\ next_epoch <= next_epoch'
      /\ \A k \in Clients \ {c} : \A e \in Nat :
            HoldsLeaseOf(k, e)' => HoldsLeaseOf(k, e) /\ draft'.text = draft.text
  BY Context DEF hostVars, HoldsLeaseOf
<1>3. WindowsFit'
  BY <1>2, OneWindow DEF Show
<1> QED
  BY <1>1, <1>3, PartsAfter

\* A typed edit is the newest, and is not in what was sent.
LEMMA TypeKeeps ==
    ASSUME IInv, NEW c \in Clients, Type(c)
    PROVE  IInv'
<1>1. PICK w, edit : w = client[c] /\ edit = typed + 1
  OBVIOUS
<1>2. PICK exposed \in {w.exposed, w.exposed \cup {edit}} :
         Show(c, [w EXCEPT !.value = @ \cup {edit}, !.generation = @ + 1, !.exposed = exposed])
  <2>1. w \in Window
    BY <1>1, Context, GoodParts
  <2>2. PICK e : e = [w EXCEPT !.value = @ \cup {edit}, !.generation = @ + 1]
    OBVIOUS
  <2>3. e.exposed = w.exposed
    BY <2>1, <2>2 DEF Window
  <2>4. e = [w EXCEPT !.value = @ \cup {edit}, !.generation = @ + 1, !.exposed = w.exposed]
    BY <2>1, <2>2 DEF Window
  <2>5. [e EXCEPT !.exposed = w.exposed \cup {edit}]
           = [w EXCEPT !.value = @ \cup {edit}, !.generation = @ + 1, !.exposed = w.exposed \cup {edit}]
    BY <2>1, <2>2 DEF Window
  <2>6. \/ Show(c, e)
        \/ Show(c, [e EXCEPT !.exposed = w.exposed \cup {edit}])
    BY <1>1, <2>2, <2>3 DEF Type
  <2> QED
    BY <2>4, <2>5, <2>6
<1>3. PICK v : v = [w EXCEPT !.value = @ \cup {edit}, !.generation = @ + 1, !.exposed = exposed]
  OBVIOUS
<1>4. /\ Good(c, w) /\ w \in Window /\ w.value \in Texts /\ w.exposed \in Texts
      /\ w.generation + 1 \in Nat /\ edit \in Nat /\ typed \in Nat
  BY <1>1, Context, GoodParts, WindowParts
<1>5. w.value \cup {edit} \in Texts /\ exposed \in Texts
  BY <1>4 DEF Texts
<1>6. /\ v \in Window /\ v.step = w.step
      /\ v.value = w.value \cup {edit} /\ v.saved = w.saved /\ v.fingerprint = w.fingerprint
      /\ v.copied = w.copied /\ v.exposed = exposed /\ v.save = w.save
      /\ v.generation = w.generation + 1 /\ v.lease_epoch = w.lease_epoch
      /\ v.uploaded = w.uploaded /\ v.host = w.host /\ v.opening = w.opening
  BY <1>3, <1>4, <1>5 DEF Window
<1>7. /\ typed' = edit /\ Spend("edits") /\ UNCHANGED hostVars
      /\ UNCHANGED <<news, next_epoch>> /\ UNCHANGED <<given_up, continues, overwritten>>
      /\ UNCHANGED <<lease, next_epoch, draft>>
  BY <1>1 DEF Type, hostVars
<1>8. 1 .. typed \subseteq 1 .. typed' /\ edit \in 1 .. typed'
  BY <1>1, <1>4, <1>7
<1>9. WindowTexts(v) \subseteq 1 .. typed'
  BY <1>4, <1>6, <1>8 DEF Good, WindowTexts
<1>10. v.host.epoch < next_epoch /\ v.opening.epoch < next_epoch
  BY <1>4, <1>6, GoodParts
<1>11. Good(c, v)'
  BY <1>4, <1>6, <1>7, <1>9, <1>10, GoodEdited
<1>12. left' \in Budget /\ left'.news = left.news
  BY <1>7, Spent
<1>13. HistoryFits'
  BY <1>4, <1>7, <1>8, <1>12, Context DEF HistoryFits, Texts
<1>14. NewsFits'
  BY <1>7, <1>12, NewsSame
<1> QED
  BY <1>1, <1>2, <1>3, <1>4, <1>7, <1>11, <1>13, <1>14, EditStep

\* Taking edits back is an edit, too.
LEMMA UndoKeeps ==
    ASSUME IInv, NEW c \in Clients, Undo(c)
    PROVE  IInv'
<1>1. PICK w : w = client[c]
  OBVIOUS
<1>2. PICK v : v = [w EXCEPT !.value = w.saved, !.generation = @ + 1]
  OBVIOUS
<1>3. /\ Good(c, w) /\ w \in Window /\ w.value \in Texts /\ w.saved \in Texts
      /\ w.value \subseteq 1 .. typed /\ w.generation + 1 \in Nat /\ typed \in Nat
  BY <1>1, Context, GoodParts, WindowParts
<1>4. /\ v \in Window /\ v.step = w.step
      /\ v.value = w.saved /\ v.saved = w.saved /\ v.fingerprint = w.fingerprint
      /\ v.copied = w.copied /\ v.exposed = w.exposed /\ v.save = w.save
      /\ v.generation = w.generation + 1 /\ v.lease_epoch = w.lease_epoch
      /\ v.uploaded = w.uploaded /\ v.host = w.host /\ v.opening = w.opening
  BY <1>2, <1>3 DEF Window
<1>5. /\ Show(c, v) /\ typed' = typed /\ Spend("undos") /\ UNCHANGED hostVars
      /\ UNCHANGED <<news, next_epoch>> /\ UNCHANGED <<continues, overwritten>>
      /\ UNCHANGED <<lease, next_epoch, draft>>
      /\ given_up' = given_up \cup (w.value \ w.saved)
  BY <1>1, <1>2 DEF Undo, hostVars
<1>6. WindowTexts(v) \subseteq 1 .. typed'
  BY <1>3, <1>4, <1>5 DEF Good, WindowTexts
<1>7. v.host.epoch < next_epoch /\ v.opening.epoch < next_epoch
  BY <1>3, <1>4, GoodParts
<1>8. Good(c, v)'
  BY <1>3, <1>4, <1>5, <1>6, <1>7, GoodEdited
<1>9. left' \in Budget /\ left'.news = left.news
  BY <1>5, Spent
<1>10. HistoryFits'
  BY <1>3, <1>5, <1>9, Context DEF HistoryFits, Texts
<1>11. NewsFits'
  BY <1>5, <1>9, NewsSame
<1>12. typed' \in Nat /\ typed <= typed'
  BY <1>3, <1>5
<1> QED
  BY <1>5, <1>8, <1>10, <1>11, <1>12, EditStep

\* A text that is replaced from the file is a new one.
LEMMA ReloadDoneKeeps ==
    ASSUME IInv, NEW c \in Clients, ReloadDone(c)
    PROVE  IInv'
<1>1. PICK o, w : /\ o = client[c]
                  /\ w = [o EXCEPT !.exposed = IF lease.holder = c THEN @ \cup o.value ELSE @]
  OBVIOUS
<1>2. Good(c, o) /\ o \in Window /\ o.exposed \in Texts /\ o.value \in Texts
      /\ o.value \subseteq 1 .. typed
  BY <1>1, Context, GoodParts, WindowParts
<1>3. /\ w \in Window /\ Untouched(w, o) /\ w.saved = o.saved /\ w.fingerprint = o.fingerprint
      /\ w.copied = o.copied /\ w.exposed \in {o.exposed, o.exposed \cup o.value} /\ w.save = o.save
      /\ w.host = o.host /\ w.opening = o.opening
  <2>1. PICK exposed \in {o.exposed, o.exposed \cup o.value} : w = [o EXCEPT !.exposed = exposed]
    BY <1>1
  <2>2. exposed \in Texts
    BY <1>2, <2>1 DEF Texts
  <2> QED
    BY <1>2, <2>1, <2>2 DEF Window, Untouched
<1>4. Extras(w) \subseteq 1 .. typed /\ w.host.epoch < next_epoch /\ w.opening.epoch < next_epoch
  BY <1>2, <1>3, GoodParts DEF Extras
<1>5. Good(c, w)
  BY <1>2, <1>3, <1>4, GoodBeside
<1>6. /\ disk \in Texts /\ disk \subseteq 1 .. typed /\ typed \in Nat
      /\ w.reloads \in Nat /\ w.save \in SaveRecord /\ NoSave \in SaveRecord /\ NoSave.text = {}
      /\ w.save.text \subseteq 1 .. typed
  <2>1. NoSave \in SaveRecord /\ NoSave.text = {}
    BY DEF NoSave, SaveRecord, SavePlaces, Texts
  <2> QED
    BY <1>3, <1>5, <2>1, Context, GoodParts, WindowParts DEF HostFits
<1>7. PICK save \in {NoSave, w.save}, reloads \in Nat, exposed \in SUBSET (1 .. typed) :
         Show(c, [w EXCEPT !.value = disk, !.saved = disk, !.fingerprint = disk,
                           !.external_dirty = FALSE, !.generation = @ + 1,
                           !.save = save, !.reloads = reloads, !.exposed = exposed])
  <2>1. PICK k \in {NoSave, w.save} :
           FromDisk(w) = Replaced([w EXCEPT !.value = disk, !.saved = disk, !.fingerprint = disk,
                                            !.external_dirty = FALSE, !.generation = @ + 1,
                                            !.save = k])
    BY DEF FromDisk
  <2>2. PICK x : x = [w EXCEPT !.value = disk, !.saved = disk, !.fingerprint = disk,
                               !.external_dirty = FALSE, !.generation = @ + 1, !.save = k]
    OBVIOUS
  <2>3. PICK f : f = FromDisk(w)
    OBVIOUS
  <2>4. x \in Window /\ x.exposed = w.exposed /\ x.save = k
    <3>1. k \in SaveRecord /\ w.generation + 1 \in Nat
      BY <1>3, <1>6, <2>1, WindowParts
    <3> QED
      BY <1>3, <1>6, <2>2, <3>1 DEF Window
  <2>5. PICK exposed : /\ exposed \in {x.exposed, x.exposed \cup (x.save.text \ x.value)}
                     /\ f = [x EXCEPT !.exposed = exposed]
    BY <2>1, <2>2, <2>3, <2>4, ReplacedExposed
  <2>6. exposed \in SUBSET (1 .. typed)
    BY <1>4, <1>6, <2>1, <2>4, <2>5 DEF Extras
  <2>7. f = [w EXCEPT !.value = disk, !.saved = disk, !.fingerprint = disk,
                      !.external_dirty = FALSE, !.generation = @ + 1, !.save = k,
                      !.exposed = exposed]
    BY <1>3, <2>2, <2>5 DEF Window
  <2>8. \/ w.reloads > 0 /\ Show(c, [f EXCEPT !.reloads = @ - 1])
        \/ Show(c, [f EXCEPT !.save = NoSave])
    <3>1. w.reloads = o.reloads /\ w.save = o.save
      BY <1>1, <1>2 DEF Window
    <3> QED
      BY <1>1, <2>3, <3>1 DEF ReloadDone
  <2>9. f.reloads = w.reloads
    BY <1>3, <2>7 DEF Window
  <2>10. CASE w.reloads > 0 /\ Show(c, [f EXCEPT !.reloads = @ - 1])
    <3>1. [f EXCEPT !.reloads = @ - 1]
             = [w EXCEPT !.value = disk, !.saved = disk, !.fingerprint = disk,
                         !.external_dirty = FALSE, !.generation = @ + 1, !.save = k,
                         !.reloads = w.reloads - 1, !.exposed = exposed]
      BY <1>3, <2>7, <2>9 DEF Window
    <3>2. w.reloads - 1 \in Nat
      BY <1>6, <2>10
    <3> QED
      BY <2>6, <2>10, <3>1, <3>2
  <2>11. CASE Show(c, [f EXCEPT !.save = NoSave])
    <3>1. [f EXCEPT !.save = NoSave]
             = [w EXCEPT !.value = disk, !.saved = disk, !.fingerprint = disk,
                         !.external_dirty = FALSE, !.generation = @ + 1, !.save = NoSave,
                         !.reloads = w.reloads, !.exposed = exposed]
      BY <1>3, <2>7 DEF Window
    <3> QED
      BY <1>6, <2>6, <2>11, <3>1
  <2> QED
    BY <2>8, <2>10, <2>11
<1>8. PICK v : v = [w EXCEPT !.value = disk, !.saved = disk, !.fingerprint = disk,
                             !.external_dirty = FALSE, !.generation = @ + 1,
                             !.save = save, !.reloads = reloads, !.exposed = exposed]
  OBVIOUS
<1>9. /\ v \in Window /\ v.step = w.step
      /\ v.value = disk /\ v.saved = disk /\ v.fingerprint = disk
      /\ v.copied = w.copied /\ v.exposed = exposed /\ v.save = save
      /\ v.generation = w.generation + 1 /\ v.lease_epoch = w.lease_epoch
      /\ v.uploaded = w.uploaded /\ v.host = w.host /\ v.opening = w.opening
  <2>1. save \in SaveRecord /\ w.generation + 1 \in Nat /\ exposed \in Texts
    BY <1>3, <1>6, <1>7, WindowParts DEF Texts
  <2> QED
    BY <1>3, <1>6, <1>8, <2>1 DEF Window
<1>10. /\ UNCHANGED hostVars /\ typed' = typed /\ left' = left
       /\ UNCHANGED <<news, next_epoch>> /\ UNCHANGED <<given_up, overwritten>>
       /\ UNCHANGED <<lease, next_epoch, draft>> /\ continues' = continues \ {c}
  BY DEF ReloadDone, hostVars
<1>11. WindowTexts(v) \subseteq 1 .. typed'
  BY <1>5, <1>6, <1>7, <1>9, <1>10 DEF Good, WindowTexts
<1>12. Good(c, v)'
  BY <1>4, <1>5, <1>9, <1>10, <1>11, GoodEdited
<1>13. HistoryFits'
  BY <1>10, Context DEF HistoryFits
<1>14. NewsFits'
  BY <1>10, NewsSame
<1>15. typed' \in Nat /\ typed <= typed'
  BY <1>6, <1>10
<1> QED
  BY <1>7, <1>8, <1>10, <1>12, <1>13, <1>14, <1>15, EditStep

\* A step of a connection that is lost
LEMMA GoodLost ==
    ASSUME NEW c \in Clients, NEW w, Good(c, w), w.step.at # "none",
           NEW s \in StepRecord, s.at = "failed",
           s.kind = w.step.kind, s.epoch = w.step.epoch, s.generation = w.step.generation,
           s.text = w.step.text, s.answer = w.step.answer, s.fetched = w.step.fetched,
           s.uploaded = w.step.uploaded,
           NEW v, v = [w EXCEPT !.step = s]
    PROVE  Good(c, v)
<1>1. w \in Window
  BY GoodParts
<1>2. /\ v \in Window /\ v.step = s
      /\ v.value = w.value /\ v.saved = w.saved /\ v.fingerprint = w.fingerprint
      /\ v.copied = w.copied /\ v.exposed = w.exposed /\ v.save = w.save
      /\ v.generation = w.generation /\ v.lease_epoch = w.lease_epoch
      /\ v.uploaded = w.uploaded /\ v.host = w.host /\ v.opening = w.opening
  BY <1>1, WithStep
<1>3. WindowTexts(v) \subseteq 1 .. typed
  BY <1>2 DEF Good, WindowTexts
<1>4. \A e \in WindowEpochs(v) : e < next_epoch
  BY <1>2 DEF Good, WindowEpochs
<1>5. StepFits(c, w) /\ UploadFits(c, w)
  BY DEF Good, WindowOK
<1>6. UploadFits(c, v)
  BY <1>2, <1>5 DEF UploadFits
<1>7. StepFits(c, v)
  BY <1>2, <1>5 DEF StepFits
<1> QED
  BY <1>2, <1>3, <1>4, <1>6, <1>7 DEF Good, WindowOK

\* A lost connection fails the step and the save request, or finds them done.
LEMMA DropKeeps ==
    ASSUME IInv, NEW c \in Clients, Drop(c)
    PROVE  IInv'
<1>1. PICK w : w = client[c]
  OBVIOUS
<1>2. /\ Good(c, w) /\ w \in Window /\ w.reloads \in Nat /\ w.save \in SaveRecord
      /\ w.step \in StepRecord /\ w.save.text \subseteq 1 .. typed
  BY <1>1, Context, GoodParts, WindowParts
<1>3. PICK at \in {w.step.at, "failed"}, place \in {w.save.at, "failed", "asking"}, reloads \in Nat :
         /\ w.step.at = "none" => at = "none"
         /\ Show(c, [w EXCEPT !.link = "down", !.opening = Unknown, !.step.at = at,
                              !.save.at = place, !.reloads = reloads])
  <2>1. PICK lost \in BOOLEAN :
           Show(c, [w EXCEPT
                 !.link = "down", !.opening = Unknown,
                 !.step.at = IF @ = "none" \/ (@ = "done" /\ ~lost) THEN @ ELSE "failed",
                 !.save.at = IF @ \in {"check", "force"} \/ (@ \in {"saved", "conflict"} /\ lost)
                             THEN "failed"
                             ELSE IF @ = "reloading" /\ lost THEN "asking" ELSE @,
                 !.reloads = IF lost THEN 0 ELSE @])
    BY <1>1 DEF Drop
  <2> DEFINE at == IF w.step.at = "none" \/ (w.step.at = "done" /\ ~lost) THEN w.step.at ELSE "failed"
             place == IF w.save.at \in {"check", "force"} \/ (w.save.at \in {"saved", "conflict"} /\ lost)
                      THEN "failed"
                      ELSE IF w.save.at = "reloading" /\ lost THEN "asking" ELSE w.save.at
             reloads == IF lost THEN 0 ELSE w.reloads
  <2>2. at \in {w.step.at, "failed"} /\ place \in {w.save.at, "failed", "asking"}
    OBVIOUS
  <2>3. reloads \in Nat
    BY <1>2
  <2>4. w.step.at = "none" => at = "none"
    OBVIOUS
  <2>5. Show(c, [w EXCEPT !.link = "down", !.opening = Unknown, !.step.at = at,
                          !.save.at = place, !.reloads = reloads])
    BY <2>1
  <2> HIDE DEF at, place, reloads
  <2> QED
    BY <2>2, <2>3, <2>4, <2>5
<1>4. PICK s, u : s = [w.step EXCEPT !.at = at] /\ u = [w EXCEPT !.step = s]
  OBVIOUS
<1>5. Good(c, u)
  <2>1. CASE at = w.step.at
    <3>1. s = w.step
      BY <1>2, <1>4, <2>1 DEF StepRecord
    <3>2. u = w
      BY <1>2, <1>4, <3>1 DEF Window
    <3> QED
      BY <1>2, <3>2
  <2>2. CASE at = "failed" /\ w.step.at # "none"
    <3>1. /\ s \in StepRecord /\ s.at = "failed"
          /\ s.kind = w.step.kind /\ s.epoch = w.step.epoch /\ s.generation = w.step.generation
          /\ s.text = w.step.text /\ s.answer = w.step.answer /\ s.fetched = w.step.fetched
          /\ s.uploaded = w.step.uploaded
      BY <1>2, <1>4, <2>2 DEF StepRecord, StepPlaces
    <3> QED
      BY <1>2, <1>4, <2>2, <3>1, GoodLost
  <2> QED
    BY <1>3, <2>1, <2>2
<1>6. PICK save : save = [w.save EXCEPT !.at = place]
  OBVIOUS
<1>7. save \in SaveRecord /\ save.text = w.save.text
  <2>1. place \in SavePlaces
    BY <1>2, <1>3 DEF SaveRecord, SavePlaces
  <2> QED
    BY <1>2, <1>6, <2>1 DEF SaveRecord
<1>8. u \in Window /\ u.save = w.save /\ Unknown \in HostState /\ Unknown.epoch < next_epoch
  <2>1. u \in Window
    BY <1>5, GoodParts
  <2>2. u.save = w.save
    BY <1>2, <1>4 DEF Window
  <2>3. Unknown \in HostState /\ Unknown.epoch = 0 /\ 0 < next_epoch
    BY Context, States
  <2> QED
    BY <2>1, <2>2, <2>3
<1>9. PICK v : v = [u EXCEPT !.link = "down", !.opening = Unknown, !.save = save,
                             !.reloads = reloads]
  OBVIOUS
<1>10. v = [w EXCEPT !.link = "down", !.opening = Unknown, !.step.at = at,
                     !.save.at = place, !.reloads = reloads]
  BY <1>2, <1>4, <1>6, <1>9 DEF Window, StepRecord, SaveRecord
<1>11. /\ v \in Window /\ Untouched(v, u) /\ v.saved = u.saved /\ v.fingerprint = u.fingerprint
       /\ v.copied = u.copied /\ v.exposed = u.exposed /\ v.save = save
       /\ v.host = u.host /\ v.opening = Unknown
  BY <1>3, <1>7, <1>8, <1>9 DEF Window, Untouched, Links
<1>12. /\ Extras(v) \subseteq 1 .. typed /\ v.host.epoch < next_epoch
       /\ v.opening.epoch < next_epoch
  BY <1>2, <1>5, <1>7, <1>8, <1>11, GoodParts DEF Extras
<1>13. Good(c, v)
  BY <1>5, <1>11, <1>12, GoodBeside
<1>14. /\ Show(c, v) /\ Spend("drops")
       /\ UNCHANGED <<lease, next_epoch, draft, typed>> /\ disk' = disk
       /\ UNCHANGED next_epoch /\ UNCHANGED historyVars /\ news' = [news EXCEPT ![c] = <<>>]
  BY <1>3, <1>10 DEF Drop, hostVars, historyVars
<1>15. left' \in Budget /\ left'.news = left.news
  BY <1>14, Spent
<1>16. disk' \in Texts /\ disk' \subseteq 1 .. typed
  BY <1>14, Context DEF HostFits
<1>17. NewsFit(<<>>)
  <2>1. left.news \in Nat
    BY Context DEF HistoryFits, Budget
  <2> QED
    BY <2>1 DEF NewsFit
<1>18. NewsFits' /\ HistoryFits'
  BY <1>14, <1>15, <1>17, NewsTaken, HistorySame
<1> QED
  BY <1>13, <1>14, <1>16, <1>18, WindowStep

\* A closed window keeps only its Device copies.
LEMMA CloseWindowKeeps ==
    ASSUME IInv, NEW c \in Clients, CloseWindow(c)
    PROVE  IInv'
<1>1. PICK w : w = client[c]
  OBVIOUS
<1>2. /\ Good(c, w) /\ w \in Window /\ w.link \in Links /\ Extras(w) \subseteq 1 .. typed
      /\ w.copied \in Texts /\ w.exposed \in Texts
  BY <1>1, Context, GoodParts, WindowParts
<1>3. /\ UNCHANGED <<lease, next_epoch, draft, typed>> /\ disk' = disk
      /\ UNCHANGED next_epoch /\ left' = left /\ UNCHANGED <<given_up, overwritten>>
      /\ continues' \in {continues, continues \ {c}}
      /\ \/ news' = [news EXCEPT ![c] = <<>>]
         \/ UNCHANGED <<news, next_epoch>>
  BY DEF CloseWindow, hostVars
<1>4. disk' \in Texts /\ disk' \subseteq 1 .. typed
  BY <1>3, Context DEF HostFits
<1>5. HistoryFits'
  BY <1>3, Context DEF HistoryFits
<1>6. NewsFits'
  <2>1. NewsFit(<<>>)
    <3>1. left.news \in Nat
      BY Context DEF HistoryFits, Budget
    <3> QED
      BY <3>1 DEF NewsFit
  <2> QED
    BY <1>3, <2>1, NewsTaken, NewsSame
<1>7. CASE Connected(w)
  <2>1. PICK v : v = [Opened EXCEPT !.window = "closed", !.link = "down",
                                    !.copied = w.copied, !.exposed = w.exposed]
    OBVIOUS
  <2>2. /\ NoSave \in SaveRecord /\ NoSave.text = {}
        /\ Unknown \in HostState /\ Unknown.epoch = 0 /\ 0 < next_epoch
    BY Context, States DEF NoSave, SaveRecord, SavePlaces, Texts
  <2>3. /\ v \in Window /\ v.step = NoStep
        /\ v.value = {} /\ v.saved = {} /\ v.fingerprint = {}
        /\ v.copied = w.copied /\ v.exposed = w.exposed /\ v.save = NoSave
        /\ v.generation = 0 /\ v.lease_epoch = 0
        /\ v.uploaded = 0 /\ v.host = Unknown /\ v.opening = Unknown
    BY <1>2, <2>1, <2>2, NoStepParts DEF Opened, Window, Texts, Links, WindowStates
  <2>4. WindowTexts(v) \subseteq 1 .. typed
    BY <1>2, <2>2, <2>3, NoStepParts DEF WindowTexts, Extras
  <2>5. \A e \in WindowEpochs(v) : e < next_epoch
    BY <2>2, <2>3, NoStepParts DEF WindowEpochs
  <2>6. UploadFits(c, v)
    BY <2>3 DEF UploadFits
  <2>7. Good(c, v)
    BY <2>3, <2>4, <2>5, <2>6, GoodNoStep
  <2>8. Show(c, v)
    BY <1>1, <1>7, <2>1 DEF CloseWindow
  <2> QED
    BY <1>3, <1>4, <1>5, <1>6, <2>7, <2>8, WindowStep
<1>8. CASE ~Connected(w)
  <2>1. PICK v : v = [w EXCEPT !.link = w.link, !.window = "open"]
    OBVIOUS
  <2>2. Good(c, v)
    BY <1>2, <2>1, GoodLink DEF WindowStates
  <2>3. v = [w EXCEPT !.window = "open"]
    BY <1>2, <2>1 DEF Window
  <2>4. Show(c, v)
    BY <1>1, <1>8, <2>3 DEF CloseWindow
  <2> QED
    BY <1>3, <1>4, <1>5, <1>6, <2>2, <2>4, WindowStep
<1> QED
  BY <1>7, <1>8

-----------------------------------------------------------------------------
(* The Host's steps.                                                       *)

\* A lease is granted under an epoch no window knows yet: whoever had one is told the truth.
LEMMA AcquireKeeps ==
    ASSUME IInv, NEW c \in Clients, AcquireDocument(c)
    PROVE  IInv'
<1>1. PICK w, s, answer : w = client[c] /\ s = w.step /\ answer = State(lease', draft)
  OBVIOUS
<1>2. PICK at \in {"get", "done"} :
         /\ s.at = "acquire"
         /\ at = "get" => lease'.holder = c
         /\ Show(c, [w EXCEPT !.step.at = at, !.step.answer = answer])
         /\ UNCHANGED <<draft, disk, historyVars, left>>
         /\ \/ UNCHANGED <<lease, next_epoch, news>>
            \/ /\ lease' = [holder |-> c, epoch |-> next_epoch] /\ next_epoch' = next_epoch + 1
               /\ Notify(answer)
  BY <1>1 DEF AcquireDocument, Answer
<1>3. /\ HostFits /\ HistoryFits /\ next_epoch \in Nat \ {0} /\ typed \in Nat /\ c # Nobody
      /\ lease \in Lease /\ draft \in Draft /\ lease.epoch < next_epoch
      /\ Good(c, w) /\ w \in Window /\ s \in StepRecord
      /\ s.epoch < next_epoch /\ s.text \subseteq 1 .. typed /\ s.fetched.text \subseteq 1 .. typed
      /\ s.epoch \in Nat
  BY <1>1, Context, EditingAssumption, GoodParts, WindowParts, StepParts DEF HostFits
<1>4. /\ lease' \in Lease /\ next_epoch' \in Nat \ {0} /\ next_epoch <= next_epoch'
      /\ lease'.epoch < next_epoch'
      /\ lease'.holder # Nobody => lease'.epoch # 0
      /\ typed' = typed /\ UNCHANGED historyVars /\ left' = left
      /\ \A k \in Clients : \A e \in Nat : e < next_epoch /\ HoldsLeaseOf(k, e)' => HoldsLeaseOf(k, e)
  <2>1. CASE UNCHANGED <<lease, next_epoch, news>>
    BY <1>2, <1>3, <2>1 DEF HostFits, HoldsLeaseOf, historyVars
  <2>2. CASE lease' = [holder |-> c, epoch |-> next_epoch] /\ next_epoch' = next_epoch + 1
    BY <1>2, <1>3, <2>2 DEF Lease, HoldsLeaseOf, historyVars
  <2> QED
    BY <1>2, <2>1, <2>2
<1>5. answer \in HostState /\ answer.epoch = lease'.epoch /\ answer.holder = lease'.holder
  BY <1>1, <1>3, <1>4 DEF State, HostState, Lease, Draft
<1>6. HostFits'
  BY <1>2, <1>3, <1>4 DEF HostFits
<1>7. HistoryFits'
  BY <1>3, <1>4, HistorySame DEF HistoryFits
<1>8. NewsFits'
  BY <1>2, <1>4, <1>5, NewsSame, Notified
<1>9. PICK n : n = [s EXCEPT !.at = at, !.answer = answer]
  OBVIOUS
<1>10. /\ n \in StepRecord /\ n.at = at /\ n.kind = s.kind /\ n.epoch = s.epoch
       /\ n.generation = s.generation /\ n.text = s.text /\ n.answer = answer
       /\ n.fetched = s.fetched /\ n.uploaded = s.uploaded
  BY <1>2, <1>3, <1>5, <1>9 DEF StepRecord, StepPlaces
<1>11. PICK v : v = [w EXCEPT !.step = n]
  OBVIOUS
<1>12. Show(c, v)
  <2>1. [w EXCEPT !.step.at = at, !.step.answer = answer] = [w EXCEPT !.step = n]
    BY <1>1, <1>3, <1>9 DEF Window, StepRecord
  <2> QED
    BY <1>2, <1>11, <2>1
<1>13. /\ v.step = n /\ v.value = w.value /\ v.generation = w.generation
       /\ v.lease_epoch = w.lease_epoch /\ v.uploaded = w.uploaded
       /\ StepFits(c, w) /\ UploadFits(c, w) /\ w.lease_epoch \in Nat /\ w.lease_epoch < next_epoch
  BY <1>3, <1>10, <1>11, WithStep, GoodParts, WindowParts DEF Good, WindowOK
<1>14. StepFits(c, v)'
  BY <1>1, <1>2, <1>5, <1>10, <1>13 DEF StepFits
<1>15. UploadFits(c, v)'
  BY <1>2, <1>4, <1>13 DEF UploadFits
<1>16. Good(c, v)'
  BY <1>3, <1>4, <1>5, <1>10, <1>11, <1>14, <1>15, GoodStepped
<1>17. WindowsFit'
  <2>1. /\ client' = [client EXCEPT ![c] = v]
        /\ typed' \in Nat /\ typed <= typed' /\ next_epoch' \in Nat /\ next_epoch <= next_epoch'
    BY <1>3, <1>4, <1>12 DEF Show
  <2>2. \A k \in Clients \ {c} : \A e \in Nat :
            e < next_epoch /\ HoldsLeaseOf(k, e)' => HoldsLeaseOf(k, e) /\ draft'.text = draft.text
    BY <1>2, <1>4
  <2> QED
    BY <1>16, <2>1, <2>2, OneWindow
<1> QED
  BY <1>6, <1>7, <1>8, <1>17, PartsAfter

\* A draft is stored only for the holder, so that no other window counts on the old one; what
\* the window counts is older than its text while it uploads.
LEMMA PutKeeps ==
    ASSUME IInv, NEW c \in Clients, PutDocumentDraft(c)
    PROVE  IInv'
<1>1. PICK w, s : w = client[c] /\ s = w.step
  OBVIOUS
<1>2. /\ HostFits /\ HistoryFits /\ next_epoch \in Nat \ {0} /\ typed \in Nat /\ c # Nobody
      /\ lease \in Lease /\ draft \in Draft /\ lease.epoch < next_epoch
      /\ draft.text \subseteq 1 .. typed
      /\ Good(c, w) /\ w \in Window /\ s \in StepRecord
      /\ s.epoch < next_epoch /\ s.text \subseteq 1 .. typed /\ s.fetched.text \subseteq 1 .. typed
      /\ s.answer.epoch < next_epoch
      /\ StepFits(c, w) /\ UploadFits(c, w)
      /\ w.generation \in Nat /\ w.uploaded \in Nat
  BY <1>1, Context, EditingAssumption, GoodParts, WindowParts DEF HostFits, Good, WindowOK
<1>3. /\ s.at = "put" /\ s.kind = "upload" /\ s.uploaded = 0 /\ s.fetched.revision = 0
      /\ w.uploaded < w.generation
      /\ UNCHANGED <<lease, next_epoch, disk, typed, given_up, left>>
  BY <1>1, <1>2 DEF PutDocumentDraft, StepFits
<1>4. CASE HoldsLease(c)
  <2>1. PICK d, answer : /\ d = [revision |-> s.generation, text |-> s.text]
                         /\ answer = State(lease, d)
    OBVIOUS
  <2>2. d \in Draft /\ d.text = s.text
    BY <1>2, <2>1, StepParts DEF Draft
  <2>3. /\ answer \in HostState /\ answer.epoch = lease.epoch /\ answer.holder = lease.holder
    BY <1>2, <2>1, <2>2 DEF State, HostState, Lease, Draft
  <2>4. lease.holder = c /\ lease.epoch = s.epoch
    BY <1>1, <1>4 DEF HoldsLease, HoldsLeaseOf
  <2>5. /\ draft' = d
        /\ Show(c, [w EXCEPT !.step.at = "done", !.step.uploaded = s.generation,
                             !.step.answer = answer])
        /\ Notify(answer)
        /\ overwritten' = overwritten \cup Overwritten(c, s.text)
        /\ continues' = {c}
    BY <1>1, <1>4, <2>1 DEF PutDocumentDraft
  <2>6. HostFits'
    BY <1>2, <1>3, <2>2, <2>5 DEF HostFits
  <2>7. Overwritten(c, s.text) \subseteq draft.text /\ draft.text \in Texts
    BY <1>2 DEF Overwritten, Draft
  <2>8. HistoryFits'
    BY <1>2, <1>3, <2>5, <2>7 DEF HistoryFits, Texts
  <2>9. NewsFits'
    BY <1>2, <1>3, <2>3, <2>5, Notified
  <2>10. PICK n : n = [s EXCEPT !.at = "done", !.uploaded = s.generation, !.answer = answer]
    OBVIOUS
  <2>11. /\ n \in StepRecord /\ n.at = "done" /\ n.kind = s.kind /\ n.epoch = s.epoch
         /\ n.generation = s.generation /\ n.text = s.text /\ n.answer = answer
         /\ n.fetched = s.fetched /\ n.uploaded = s.generation
    BY <1>2, <2>3, <2>10 DEF StepRecord, StepPlaces
  <2>12. PICK v : v = [w EXCEPT !.step = n]
    OBVIOUS
  <2>13. Show(c, v)
    <3>1. [w EXCEPT !.step.at = "done", !.step.uploaded = s.generation, !.step.answer = answer]
             = [w EXCEPT !.step = n]
      BY <1>1, <1>2, <2>10 DEF Window, StepRecord
    <3> QED
      BY <2>5, <2>12, <3>1
  <2>14. /\ v.step = n /\ v.value = w.value /\ v.generation = w.generation
         /\ v.lease_epoch = w.lease_epoch /\ v.uploaded = w.uploaded
    BY <1>2, <2>11, <2>12, WithStep
  <2>15. StepFits(c, v)'
    BY <1>1, <1>2, <1>3, <2>2, <2>3, <2>4, <2>5, <2>11, <2>14 DEF StepFits
  <2>16. UploadFits(c, v)'
    BY <1>2, <1>3, <2>14 DEF UploadFits
  <2>17. Good(c, v)'
    BY <1>2, <1>3, <2>3, <2>11, <2>12, <2>15, <2>16, GoodStepped
  <2>18. \A k \in Clients \ {c} : \A e \in Nat : ~HoldsLeaseOf(k, e)'
    BY <1>3, <2>4 DEF HoldsLeaseOf
  <2>19. WindowsFit'
    <3>1. /\ client' = [client EXCEPT ![c] = v]
          /\ typed' \in Nat /\ typed <= typed' /\ next_epoch' \in Nat /\ next_epoch <= next_epoch'
      BY <1>2, <1>3, <2>13 DEF Show
    <3>2. \A k \in Clients \ {c} : \A e \in Nat :
              e < next_epoch /\ HoldsLeaseOf(k, e)' => HoldsLeaseOf(k, e) /\ draft'.text = draft.text
      BY <2>18
    <3> QED
      BY <2>17, <3>1, <3>2, OneWindow
  <2> QED
    BY <2>6, <2>8, <2>9, <2>19, PartsAfter
<1>5. CASE ~HoldsLease(c)
  <2>1. /\ Show(c, [w EXCEPT !.step.at = "acquire"])
        /\ UNCHANGED <<draft, news, overwritten, continues>>
    BY <1>1, <1>5 DEF PutDocumentDraft
  <2>2. PICK n : n = [s EXCEPT !.at = "acquire"]
    OBVIOUS
  <2>3. /\ n \in StepRecord /\ n.at = "acquire" /\ n.kind = s.kind /\ n.epoch = s.epoch
        /\ n.generation = s.generation /\ n.text = s.text /\ n.answer = s.answer
        /\ n.fetched = s.fetched /\ n.uploaded = s.uploaded
    BY <1>2, <2>2 DEF StepRecord, StepPlaces
  <2>4. PICK v : v = [w EXCEPT !.step = n]
    OBVIOUS
  <2>5. Show(c, v)
    <3>1. [w EXCEPT !.step.at = "acquire"] = [w EXCEPT !.step = n]
      BY <1>1, <1>2, <2>2 DEF Window, StepRecord
    <3> QED
      BY <2>1, <2>4, <3>1
  <2>6. /\ v.step = n /\ v.value = w.value /\ v.generation = w.generation
        /\ v.lease_epoch = w.lease_epoch /\ v.uploaded = w.uploaded
    BY <1>2, <2>3, <2>4, WithStep
  <2>7. StepFits(c, v)'
    BY <1>1, <1>2, <1>3, <2>3, <2>6 DEF StepFits
  <2>8. UploadFits(c, v)'
    BY <1>2, <1>3, <2>6 DEF UploadFits
  <2>9. Good(c, v)'
    BY <1>2, <1>3, <2>3, <2>4, <2>7, <2>8, GoodStepped
  <2>10. \A k \in Clients \ {c} : \A e \in Nat :
            HoldsLeaseOf(k, e)' => HoldsLeaseOf(k, e) /\ draft'.text = draft.text
    BY <1>3, <2>1 DEF HoldsLeaseOf
  <2>11. WindowsFit'
    <3>1. /\ client' = [client EXCEPT ![c] = v]
          /\ typed' \in Nat /\ typed <= typed' /\ next_epoch' \in Nat /\ next_epoch <= next_epoch'
      BY <1>2, <1>3, <2>5 DEF Show
    <3> QED
      BY <2>9, <2>10, <3>1, OneWindow
  <2>12. HostFits' /\ HistoryFits'
    BY <1>2, <1>3, <2>1 DEF HostFits, HistoryFits
  <2>13. NewsFits'
    BY <1>3, <2>1, NewsSame
  <2> QED
    BY <2>11, <2>12, <2>13, PartsAfter
<1> QED
  BY <1>4, <1>5

\* Without a lease nobody counts on the draft.
LEMMA ReleaseKeeps ==
    ASSUME IInv, NEW c \in Clients, ReleaseDocument(c)
    PROVE  IInv'
<1>1. PICK w, s, answer : w = client[c] /\ s = w.step /\ answer = State(lease', draft')
  OBVIOUS
<1>2. /\ HostFits /\ HistoryFits /\ next_epoch \in Nat \ {0} /\ typed \in Nat /\ c # Nobody
      /\ lease \in Lease /\ draft \in Draft /\ lease.epoch < next_epoch
      /\ draft.text \subseteq 1 .. typed /\ draft.text \in Texts
      /\ Good(c, w) /\ w \in Window /\ s \in StepRecord
      /\ s.epoch < next_epoch /\ s.text \subseteq 1 .. typed /\ s.fetched.text \subseteq 1 .. typed
      /\ StepFits(c, w) /\ UploadFits(c, w)
  BY <1>1, Context, EditingAssumption, GoodParts, WindowParts DEF HostFits, Good, WindowOK, Draft
<1>3. /\ s.at = "release" /\ s.uploaded = 0 /\ s.fetched.revision = 0
      /\ Show(c, [w EXCEPT !.step.at = "done", !.step.answer = answer])
      /\ UNCHANGED <<next_epoch, disk, typed, given_up, left>>
      /\ \/ /\ lease' = NoLease /\ draft' = NoDraft /\ Notify(Unknown)
            /\ overwritten' = overwritten \cup Overwritten(c, {})
            /\ continues' = {}
         \/ UNCHANGED <<lease, draft, news, continues, overwritten>>
  BY <1>1, <1>2 DEF ReleaseDocument, StepFits, Answer
<1>4. /\ NoLease \in Lease /\ NoLease.holder = Nobody /\ NoLease.epoch = 0
      /\ NoDraft \in Draft /\ NoDraft.text = {}
      /\ Unknown \in HostState /\ Unknown.epoch < next_epoch
  BY <1>2, States DEF NoLease, Lease, NoDraft, Draft, Texts
<1>5. /\ HostFits' /\ lease' \in Lease /\ draft' \in Draft /\ lease'.epoch < next_epoch
      /\ \A k \in Clients : \A e \in Nat :
            HoldsLeaseOf(k, e)' => HoldsLeaseOf(k, e) /\ draft'.text = draft.text
  <2>1. CASE lease' = NoLease /\ draft' = NoDraft
    BY <1>2, <1>3, <1>4, <2>1, EditingAssumption DEF HostFits, HoldsLeaseOf
  <2>2. CASE UNCHANGED <<lease, draft>>
    BY <1>2, <1>3, <2>2 DEF HostFits, HoldsLeaseOf
  <2> QED
    BY <1>3, <2>1, <2>2
<1>6. answer \in HostState /\ answer.epoch < next_epoch
  BY <1>1, <1>5 DEF State, HostState, Lease, Draft
<1>7. HistoryFits'
  <2>1. Overwritten(c, {}) \subseteq draft.text
    BY DEF Overwritten
  <2> QED
    BY <1>2, <1>3, <2>1 DEF HistoryFits, Texts
<1>8. NewsFits'
  BY <1>2, <1>3, <1>4, Notified, NewsSame
<1>9. PICK n : n = [s EXCEPT !.at = "done", !.answer = answer]
  OBVIOUS
<1>10. /\ n \in StepRecord /\ n.at = "done" /\ n.kind = s.kind /\ n.epoch = s.epoch
       /\ n.generation = s.generation /\ n.text = s.text /\ n.answer = answer
       /\ n.fetched = s.fetched /\ n.uploaded = s.uploaded
  BY <1>2, <1>6, <1>9 DEF StepRecord, StepPlaces
<1>11. PICK v : v = [w EXCEPT !.step = n]
  OBVIOUS
<1>12. Show(c, v)
  <2>1. [w EXCEPT !.step.at = "done", !.step.answer = answer] = [w EXCEPT !.step = n]
    BY <1>1, <1>2, <1>9 DEF Window, StepRecord
  <2> QED
    BY <1>3, <1>11, <2>1
<1>13. /\ v.step = n /\ v.value = w.value /\ v.generation = w.generation
       /\ v.lease_epoch = w.lease_epoch /\ v.uploaded = w.uploaded /\ w.lease_epoch \in Nat
  BY <1>2, <1>10, <1>11, WithStep, WindowParts
<1>14. StepFits(c, v)'
  BY <1>1, <1>2, <1>3, <1>10, <1>13 DEF StepFits
<1>15. UploadFits(c, v)'
  BY <1>2, <1>5, <1>13 DEF UploadFits
<1>16. Good(c, v)'
  BY <1>2, <1>3, <1>6, <1>10, <1>11, <1>14, <1>15, GoodStepped
<1>17. WindowsFit'
  <2>1. client' = [client EXCEPT ![c] = v]
    BY <1>12 DEF Show
  <2>2. UNCHANGED <<typed, next_epoch>>
    BY <1>3
  <2>3. typed' \in Nat /\ typed <= typed' /\ next_epoch' \in Nat /\ next_epoch <= next_epoch'
    BY <1>2, <2>2
  <2>4. \A k \in Clients \ {c} : \A e \in Nat :
            e < next_epoch /\ HoldsLeaseOf(k, e)' => HoldsLeaseOf(k, e) /\ draft'.text = draft.text
    BY <1>5
  <2> QED
    BY <1>16, <2>1, <2>3, <2>4, OneWindow
<1> QED
  BY <1>5, <1>7, <1>8, <1>17, PartsAfter

\* The draft that is fetched is the one that is stored.
LEMMA GetKeeps ==
    ASSUME IInv, NEW c \in Clients, GetDocumentDraft(c)
    PROVE  IInv'
<1>1. PICK w, s : w = client[c] /\ s = w.step
  OBVIOUS
<1>2. /\ HostFits /\ next_epoch \in Nat \ {0} /\ typed \in Nat
      /\ draft \in Draft /\ draft.text \subseteq 1 .. typed
      /\ Good(c, w) /\ w \in Window /\ s \in StepRecord
      /\ s.epoch < next_epoch /\ s.text \subseteq 1 .. typed /\ s.fetched.text \subseteq 1 .. typed
      /\ s.answer.epoch < next_epoch
      /\ StepFits(c, w) /\ UploadFits(c, w)
  BY <1>1, Context, GoodParts, WindowParts DEF HostFits, Good, WindowOK
<1>3. /\ s.at = "get" /\ s.uploaded = 0
      /\ UNCHANGED <<hostVars, news, historyVars, left>>
  BY <1>1, <1>2 DEF GetDocumentDraft, StepFits
<1>4. PICK at \in {"done", "failed"}, d \in {draft, s.fetched} :
         /\ at = "done" => d = draft
         /\ Show(c, [w EXCEPT !.step = [s EXCEPT !.at = at, !.fetched = d]])
  <2>1. CASE draft = NoDraft
    <3>1. Show(c, [w EXCEPT !.step.at = "failed"])
      BY <1>1, <2>1 DEF GetDocumentDraft
    <3>2. [s EXCEPT !.at = "failed"] = [s EXCEPT !.at = "failed", !.fetched = s.fetched]
      BY <1>2 DEF StepRecord
    <3>3. [w EXCEPT !.step.at = "failed"]
             = [w EXCEPT !.step = [s EXCEPT !.at = "failed", !.fetched = s.fetched]]
      BY <1>1, <1>2, <3>2 DEF Window, StepRecord
    <3> QED
      BY <3>1, <3>3
  <2>2. CASE draft # NoDraft
    <3>1. Show(c, [w EXCEPT !.step.at = "done", !.step.fetched = draft])
      BY <1>1, <2>2 DEF GetDocumentDraft
    <3>2. [w EXCEPT !.step.at = "done", !.step.fetched = draft]
             = [w EXCEPT !.step = [s EXCEPT !.at = "done", !.fetched = draft]]
      BY <1>1, <1>2 DEF Window, StepRecord
    <3> QED
      BY <3>1, <3>2
  <2> QED
    BY <2>1, <2>2
<1>5. PICK n : n = [s EXCEPT !.at = at, !.fetched = d]
  OBVIOUS
<1>6. d \in Draft /\ d.text \subseteq 1 .. typed
  BY <1>2, <1>4, StepParts
<1>7. /\ n \in StepRecord /\ n.at = at /\ n.kind = s.kind /\ n.epoch = s.epoch
      /\ n.generation = s.generation /\ n.text = s.text /\ n.answer = s.answer
      /\ n.fetched = d /\ n.uploaded = s.uploaded
  BY <1>2, <1>4, <1>5, <1>6 DEF StepRecord, StepPlaces
<1>8. PICK v : v = [w EXCEPT !.step = n]
  OBVIOUS
<1>9. /\ v.step = n /\ v.value = w.value /\ v.generation = w.generation
      /\ v.lease_epoch = w.lease_epoch /\ v.uploaded = w.uploaded
  BY <1>2, <1>7, <1>8, WithStep
<1>10. /\ UNCHANGED <<lease, next_epoch, draft, typed>>
       /\ \A k : \A e : HoldsLeaseOf(k, e)' <=> HoldsLeaseOf(k, e)
  BY <1>3 DEF hostVars, historyVars, HoldsLeaseOf
<1>11. StepFits(c, v)'
  BY <1>1, <1>2, <1>3, <1>4, <1>7, <1>9, <1>10 DEF StepFits
<1>12. UploadFits(c, v)'
  BY <1>2, <1>9, <1>10 DEF UploadFits
<1>13. Good(c, v)'
  BY <1>2, <1>6, <1>7, <1>8, <1>10, <1>11, <1>12, GoodStepped
<1>14. NewsFits' /\ HistoryFits'
  <2>1. left' \in Budget /\ left' = left /\ UNCHANGED historyVars /\ UNCHANGED <<news, next_epoch>>
    BY <1>3, <1>10, Context DEF HistoryFits
  <2> QED
    BY <2>1, NewsSame, HistorySame
<1>15. typed' \in Nat /\ typed <= typed' /\ UNCHANGED hostVars /\ Show(c, v)
  BY <1>2, <1>3, <1>4, <1>5, <1>8, <1>10
<1> QED
  BY <1>13, <1>14, <1>15, EditStep

\* A session that expires takes the lease away.
LEMMA ExpireKeeps ==
    ASSUME IInv, NEW c \in Clients, Expire(c)
    PROVE  IInv'
<1>1. /\ HostFits /\ HistoryFits /\ next_epoch \in Nat \ {0} /\ typed \in Nat /\ draft \in Draft
      /\ left \in Budget
  BY Context DEF HostFits, HistoryFits
<1>2. /\ lease' = NoLease /\ Notify(State(NoLease, draft))
      /\ UNCHANGED <<next_epoch, draft, disk, client, historyVars, left>>
  BY DEF Expire
<1>3. NoLease \in Lease /\ NoLease.holder = Nobody /\ NoLease.epoch = 0
  BY DEF NoLease, Lease
<1>4. State(NoLease, draft) \in HostState /\ State(NoLease, draft).epoch < next_epoch
  BY <1>1, <1>3 DEF State, HostState, Lease, Draft
<1>5. HostFits'
  BY <1>1, <1>2, <1>3 DEF HostFits, historyVars
<1>6. NewsFits'
  BY <1>1, <1>2, <1>4, Notified
<1>7. HistoryFits'
  BY <1>1, <1>2, HistorySame
<1>8. ASSUME NEW k \in Clients PROVE Good(k, client[k])'
  <2>1. PICK w : w = client[k]
    OBVIOUS
  <2>2. Good(k, w)
    BY <2>1, Context
  <2>3. \A e \in Nat : ~HoldsLeaseOf(k, e)'
    BY <1>2, EditingAssumption DEF HoldsLeaseOf, NoLease
  <2>4. typed' = typed /\ next_epoch' = next_epoch
    BY <1>2 DEF historyVars
  <2>5. Good(k, w)'
    BY <1>1, <2>2, <2>3, <2>4, GoodKept
  <2>6. w = client'[k]
    BY <1>2, <2>1
  <2> QED
    BY <2>5, <2>6, GoodPrimed
<1>9. WindowsFit'
  BY <1>2, <1>8, Context DEF WindowsFit
<1> QED
  BY <1>5, <1>6, <1>7, <1>9, PartsAfter

-----------------------------------------------------------------------------
(* The theorems.                                                           *)

\* Nothing is typed yet, and windows show the empty file.
LEMMA InitOK == Init => IInv
<1> SUFFICES ASSUME Init PROVE IInv
  OBVIOUS
<1>1. /\ lease = NoLease /\ next_epoch = 1 /\ draft = NoDraft /\ disk = {}
      /\ client = [c \in Clients |-> Opened] /\ news = [c \in Clients |-> <<>>]
      /\ typed = 0 /\ given_up = {} /\ continues = {} /\ overwritten = {}
      /\ left \in Budget
  BY EditingAssumption DEF Init, Budget
<1>2. HostFits
  BY <1>1 DEF HostFits, NoLease, NoDraft, Lease, Draft, Texts
<1>3. HistoryFits
  BY <1>1 DEF HistoryFits, Texts
<1>4. NewsFits
  <2>1. left.news \in Nat
    BY <1>1 DEF Budget
  <2> QED
    BY <1>1, <2>1 DEF NewsFits, NewsFit
<1>5. WindowsFit
  <2>1. /\ NoSave \in SaveRecord /\ NoSave.text = {} /\ Unknown \in HostState /\ Unknown.epoch = 0
    BY <1>2, States DEF NoSave, SaveRecord, SavePlaces, Texts
  <2>2. /\ Opened \in Window /\ Opened.step = NoStep
        /\ Opened.value = {} /\ Opened.saved = {} /\ Opened.fingerprint = {}
        /\ Opened.copied = {} /\ Opened.exposed = {} /\ Opened.save = NoSave
        /\ Opened.generation = 0 /\ Opened.lease_epoch = 0
        /\ Opened.uploaded = 0 /\ Opened.host = Unknown /\ Opened.opening = Unknown
    BY <2>1, NoStepParts DEF Opened, Window, Texts, Links, WindowStates
  <2>3. ASSUME NEW c \in Clients PROVE Good(c, Opened)
    <3>1. WindowTexts(Opened) \subseteq 1 .. typed
      BY <2>1, <2>2, NoStepParts DEF WindowTexts
    <3>2. \A e \in WindowEpochs(Opened) : e < next_epoch
      BY <1>1, <2>1, <2>2, NoStepParts DEF WindowEpochs
    <3>3. UploadFits(c, Opened)
      BY <2>2 DEF UploadFits
    <3> QED
      BY <2>2, <3>1, <3>2, <3>3, GoodNoStep
  <2> QED
    BY <1>1, <2>2, <2>3 DEF WindowsFit
<1> QED
  BY <1>2, <1>3, <1>4, <1>5, Parts

\* A step that changes nothing
LEMMA StutterOK == IInv /\ UNCHANGED vars => IInv'
<1> SUFFICES ASSUME IInv, UNCHANGED vars PROVE IInv'
  OBVIOUS
<1>1. /\ UNCHANGED <<lease, next_epoch, draft, disk, client, news, typed, given_up, continues,
                     overwritten, left>>
  BY DEF vars, hostVars, historyVars
<1>2. HostFits' /\ NewsFits' /\ HistoryFits'
  BY <1>1, Context DEF HostFits, NewsFits, NewsFit, HistoryFits
<1>3. ASSUME NEW k \in Clients PROVE Good(k, client[k])'
  <2>1. Good(k, client[k])
    BY Context
  <2> QED
    BY <1>1, <2>1 DEF Good, WindowOK, StepFits, UploadFits, WindowTexts, WindowEpochs, HoldsLeaseOf
<1>4. WindowsFit'
  BY <1>1, <1>3, Context DEF WindowsFit
<1> QED
  BY <1>2, <1>4, PartsAfter

\* Every step keeps the invariant.
LEMMA StepOK == IInv /\ Next => IInv'
<1> SUFFICES ASSUME IInv, NEW c \in Clients,
                    \/ ServeStep(c) \/ ApplyStep(c) \/ HandleFile(c) \/ OpenAgain(c)
                    \/ User(c) \/ Tick(c) \/ Deliver(c) \/ CloseWindow(c)
                    \/ Expire(c) \/ Drop(c) \/ Reconnect(c) \/ DeviceChanges(c)
             PROVE  IInv'
  BY DEF Next
<1>1. CASE ServeStep(c)
  BY <1>1, AcquireKeeps, PutKeeps, ReleaseKeeps, GetKeeps DEF ServeStep
<1>2. CASE ApplyStep(c)
  BY <1>2, StepDoneKeeps, StepFailsKeeps DEF ApplyStep
<1>3. CASE HandleFile(c)
  BY <1>3, SaveFileKeeps, SaveDoneKeeps, ReloadDoneKeeps DEF HandleFile
<1>4. CASE OpenAgain(c)
  BY <1>4, OpenKeeps, ShowOpenedKeeps DEF OpenAgain
<1>5. CASE User(c)
  BY <1>5, TypeKeeps, UndoKeeps, TakeOverKeeps, SaveKeeps, AnswerConflictKeeps, RequestCloseKeeps
     DEF User
<1>6. CASE Tick(c) \/ Deliver(c) \/ CloseWindow(c)
  BY <1>6, TickKeeps, DeliverKeeps, CloseWindowKeeps
<1>7. CASE Expire(c) \/ Drop(c) \/ Reconnect(c) \/ DeviceChanges(c)
  BY <1>7, ExpireKeeps, DropKeeps, ReconnectKeeps, DeviceChangesKeeps
<1> QED
  BY <1>1, <1>2, <1>3, <1>4, <1>5, <1>6, <1>7

\* The invariant is inductive.
THEOREM Inductive == Spec => []IInv
<1>1. IInv /\ [Next]_vars => IInv'
  BY StepOK, StutterOK
<1> QED
  BY <1>1, InitOK, PTL DEF Spec

\* The invariant contains the type invariant.
LEMMA InvariantTypes == IInv => TypeOK
<1> SUFFICES ASSUME IInv PROVE TypeOK
  OBVIOUS
<1>1. /\ HostFits /\ NewsFits /\ HistoryFits
      /\ \A c \in Clients : Good(c, client[c])
  BY Context
<1>2. lease \in [holder : Clients \cup {Nobody}, epoch : 0..next_epoch-1]
  <2>1. lease.epoch \in 0..next_epoch-1 /\ lease.holder \in Clients \cup {Nobody}
    BY <1>1 DEF HostFits, Lease
  <2> QED
    BY <1>1, <2>1 DEF HostFits, Lease
<1>3. draft \in [revision : Nat, text : SUBSET (1..typed)]
  <2>1. draft.text \subseteq 1..typed /\ draft.revision \in Nat
    BY <1>1 DEF HostFits, Draft
  <2> QED
    BY <1>1, <2>1 DEF HostFits, Draft
<1>4. ASSUME NEW c \in Clients, NEW w, w = client[c]
      PROVE  /\ w.value \cup w.saved \cup w.fingerprint \cup w.copied \cup w.exposed \subseteq 1..typed
             /\ {w.generation, w.lease_epoch, w.uploaded, w.shown_draft, w.reloads} \subseteq Nat
             /\ {w.held, w.error, w.external_dirty, w.writable} \subseteq BOOLEAN
             /\ w.window \in WindowStates /\ w.link \in Links
             /\ w.step.at \in StepPlaces /\ w.save.at \in SavePlaces
             /\ (w.step.kind = "none") = (w.step.at = "none")
             /\ Len(news[c]) <= left.news
  <2>1. /\ Good(c, w) /\ w \in Window /\ w.step \in StepRecord /\ w.save \in SaveRecord
        /\ Extras(w) \subseteq 1 .. typed /\ w.value \subseteq 1 .. typed
    BY <1>1, <1>4, GoodParts, WindowParts
  <2>2. StepFits(c, w)
    BY <2>1 DEF Good, WindowOK
  <2>3. (w.step.kind = "none") = (w.step.at = "none")
    BY <2>2 DEF StepFits
  <2>4. w.step.at \in StepPlaces /\ w.save.at \in SavePlaces
    BY <2>1, StepParts DEF SaveRecord
  <2>5. Len(news[c]) <= left.news
    BY <1>1 DEF NewsFits, NewsFit
  <2>6. w.value \cup w.saved \cup w.fingerprint \cup w.copied \cup w.exposed \subseteq 1..typed
    BY <2>1 DEF Extras
  <2> QED
    BY <2>1, <2>3, <2>4, <2>5, <2>6, WindowParts
<1>5. /\ disk \subseteq 1..typed /\ given_up \cup overwritten \subseteq 1..typed
      /\ continues \subseteq Clients
  BY <1>1 DEF HostFits, HistoryFits
<1> QED
  BY <1>2, <1>3, <1>4, <1>5 DEF TypeOK, WindowStates, Links, StepPlaces, SavePlaces

\* Types; steps and saves are where they can be, and no more events are on their way to a
\* Client than the bound says (notify_document replaces a state that was not sent).
THEOREM TypeCorrect == Spec => []TypeOK
  BY Inductive, InvariantTypes, PTL

\* A window that counts its text as stored, and holds the lease, is right: the draft is the
\* text it shows, whatever of its answers came late (documents.rs, apply_document_outcome).
THEOREM UploadedIsStoredAlways == Spec => []UploadedIsStored
<1>1. IInv => UploadedIsStored
  BY Context DEF UploadedIsStored, Good, WindowOK, UploadFits
<1> QED
  BY <1>1, Inductive, PTL

(***************************************************************************)
(* That DocumentEditing keeps what is typed (EditsKept), for every         *)
(* instance of its constants.  An edit leaves a window only when it is     *)
(* safe: in the file, in the stored draft, in a Device copy, or among the  *)
(* edits that EditsKept names as given up.  Edits that are safe stay safe, *)
(* and the invariant says why a window that is about to replace, hide or   *)
(* drop its text shows nothing that is not.                                *)
(***************************************************************************)

-----------------------------------------------------------------------------
(* The inductive invariant.                                                *)

\* Edits that are given up, or in Device copies, or exposed
Given == given_up \cup overwritten
             \cup UNION {client[c].exposed \cup client[c].copied : c \in Clients}

Settled == disk \cup Given

Safe == draft.text \cup Settled

\* What is about to replace, hide or drop the text of a window, or could without asking
Losing(w) ==
    \/ w.held \/ w.reloads > 0 \/ w.save.at = "reloading" \/ w.window = "closing"
    \/ w.step.kind \in {"recover", "takeover", "show"}
    \/ w.uploaded = w.generation

\* A window shows what the file had when it was read, but for what was given up; and what it
\* may lose is safe.
ShowsKept(w) ==
    /\ w.saved = w.fingerprint
    /\ w.fingerprint \ w.value \subseteq Given
    /\ w.fingerprint \subseteq Settled
    /\ Losing(w) => w.value \subseteq Safe

\* What a step fetched or stored is safe; what it fetched replaces the text.
StepKept(w) ==
    LET s == w.step IN
    /\ s.fetched.text \subseteq Safe
    /\ s.uploaded # 0 => s.text \subseteq Safe
    /\ s.fetched.revision # 0 \/ s.at = "get" => s.kind \in {"recover", "takeover", "show"}

\* The window still shows what it saves, and what the save replaces in the file.
SaveKept(w) ==
    LET s == w.save IN
    /\ s.at \in {"check", "force", "saved", "conflict", "asking"} => s.text \ w.value \subseteq Given
    /\ s.at = "check" => s.expected \ s.text \subseteq Given
    /\ s.at = "saved" => s.text \subseteq Settled
    /\ s.at = "reloading" => s.text \subseteq Given

\* An editor that continues from the stored draft shows it and puts what it shows.
DraftKept(c, w) ==
    LET s == w.step IN
    c \in continues =>
        /\ draft.text \ w.value \subseteq Given
        /\ s.at = "put" => draft.text \ s.text \subseteq Given
        /\ s.at = "release" => draft.text \subseteq Settled
        /\ s.fetched.revision # 0 => s.fetched = draft

\* What a window puts in the draft it still shows.
PutKept(c, w) ==
    w.step.at = "put" /\ HoldsLeaseOf(c, w.step.epoch) => w.step.text \ w.value \subseteq Given

Fine(c, w) ==
    ShowsKept(w) /\ StepKept(w) /\ SaveKept(w) /\ DraftKept(c, w) /\ PutKept(c, w)

AllShown == \A e \in 1 .. typed : e \in Safe \/ \E c \in Clients : e \in client[c].value

KeptInv == AllShown /\ \A c \in Clients : Fine(c, client[c])

-----------------------------------------------------------------------------
(* What reconcile_document and the tick do to a window.                    *)

\* The texts of a window stay; Device copies and exposed edits only grow.
Beside(v, w) ==
    /\ v.value = w.value /\ v.saved = w.saved /\ v.fingerprint = w.fingerprint
    /\ v.save = w.save /\ v.generation = w.generation
    /\ w.copied \subseteq v.copied /\ w.exposed \subseteq v.exposed

\* A step that starts sends the text as it is; a release only starts when that is saved.
Started(v, w) ==
    /\ w.step.at = "none"
    /\ v.step.uploaded = 0 /\ v.step.fetched.revision = 0 /\ v.step.fetched.text = {}
    /\ v.step.at = "put" => v.step.text = w.value
    /\ v.step.at = "release" => w.value = w.saved
    /\ v.step.at = "get" => v.step.kind = "show"

\* Losing the text is harmless: it could be lost before, or is saved, or its edits are in a
\* Device copy or counted as exposed.
Harmless(v, w) ==
    \/ Losing(w)
    \/ w.value = w.saved
    \/ w.value \ w.saved \subseteq v.exposed
    \/ w.value \subseteq v.copied

Follows(v, w) ==
    /\ v \in Window /\ Beside(v, w)
    /\ v.step = w.step \/ v.step = NoStep \/ Started(v, w)
    /\ v.uploaded <= v.generation
    /\ Losing(v) => Harmless(v, w)

\* A window follows itself.
LEMMA FollowsItself ==
    ASSUME NEW w \in Window, w.uploaded <= w.generation
    PROVE  Follows(w, w)
BY DEF Follows, Beside, Harmless

\* Only a release is sent as one.
LEMMA SpawnedRelease ==
    ASSUME NEW w \in Window, NEW kind \in StepKinds \ {"none"}, w.step.at = "none",
           Spawn(w, kind).step.at = "release"
    PROVE  kind = "release"
<1>1. CASE kind = "upload"
  BY <1>1, Spawned
<1>2. CASE kind \notin {"upload", "release"}
  <2> DEFINE n == [NoStep EXCEPT !.kind = kind, !.at = IF kind = "show" THEN "get" ELSE "acquire"]
  <2>1. Spawn(w, kind) = [w EXCEPT !.step = n]
    BY <1>2 DEF Spawn
  <2>2. n.at = (IF kind = "show" THEN "get" ELSE "acquire")
    BY NoStepParts DEF StepRecord
  <2> HIDE DEF n
  <2>3. Spawn(w, kind).step = n
    BY <2>1 DEF Window
  <2> QED
    BY <2>2, <2>3
<1> QED
  BY <1>1, <1>2

\* Spawn
LEMMA FollowsSpawn ==
    ASSUME NEW w \in Window, NEW u, Follows(u, w), u.step = w.step,
           NEW kind \in StepKinds \ {"none"},
           kind = "release" => w.value = w.saved,
           kind \in {"recover", "takeover", "show"} => Harmless(u, w),
           NEW v, v = Spawn(u, kind)
    PROVE  Follows(v, w)
<1>1. CASE w.step.at # "none"
  BY <1>1 DEF Spawn
<1>2. CASE w.step.at = "none"
  <2>1. PICK s : s = v.step
    OBVIOUS
  <2>2. /\ u \in Window
        /\ v = [u EXCEPT !.step = s]
        /\ s \in StepRecord
        /\ s.uploaded = 0 /\ s.fetched.revision = 0 /\ s.fetched.text = {}
        /\ s.kind = kind
        /\ kind = "upload" <=> s.at = "put"
        /\ kind = "show" <=> s.at = "get"
        /\ kind = "upload" => s.text = u.value
    BY <1>2, <2>1, Spawned DEF Follows
  <2>3. s.at = "release" => w.value = w.saved
    BY <1>2, <2>1, <2>2, SpawnedRelease
  <2>4. /\ v \in Window /\ v.step = s /\ Beside(v, u) /\ v.uploaded = u.uploaded
        /\ v.held = u.held /\ v.reloads = u.reloads /\ v.window = u.window
        /\ v.exposed = u.exposed /\ v.copied = u.copied
    BY <2>2 DEF Window, Beside
  <2>5. Started(v, w)
    BY <1>2, <2>2, <2>3, <2>4 DEF Started, Follows, Beside
  <2>6. Losing(v) => Harmless(v, w)
    <3>1. Losing(u) \/ kind \in {"recover", "takeover", "show"} => Harmless(u, w)
      BY DEF Follows
    <3>2. Losing(v) => Losing(u) \/ kind \in {"recover", "takeover", "show"}
      BY <2>2, <2>4 DEF Losing, Beside
    <3> QED
      BY <2>4, <3>1, <3>2 DEF Harmless
  <2> QED
    BY <2>4, <2>5, <2>6 DEF Follows, Beside
<1> QED
  BY <1>1, <1>2

\* lose_document_lease reloads the file, but first copies a text the Host does not have, or
\* fails to.
LEMMA FollowsLose ==
    ASSUME NEW w \in Window, w.uploaded <= w.generation, NEW v, v = Lose(w)
    PROVE  Follows(v, w) /\ v.step = w.step /\ Harmless(v, w)
<1>1. /\ v \in Window /\ v.step = w.step /\ Beside(v, w) /\ v.uploaded = 0
      /\ IsDirty(w) /\ w.uploaded # w.generation
            => w.value \subseteq v.copied \/ w.value \ w.saved \subseteq v.exposed
  BY LoseParts DEF Beside
<1>2. w.generation \in Nat
  BY WindowParts
<1>3. Harmless(v, w)
  BY <1>1 DEF Harmless, Losing, IsDirty
<1> QED
  BY <1>1, <1>2, <1>3 DEF Follows, Beside

\* Another Client holds the lease.
LEMMA FollowsWatch ==
    ASSUME NEW w \in Window, w.uploaded <= w.generation, NEW v, v = Watch(w)
    PROVE  Follows(v, w)
<1>1. PICK u : u = IF w.lease_epoch # 0 THEN Lose(w)
                   ELSE [w EXCEPT !.exposed = @ \cup (w.value \ w.saved)]
  OBVIOUS
<1>2. Follows(u, w) /\ u.step = w.step /\ Harmless(u, w)
  <2>1. CASE w.lease_epoch # 0
    BY <1>1, <2>1, FollowsLose
  <2>2. CASE w.lease_epoch = 0
    <3>1. PICK exposed : exposed = w.exposed \cup (w.value \ w.saved)
      OBVIOUS
    <3>2. exposed \in Texts /\ u = [w EXCEPT !.exposed = exposed]
      BY <1>1, <2>2, <3>1, WindowParts DEF Texts
    <3>3. /\ u \in Window /\ u.step = w.step /\ u.uploaded = w.uploaded /\ u.exposed = exposed
          /\ u.value = w.value /\ u.saved = w.saved /\ u.fingerprint = w.fingerprint
          /\ u.save = w.save /\ u.generation = w.generation /\ u.copied = w.copied
      BY <3>2 DEF Window
    <3>4. Harmless(u, w)
      BY <3>1, <3>3 DEF Harmless
    <3> QED
      BY <3>1, <3>3, <3>4 DEF Follows, Beside
  <2> QED
    BY <2>1, <2>2
<1>3. \/ v = [u EXCEPT !.shown_draft = 0, !.held = TRUE]
      \/ v = Spawn(u, "show")
      \/ v = u
  BY <1>1 DEF Watch
<1>4. CASE v = [u EXCEPT !.shown_draft = 0, !.held = TRUE]
  <2>0. u \in Window
    BY <1>2 DEF Follows
  <2>1. LET n == [u EXCEPT !.shown_draft = 0, !.held = TRUE] IN
        /\ n \in Window /\ n.step = u.step /\ n.uploaded = u.uploaded /\ n.exposed = u.exposed
        /\ n.value = u.value /\ n.saved = u.saved /\ n.fingerprint = u.fingerprint
        /\ n.save = u.save /\ n.generation = u.generation /\ n.copied = u.copied
    BY <2>0 DEF Window
  <2>2. /\ v \in Window /\ v.step = u.step /\ v.uploaded = u.uploaded /\ v.exposed = u.exposed
        /\ v.value = u.value /\ v.saved = u.saved /\ v.fingerprint = u.fingerprint
        /\ v.save = u.save /\ v.generation = u.generation /\ v.copied = u.copied
    BY <1>4, <2>1
  <2> QED
    BY <1>2, <2>2 DEF Follows, Beside, Harmless
<1>5. CASE v = Spawn(u, "show")
  BY <1>2, <1>5, FollowsSpawn DEF StepKinds
<1> QED
  BY <1>2, <1>3, <1>4, <1>5

\* What a window forgets of what it stored makes it no more likely to lose its text.
LEMMA FollowsTracked ==
    ASSUME NEW w \in Window, w.uploaded <= w.generation, NEW v, v = Tracked(w)
    PROVE  Follows(v, w) /\ v.step = w.step
<1>1. /\ v \in Window /\ v.step = w.step /\ v.uploaded \in {0, w.uploaded} /\ v.exposed = w.exposed
      /\ v.value = w.value /\ v.saved = w.saved /\ v.fingerprint = w.fingerprint
      /\ v.save = w.save /\ v.generation = w.generation /\ v.copied = w.copied
      /\ v.held = FALSE /\ v.reloads = w.reloads /\ v.window = w.window
  <2> DEFINE Tracks(u) ==
                /\ u \in Window /\ u.step = w.step /\ u.exposed = w.exposed
                /\ u.value = w.value /\ u.saved = w.saved /\ u.fingerprint = w.fingerprint
                /\ u.save = w.save /\ u.generation = w.generation /\ u.copied = w.copied
                /\ u.held = FALSE /\ u.reloads = w.reloads /\ u.window = w.window
  <2>1. ASSUME NEW epoch \in Nat
        PROVE  LET u == [w EXCEPT !.held = FALSE, !.lease_epoch = epoch, !.uploaded = 0] IN
               Tracks(u) /\ u.uploaded = 0
    BY DEF Window
  <2>2. LET u == [w EXCEPT !.held = FALSE] IN Tracks(u) /\ u.uploaded = w.uploaded
    BY DEF Window
  <2> HIDE DEF Tracks
  <2>3. w.host.epoch \in Nat
    BY WindowParts DEF HostState
  <2>4. Tracks(v) /\ v.uploaded \in {0, w.uploaded}
    <3>1. CASE w.host.holder = Nobody
      <4>1. v = [w EXCEPT !.held = FALSE, !.lease_epoch = 0, !.uploaded = 0]
        BY <3>1 DEF Tracked
      <4> QED
        BY <2>1, <4>1
    <3>2. CASE w.host.holder # Nobody /\ w.lease_epoch # w.host.epoch
      <4>1. v = [w EXCEPT !.held = FALSE, !.lease_epoch = w.host.epoch, !.uploaded = 0]
        BY <3>2 DEF Tracked
      <4> QED
        BY <2>1, <2>3, <4>1
    <3>3. CASE w.host.holder # Nobody /\ w.lease_epoch = w.host.epoch
      <4>1. v = [w EXCEPT !.held = FALSE]
        BY <3>3 DEF Tracked
      <4> QED
        BY <2>2, <4>1
    <3> QED
      BY <3>1, <3>2, <3>3
  <2> QED
    BY <2>4 DEF Tracks
<1>2. w.uploaded \in Nat /\ w.generation \in Nat /\ 0 <= w.generation
  BY WindowParts
<1>3. Losing(v) => Losing(w)
  BY <1>1, <1>2 DEF Losing
<1> QED
  BY <1>1, <1>2, <1>3 DEF Follows, Beside, Harmless

\* Changes that follow each other, of which the first leaves the step alone
LEMMA FollowsTwice ==
    ASSUME NEW w, NEW u, NEW v, Follows(u, w), Follows(v, u), u.step = w.step
    PROVE  Follows(v, w)
BY DEF Follows, Beside, Started, Harmless

\* Windows that differ in nothing that matters to what is kept
Quiet(u, w) ==
    /\ u \in Window
    /\ u.value = w.value /\ u.saved = w.saved /\ u.fingerprint = w.fingerprint
    /\ u.save = w.save /\ u.generation = w.generation /\ u.uploaded = w.uploaded
    /\ u.copied = w.copied /\ u.exposed = w.exposed
    /\ u.held = w.held /\ u.reloads = w.reloads
    /\ u.window = w.window \/ u.window # "closing"

\* A window of which nothing changes that the invariant speaks of
LEMMA FollowsQuiet ==
    ASSUME NEW w, NEW u, Quiet(u, w), u.step = w.step, w.uploaded <= w.generation
    PROVE  Follows(u, w)
BY DEF Quiet, Follows, Beside, Harmless, Losing

\* Whatever reconcile_document decides
LEMMA FollowsReconcile ==
    ASSUME NEW c, NEW w \in Window, w.uploaded <= w.generation, NEW v, v = Reconcile(c, w)
    PROVE  Follows(v, w)
<1>1. CASE ~Connected(w) \/ w.step.at # "none"
  BY <1>1, FollowsItself DEF Reconcile
<1>2. CASE Connected(w) /\ w.step.at = "none" /\ w.host.holder \notin {Nobody, c}
  BY <1>2, FollowsWatch DEF Reconcile
<1>3. CASE Connected(w) /\ w.step.at = "none" /\ w.host.holder \in {Nobody, c}
  <2>1. PICK t : t = Tracked(w)
    OBVIOUS
  <2>2. Follows(t, w) /\ t.step = w.step
    BY <2>1, FollowsTracked
  <2>3. \/ v = t
        \/ v = Spawn(t, "acquire")
        \/ v = Spawn(t, "upload")
        \/ v = [t EXCEPT !.error = TRUE]
        \/ v = Spawn(t, "recover") /\ ~IsDirty(w)
        \/ v = Spawn(t, "release") /\ ~IsDirty(w)
    BY <1>3, <2>1 DEF Reconcile, Edit, Recoverable
  <2>4. ~IsDirty(w) => w.value = w.saved
    BY DEF IsDirty
  <2>5. Follows([t EXCEPT !.error = TRUE], w)
    <3>1. PICK u : u = [t EXCEPT !.error = TRUE]
      OBVIOUS
    <3>2. t \in Window /\ t.uploaded <= t.generation
      BY <2>2 DEF Follows
    <3>3. Quiet(u, t) /\ u.step = t.step
      BY <3>1, <3>2 DEF Window, Quiet
    <3>4. Follows(u, t)
      BY <3>2, <3>3, FollowsQuiet
    <3> QED
      BY <2>2, <3>1, <3>4, FollowsTwice
  <2> QED
    BY <2>2, <2>3, <2>4, <2>5, FollowsSpawn DEF StepKinds, Harmless
<1> QED
  BY <1>1, <1>2, <1>3

\* A window that closes has nothing that the Host does not store.
LEMMA FollowsFinishClose ==
    ASSUME NEW w, NEW u, Follows(u, w), NEW v, v = FinishClose(u)
    PROVE  Follows(v, w)
<1>0. u \in Window
  BY DEF Follows
<1>1. ASSUME NEW window \in WindowStates, window = "closing" => Harmless(u, w)
      PROVE  Follows([u EXCEPT !.window = window], w)
  <2>1. PICK n : n = [u EXCEPT !.window = window]
    OBVIOUS
  <2>2. /\ n \in Window /\ n.step = u.step /\ n.uploaded = u.uploaded /\ n.exposed = u.exposed
        /\ n.value = u.value /\ n.saved = u.saved /\ n.fingerprint = u.fingerprint
        /\ n.save = u.save /\ n.generation = u.generation /\ n.copied = u.copied
        /\ n.held = u.held /\ n.reloads = u.reloads /\ n.window = window
    BY <1>0, <2>1 DEF Window
  <2>3. Losing(n) => Losing(u) \/ window = "closing"
    BY <2>2 DEF Losing
  <2>4. Losing(n) => Harmless(n, w)
    BY <1>1, <2>2, <2>3 DEF Follows, Harmless
  <2>5. Beside(n, w) /\ (n.step = w.step \/ n.step = NoStep \/ Started(n, w))
    BY <2>2 DEF Follows, Beside, Started
  <2> QED
    BY <2>1, <2>2, <2>4, <2>5 DEF Follows
<1>2. ~Unsynced(u) => Harmless(u, w)
  BY DEF Unsynced, IsDirty, Follows, Beside, Harmless, Losing
<1>3. \/ v = u
      \/ v = [u EXCEPT !.window = "open"]
      \/ v = [u EXCEPT !.window = "closing"] /\ ~Unsynced(u)
  BY DEF FinishClose
<1> QED
  BY <1>1, <1>2, <1>3 DEF WindowStates

\* What is kept of a window is kept of one that follows it.
LEMMA FineFollows ==
    ASSUME NEW c, NEW w, NEW v, Follows(v, w), Fine(c, w)',
           v.exposed \cup v.copied \subseteq Given'
    PROVE  Fine(c, v)'
<1>1. Beside(v, w) /\ Given' \subseteq Settled' /\ Settled' \subseteq Safe'
  BY DEF Follows, Settled, Safe
<1>2. ShowsKept(v)'
  <2>1. v.saved = v.fingerprint /\ v.fingerprint \ v.value \subseteq Given'
        /\ v.fingerprint \subseteq Settled'
    BY <1>1 DEF Fine, ShowsKept, Beside
  <2>2. Losing(v) => v.value \subseteq Safe'
    <3>1. Losing(v) => Harmless(v, w)
      BY DEF Follows
    <3>2. /\ w.value = v.value /\ w.saved = v.fingerprint
          /\ Losing(w) => w.value \subseteq Safe'
      BY <1>1, <2>1 DEF Beside, Fine, ShowsKept
    <3> QED
      BY <1>1, <2>1, <3>1, <3>2 DEF Harmless
  <2> QED
    BY <2>1, <2>2 DEF ShowsKept
<1>3. SaveKept(v)'
  BY <1>1 DEF Fine, SaveKept, Beside
<1>4. CASE v.step = w.step
  <2>1. StepKept(v)' /\ DraftKept(c, v)' /\ PutKept(c, v)'
    BY <1>1, <1>4 DEF Fine, StepKept, DraftKept, PutKept, Beside
  <2> QED
    BY <1>2, <1>3, <2>1 DEF Fine
<1>5. CASE v.step = NoStep
  <2>1. StepKept(v)' /\ PutKept(c, v)'
    BY <1>5, NoStepParts DEF StepKept, PutKept
  <2>2. DraftKept(c, v)'
    BY <1>1, <1>5, NoStepParts DEF Fine, DraftKept, Beside
  <2> QED
    BY <1>2, <1>3, <2>1, <2>2 DEF Fine
<1>6. CASE Started(v, w)
  <2>1. StepKept(v)' /\ PutKept(c, v)'
    BY <1>1, <1>6 DEF StepKept, PutKept, Started, Beside
  <2>2. DraftKept(c, v)'
    <3>1. c \in continues' => draft'.text \ v.value \subseteq Given'
      BY <1>1 DEF Fine, DraftKept, Beside
    <3>2. c \in continues' /\ v.step.at = "release" => draft'.text \subseteq Settled'
      <4>1. v.step.at = "release" => v.value \subseteq Settled'
        BY <1>1, <1>6 DEF Fine, ShowsKept, Started, Beside
      <4> QED
        BY <1>1, <3>1, <4>1
    <3> QED
      BY <1>1, <1>6, <3>1, <3>2 DEF DraftKept, Started, Beside
  <2> QED
    BY <1>2, <1>3, <2>1, <2>2 DEF Fine
<1> QED
  BY <1>4, <1>5, <1>6 DEF Follows

-----------------------------------------------------------------------------
(* What a step of the system keeps.                                        *)

\* What was safe stays safe.
Grows == Given \subseteq Given' /\ Settled \subseteq Settled' /\ Safe \subseteq Safe'

\* Device copies and exposed edits of a window stay given.
LEMMA GivenGrows ==
    ASSUME IInv, NEW c \in Clients, NEW v, Show(c, v),
           client[c].exposed \subseteq v.exposed, client[c].copied \subseteq v.copied,
           given_up \subseteq given_up', overwritten \subseteq overwritten'
    PROVE  /\ Given \subseteq Given'
           /\ v.exposed \cup v.copied \subseteq Given'
           /\ given_up' \cup overwritten' \subseteq Given'
<1>1. client' = [client EXCEPT ![c] = v] /\ client \in [Clients -> Window]
  BY Context DEF Show, WindowsFit
<1>2. client'[c] = v /\ \A k \in Clients \ {c} : client'[k] = client[k]
  BY <1>1
<1>3. \A k \in Clients : client[k].exposed \cup client[k].copied
                             \subseteq client'[k].exposed \cup client'[k].copied
  BY <1>2
<1> QED
  BY <1>2, <1>3 DEF Given

\* What the rest of the step may do to the lease and the draft of a Client whose window stays
LeaseKept(k) ==
    \A e \in Nat : e < next_epoch /\ HoldsLeaseOf(k, e)' => HoldsLeaseOf(k, e)

DraftStays(k) == k \in continues' => k \in continues /\ draft' = draft

\* What a window shows, fetched and saves
LEMMA PartsGrow ==
    ASSUME NEW k, NEW w, Fine(k, w), Grows
    PROVE  ShowsKept(w)' /\ StepKept(w)' /\ SaveKept(w)'
BY DEF Fine, Grows, ShowsKept, StepKept, SaveKept

\* A window of which all was kept
LEMMA FineGrows ==
    ASSUME NEW k, NEW w, Fine(k, w), Good(k, w), Grows, LeaseKept(k), DraftStays(k)
    PROVE  Fine(k, w)'
<1>1. ShowsKept(w)' /\ StepKept(w)' /\ SaveKept(w)'
  BY PartsGrow
<1>2. DraftKept(k, w)'
  BY DEF Fine, Grows, DraftKept, DraftStays
<1>3. PutKept(k, w)'
  <2>1. w.step.epoch \in Nat /\ w.step.epoch < next_epoch
    BY GoodParts, WindowParts, StepParts
  <2>2. HoldsLeaseOf(k, w.step.epoch)' => HoldsLeaseOf(k, w.step.epoch)
    BY <2>1 DEF LeaseKept
  <2> QED
    BY <2>2 DEF Fine, Grows, PutKept
<1> QED
  BY <1>1, <1>2, <1>3 DEF Fine

\* ... of a window, as a step finds it
LEMMA FinePrimed ==
    ASSUME NEW k, NEW w, w = client'[k], Fine(k, w)'
    PROVE  Fine(k, client[k])'
BY DEF Fine, ShowsKept, StepKept, SaveKept, DraftKept, PutKept, HoldsLeaseOf

\* One window changes, and what leaves it is safe.
LEMMA KeptStep ==
    ASSUME IInv, KeptInv, NEW c \in Clients, NEW v, Show(c, v), Fine(c, v)', Grows,
           \A k \in Clients \ {c} : LeaseKept(k) /\ DraftStays(k),
           client[c].value \subseteq Safe' \cup v.value,
           1 .. typed' \subseteq (1 .. typed) \cup v.value
    PROVE  KeptInv'
<1>1. client' = [client EXCEPT ![c] = v] /\ client \in [Clients -> Window]
  BY Context DEF Show, WindowsFit
<1>2. client'[c] = v /\ \A k \in Clients \ {c} : client'[k] = client[k]
  BY <1>1
<1>3. ASSUME NEW k \in Clients PROVE Fine(k, client[k])'
  <2>1. PICK w : w = client'[k]
    OBVIOUS
  <2>2. CASE k = c
    BY <1>2, <2>1, <2>2, FinePrimed
  <2>3. CASE k # c
    <3>1. Fine(k, w) /\ Good(k, w)
      BY <1>2, <2>1, <2>3, Context DEF KeptInv
    <3>2. Fine(k, w)'
      BY <2>3, <3>1, FineGrows
    <3> QED
      BY <2>1, <3>2, FinePrimed
  <2> QED
    BY <2>2, <2>3
<1>4. AllShown'
  <2>1. ASSUME NEW e \in 1 .. typed' PROVE e \in Safe' \/ \E k \in Clients : e \in client'[k].value
    <3>1. CASE e \in v.value
      BY <1>2, <3>1
    <3>2. CASE e \notin v.value
      <4>1. e \in Safe \/ \E k \in Clients : e \in client[k].value
        BY <3>2 DEF KeptInv, AllShown
      <4> QED
        BY <1>2, <3>2, <4>1 DEF Grows
    <3> QED
      BY <3>1, <3>2
  <2> QED
    BY <2>1 DEF AllShown
<1> QED
  BY <1>3, <1>4 DEF KeptInv

\* A window changes while the lease, the draft, the file and the history stay.
LEMMA KeptBeside ==
    ASSUME IInv, KeptInv, NEW c \in Clients, NEW v, Show(c, v),
           client[c].exposed \subseteq v.exposed, client[c].copied \subseteq v.copied,
           UNCHANGED <<lease, draft, disk, overwritten>>, continues' \subseteq continues,
           given_up \subseteq given_up'
    PROVE  /\ Grows /\ Fine(c, client[c])
           /\ \A k \in Clients : LeaseKept(k) /\ DraftStays(k)
           /\ \A w : w = client[c] => Fine(c, w)'
           /\ v.exposed \cup v.copied \subseteq Given' /\ given_up' \subseteq Given'
           /\ Given' \subseteq Settled' /\ Settled' \subseteq Safe' /\ disk' \subseteq Settled'
<1>1. /\ Given \subseteq Given' /\ v.exposed \cup v.copied \subseteq Given'
      /\ given_up' \subseteq Given'
  BY GivenGrows
<1>2. Grows
  BY <1>1 DEF Grows, Settled, Safe
<1>3. \A k \in Clients : LeaseKept(k) /\ DraftStays(k)
  BY DEF LeaseKept, HoldsLeaseOf, DraftStays
<1>4. Fine(c, client[c]) /\ Good(c, client[c])
  BY Context DEF KeptInv
<1>5. \A w : w = client[c] => Fine(c, w)'
  BY <1>2, <1>3, <1>4, FineGrows
<1> QED
  BY <1>1, <1>2, <1>3, <1>4, <1>5 DEF Settled, Safe

\* A window that follows what it was
LEMMA FollowingStep ==
    ASSUME IInv, KeptInv, NEW c \in Clients, NEW w, w = client[c], NEW v, Show(c, v), Follows(v, w),
           UNCHANGED <<hostVars, historyVars>>
    PROVE  KeptInv'
<1>1. UNCHANGED <<lease, draft, disk, typed, given_up, overwritten, continues>>
  BY DEF hostVars, historyVars
<1>2. w.exposed \subseteq v.exposed /\ w.copied \subseteq v.copied /\ v.value = w.value
  BY DEF Follows, Beside
<1>3. /\ Grows /\ Fine(c, w)' /\ v.exposed \cup v.copied \subseteq Given'
      /\ \A k \in Clients : LeaseKept(k) /\ DraftStays(k)
  BY <1>1, <1>2, KeptBeside
<1>4. Fine(c, v)'
  BY <1>3, FineFollows
<1> QED
  BY <1>1, <1>2, <1>3, <1>4, KeptStep

-----------------------------------------------------------------------------
(* Steps after which a window follows what it was.                         *)

\* The window of a Client
LEMMA TheWindow ==
    ASSUME IInv, NEW c \in Clients, NEW w, w = client[c]
    PROVE  /\ Good(c, w) /\ w \in Window /\ w.uploaded <= w.generation
           /\ w.step \in StepRecord /\ w.save \in SaveRecord
           /\ StepFits(c, w)
BY Context, GoodParts, WindowParts DEF Good, WindowOK, UploadFits

\* A step that failed leaves an error.
LEMMA StepFailsKept ==
    ASSUME IInv, KeptInv, NEW c \in Clients, StepFails(c)
    PROVE  KeptInv'
<1>1. PICK w, v : w = client[c] /\ v = [w EXCEPT !.step = NoStep, !.error = TRUE]
  OBVIOUS
<1>2. w \in Window /\ w.uploaded <= w.generation
  BY <1>1, TheWindow
<1>3. Quiet(v, w) /\ v.step = NoStep
  BY <1>1, <1>2, NoStepParts DEF Window, Quiet
<1>4. Follows(v, w)
  BY <1>2, <1>3, NoStepParts DEF Quiet, Follows, Beside, Harmless, Losing
<1>5. Show(c, v) /\ UNCHANGED <<hostVars, historyVars>>
  BY <1>1 DEF StepFails
<1> QED
  BY <1>1, <1>4, <1>5, FollowingStep

\* A takeover only starts in a window whose text is another Client's.
LEMMA TakeOverKept ==
    ASSUME IInv, KeptInv, NEW c \in Clients, TakeOver(c)
    PROVE  KeptInv'
<1>1. PICK w, v : w = client[c] /\ v = Spawn(w, "takeover")
  OBVIOUS
<1>2. w \in Window /\ Follows(w, w)
  BY <1>1, TheWindow, FollowsItself
<1>3. w.held /\ Show(c, v) /\ UNCHANGED <<hostVars, historyVars>>
  BY <1>1 DEF TakeOver
<1>4. Follows(v, w)
  BY <1>1, <1>2, <1>3, FollowsSpawn DEF StepKinds, Harmless, Losing
<1> QED
  BY <1>1, <1>3, <1>4, FollowingStep

\* A window that learned something and decides what to do
LEMMA FollowsLearned ==
    ASSUME NEW c, NEW w, NEW u, Quiet(u, w), u.step = w.step, w.uploaded <= w.generation,
           NEW v, v \in {u, Reconcile(c, u), FinishClose(u), FinishClose(Reconcile(c, u))}
    PROVE  Follows(v, w)
<1>1. Follows(u, w) /\ u \in Window /\ u.uploaded <= u.generation
  BY FollowsQuiet DEF Quiet
<1>2. Follows(Reconcile(c, u), w)
  BY <1>1, FollowsReconcile, FollowsTwice
<1> QED
  BY <1>1, <1>2, FollowsFinishClose

\* The tick, with its question to the Host, and the close it finishes
LEMMA TickKept ==
    ASSUME IInv, KeptInv, NEW c \in Clients, Tick(c)
    PROVE  KeptInv'
<1>1. PICK w, u : w = client[c] /\ u = [w EXCEPT !.link = "asked"]
  OBVIOUS
<1>2. w \in Window /\ w.uploaded <= w.generation
  BY <1>1, TheWindow
<1>3. Quiet(w, w) /\ Quiet(u, w) /\ u.step = w.step
  BY <1>1, <1>2 DEF Window, Quiet, Links
<1>4. PICK v : /\ Show(c, v) /\ UNCHANGED <<hostVars, historyVars>>
               /\ v = u \/ v = FinishClose(Reconcile(c, w))
  BY <1>1 DEF Tick
<1>5. Follows(v, w)
  BY <1>2, <1>3, <1>4, FollowsLearned
<1> QED
  BY <1>1, <1>4, <1>5, FollowingStep

\* An event
LEMMA DeliverKept ==
    ASSUME IInv, KeptInv, NEW c \in Clients, Deliver(c)
    PROVE  KeptInv'
<1>1. PICK w, host, u : w = client[c] /\ host = Head(news[c]) /\ u = [w EXCEPT !.host = host]
  OBVIOUS
<1>2. w \in Window /\ w.uploaded <= w.generation
  BY <1>1, TheWindow
<1>3. host \in HostState
  <2>1. news[c] \in Seq(HostState) /\ news[c] # <<>>
    BY Context DEF NewsFits, Deliver
  <2> QED
    BY <1>1, <2>1
<1>4. Quiet(u, w) /\ u.step = w.step
  BY <1>1, <1>2, <1>3 DEF Window, Quiet
<1>5. PICK v : v = Reconcile(c, u) /\ Show(c, v) /\ UNCHANGED <<hostVars, historyVars>>
  BY <1>1 DEF Deliver
<1>6. Follows(v, w)
  BY <1>2, <1>4, <1>5, FollowsLearned
<1> QED
  BY <1>1, <1>5, <1>6, FollowingStep

\* The Host's answer to a connection
LEMMA OpenKept ==
    ASSUME IInv, KeptInv, NEW c \in Clients, Open(c)
    PROVE  KeptInv'
<1>1. PICK w, opening, v : /\ w = client[c] /\ opening = State(lease, draft)
                           /\ v = [w EXCEPT !.link = "answered", !.opening = opening]
  OBVIOUS
<1>2. w \in Window /\ w.uploaded <= w.generation
  BY <1>1, TheWindow
<1>3. opening \in HostState
  BY <1>1, Context DEF State, HostState, Lease, Draft, HostFits
<1>4. Quiet(v, w) /\ v.step = w.step
  BY <1>1, <1>2, <1>3 DEF Window, Quiet, Links
<1>5. Show(c, v) /\ UNCHANGED <<hostVars, historyVars>>
  BY <1>1 DEF Open
<1>6. Follows(v, w)
  BY <1>2, <1>4, FollowsQuiet
<1> QED
  BY <1>1, <1>5, <1>6, FollowingStep

\* ... as the window shows it
LEMMA ShowOpenedKept ==
    ASSUME IInv, KeptInv, NEW c \in Clients, ShowOpened(c)
    PROVE  KeptInv'
<1>1. PICK w, u : /\ w = client[c]
                  /\ u = [w EXCEPT !.link = "opened", !.host = w.opening, !.opening = Unknown]
  OBVIOUS
<1>2. w \in Window /\ w.uploaded <= w.generation /\ w.opening \in HostState /\ Unknown \in HostState
  BY <1>1, TheWindow, WindowParts, States, Context
<1>3. Quiet(u, w) /\ u.step = w.step
  BY <1>1, <1>2 DEF Window, Quiet, Links
<1>4. PICK v : v = Reconcile(c, u) /\ Show(c, v) /\ UNCHANGED <<hostVars, historyVars>>
  BY <1>1 DEF ShowOpened
<1>5. Follows(v, w)
  BY <1>2, <1>3, <1>4, FollowsLearned
<1> QED
  BY <1>1, <1>4, <1>5, FollowingStep

\* A window is asked to close.
LEMMA RequestCloseKept ==
    ASSUME IInv, KeptInv, NEW c \in Clients, RequestClose(c)
    PROVE  KeptInv'
<1>1. PICK w, u : w = client[c] /\ u = [w EXCEPT !.window = "close_requested"]
  OBVIOUS
<1>2. w \in Window /\ w.uploaded <= w.generation
  BY <1>1, TheWindow
<1>3. Quiet(u, w) /\ u.step = w.step
  BY <1>1, <1>2 DEF Window, Quiet, WindowStates
<1>4. PICK v : /\ v = FinishClose(Reconcile(c, u)) /\ Show(c, v)
               /\ UNCHANGED <<hostVars, historyVars>>
  BY <1>1 DEF RequestClose
<1>5. Follows(v, w)
  BY <1>2, <1>3, <1>4, FollowsLearned
<1> QED
  BY <1>1, <1>4, <1>5, FollowingStep

\* A connection that is up again
LEMMA ReconnectKept ==
    ASSUME IInv, KeptInv, NEW c \in Clients, Reconnect(c)
    PROVE  KeptInv'
<1>1. PICK w, v : w = client[c] /\ v = [w EXCEPT !.link = "up"]
  OBVIOUS
<1>2. w \in Window /\ w.uploaded <= w.generation
  BY <1>1, TheWindow
<1>3. Quiet(v, w) /\ v.step = w.step
  BY <1>1, <1>2 DEF Window, Quiet, Links
<1>4. Show(c, v) /\ UNCHANGED <<hostVars, historyVars>>
  BY <1>1 DEF Reconnect
<1>5. Follows(v, w)
  BY <1>2, <1>3, FollowsQuiet
<1> QED
  BY <1>1, <1>4, <1>5, FollowingStep

\* The Device store begins or ceases to take copies.
LEMMA DeviceChangesKept ==
    ASSUME IInv, KeptInv, NEW c \in Clients, DeviceChanges(c)
    PROVE  KeptInv'
<1>1. PICK w, v : w = client[c] /\ v = [w EXCEPT !.writable = ~@]
  OBVIOUS
<1>2. w \in Window /\ w.uploaded <= w.generation /\ w.writable \in BOOLEAN
  BY <1>1, TheWindow, WindowParts
<1>3. Quiet(v, w) /\ v.step = w.step
  BY <1>1, <1>2 DEF Window, Quiet
<1>4. Show(c, v) /\ UNCHANGED <<hostVars, historyVars>>
  BY <1>1 DEF DeviceChanges
<1>5. Follows(v, w)
  BY <1>2, <1>3, FollowsQuiet
<1> QED
  BY <1>1, <1>4, <1>5, FollowingStep

-----------------------------------------------------------------------------
(* Saving and reloading.                                                   *)

\* A window whose step stays, and whose text loses nothing but what is given up
LEMMA FineBeside ==
    ASSUME NEW c, NEW w, NEW v, Fine(c, w)', w.value \ v.value \subseteq Given', v.step = w.step,
           v.saved = v.fingerprint, v.fingerprint \ v.value \subseteq Given',
           v.fingerprint \subseteq Settled',
           Losing(v) => (Losing(w) /\ v.value \subseteq w.value) \/ v.value \subseteq Safe',
           SaveKept(v)'
    PROVE  Fine(c, v)'
<1>1. ShowsKept(v)'
  BY DEF Fine, ShowsKept
<1>2. StepKept(v)' /\ DraftKept(c, v)' /\ PutKept(c, v)'
  BY DEF Fine, StepKept, DraftKept, PutKept
<1> QED
  BY <1>1, <1>2 DEF Fine

\* A window of which only the save changes
LEMMA FineSave ==
    ASSUME NEW c, NEW w \in Window, NEW s \in SaveRecord, NEW v, v = [w EXCEPT !.save = s],
           Fine(c, w)', s.at = "reloading" => w.value \subseteq Safe', SaveKept(v)'
    PROVE  Fine(c, v)'
<1>1. /\ v.step = w.step /\ v.value = w.value /\ v.saved = w.saved /\ v.fingerprint = w.fingerprint
      /\ v.generation = w.generation /\ v.uploaded = w.uploaded /\ v.save = s
      /\ v.held = w.held /\ v.reloads = w.reloads /\ v.window = w.window
  BY DEF Window
<1>2. Losing(v) => Losing(w) \/ v.value \subseteq Safe'
  BY <1>1 DEF Losing
<1>3. /\ w.saved = w.fingerprint /\ w.fingerprint \ w.value \subseteq Given'
      /\ w.fingerprint \subseteq Settled'
  BY DEF Fine, ShowsKept
<1> QED
  BY <1>1, <1>2, <1>3, FineBeside

\* The parts of a window of which only the save changes
LEMMA SaveParts ==
    ASSUME NEW w \in Window, NEW s \in SaveRecord, NEW v, v = [w EXCEPT !.save = s]
    PROVE  v.save = s /\ v.value = w.value /\ v.exposed = w.exposed /\ v.copied = w.copied
BY DEF Window

\* The save that starts is of the text as it is.
LEMMA SaveKeptStep ==
    ASSUME IInv, KeptInv, NEW c \in Clients, Save(c)
    PROVE  KeptInv'
<1>1. PICK w, s, v :
         /\ w = client[c]
         /\ s = [at |-> "check", generation |-> w.generation, text |-> w.value,
                 expected |-> w.fingerprint]
         /\ v = [w EXCEPT !.save = s]
  OBVIOUS
<1>2. w \in Window
  BY <1>1, TheWindow
<1>3. s \in SaveRecord /\ s.at = "check" /\ s.text = w.value /\ s.expected = w.fingerprint
  BY <1>1, <1>2, WindowParts DEF SaveRecord, SavePlaces
<1>4. v.save = s /\ v.value = w.value /\ v.exposed = w.exposed /\ v.copied = w.copied
  BY <1>1, <1>2, <1>3, SaveParts
<1>5. Show(c, v) /\ UNCHANGED <<lease, draft, disk, typed, given_up, overwritten, continues>>
  BY <1>1 DEF Save, hostVars, historyVars
<1>6. Grows /\ Fine(c, w)' /\ \A k \in Clients : LeaseKept(k) /\ DraftStays(k)
  BY <1>1, <1>4, <1>5, KeptBeside
<1>7. SaveKept(v)'
  BY <1>3, <1>4, <1>6 DEF SaveKept, Fine, ShowsKept
<1>8. Fine(c, v)'
  BY <1>1, <1>2, <1>3, <1>6, <1>7, FineSave
<1> QED
  BY <1>1, <1>4, <1>5, <1>6, <1>8, KeptStep

\* What the file had is in the text that is saved, was given up, or exposed with a forced save.
LEMMA SaveFileKept ==
    ASSUME IInv, KeptInv, NEW c \in Clients, SaveFile(c)
    PROVE  KeptInv'
<1>1. PICK w, s : w = client[c] /\ s = w.save
  OBVIOUS
<1>2. w \in Window /\ s \in SaveRecord /\ Good(c, w) /\ w.exposed \in Texts
  BY <1>1, TheWindow, WindowParts
<1>3. UNCHANGED <<lease, draft, typed, given_up, overwritten, continues>>
  BY DEF SaveFile, historyVars
<1>4. PICK n, exposed :
         /\ \/ n = [s EXCEPT !.at = "conflict"] /\ s.at = "check" /\ disk' = disk
            \/ n = [s EXCEPT !.at = "saved"] /\ disk' = s.text /\ s.at \in {"check", "force"}
         /\ s.at = "check" => disk' = disk \/ disk = s.expected
         /\ s.at = "force" => exposed = w.exposed \cup (disk \ s.text)
         /\ s.at = "check" => exposed = w.exposed
         /\ Show(c, [[w EXCEPT !.save = n] EXCEPT !.exposed = exposed])
  <2>1. ASSUME NEW at, NEW exposed
        PROVE  [w EXCEPT !.save.at = at, !.exposed = exposed]
                  = [[w EXCEPT !.save = [s EXCEPT !.at = at]] EXCEPT !.exposed = exposed]
    BY <1>1, <1>2 DEF Window
  <2>2. ASSUME NEW at
        PROVE  [w EXCEPT !.save.at = at]
                  = [[w EXCEPT !.save = [s EXCEPT !.at = at]] EXCEPT !.exposed = w.exposed]
    BY <1>1, <1>2 DEF Window
  <2>3. CASE s.at = "check" /\ disk # s.expected
    <3>1. Show(c, [w EXCEPT !.save.at = "conflict"]) /\ disk' = disk
      BY <1>1, <2>3 DEF SaveFile
    <3> QED
      BY <2>2, <2>3, <3>1
  <2>4. CASE ~(s.at = "check" /\ disk # s.expected)
    <3>1. PICK exposed : exposed = IF s.at = "force" THEN w.exposed \cup (disk \ s.text) ELSE w.exposed
      OBVIOUS
    <3>2. /\ Show(c, [w EXCEPT !.save.at = "saved", !.exposed = exposed]) /\ disk' = s.text
          /\ s.at \in {"check", "force"}
      BY <1>1, <2>4, <3>1 DEF SaveFile
    <3>3. PICK n : n = [s EXCEPT !.at = "saved"]
      OBVIOUS
    <3>4. Show(c, [[w EXCEPT !.save = n] EXCEPT !.exposed = exposed])
      BY <2>1, <3>2, <3>3
    <3> QED
      BY <2>4, <3>1, <3>2, <3>3, <3>4
  <2> QED
    BY <2>3, <2>4
<1>5. PICK u, v : u = [w EXCEPT !.save = n] /\ v = [u EXCEPT !.exposed = exposed]
  OBVIOUS
<1>6. /\ n \in SaveRecord /\ n.text = s.text /\ n.expected = s.expected
      /\ \/ n.at = "conflict" /\ s.at = "check" /\ disk' = disk
         \/ n.at = "saved" /\ disk' = s.text /\ s.at \in {"check", "force"}
  <2>1. ASSUME NEW at \in SavePlaces
        PROVE  LET m == [s EXCEPT !.at = at] IN
               m \in SaveRecord /\ m.at = at /\ m.text = s.text /\ m.expected = s.expected
    BY <1>2 DEF SaveRecord
  <2>2. {"conflict", "saved"} \subseteq SavePlaces
    BY DEF SavePlaces
  <2>3. CASE n = [s EXCEPT !.at = "conflict"] /\ s.at = "check" /\ disk' = disk
    BY <2>1, <2>2, <2>3
  <2>4. CASE n = [s EXCEPT !.at = "saved"] /\ disk' = s.text /\ s.at \in {"check", "force"}
    BY <2>1, <2>2, <2>4
  <2> QED
    BY <1>4, <2>3, <2>4
<1>7. u \in Window /\ u.save = n /\ u.value = w.value
  BY <1>2, <1>5, <1>6 DEF Window
<1>8. /\ v.step = u.step /\ v.value = u.value /\ v.saved = u.saved
      /\ v.fingerprint = u.fingerprint /\ v.copied = u.copied /\ v.exposed = exposed /\ v.save = u.save
      /\ v.generation = u.generation /\ v.uploaded = u.uploaded
      /\ v.held = u.held /\ v.reloads = u.reloads /\ v.window = u.window
  BY <1>5, <1>7 DEF Window
<1>9. w.exposed \subseteq v.exposed /\ w.copied \subseteq v.copied /\ v.value = w.value
  BY <1>2, <1>4, <1>5, <1>6, <1>7, <1>8, SaveParts
<1>10. /\ Given \subseteq Given' /\ v.exposed \subseteq Given'
  BY <1>1, <1>3, <1>4, <1>5, <1>9, GivenGrows
<1>11. disk \subseteq disk' \cup Given'
  <2>1. s.at = "check" => s.expected \ s.text \subseteq Given
    BY <1>1 DEF KeptInv, Fine, SaveKept
  <2> QED
    BY <1>4, <1>6, <1>8, <1>10, <2>1
<1>12. Grows
  BY <1>3, <1>10, <1>11 DEF Grows, Settled, Safe
<1>13. \A k \in Clients : LeaseKept(k) /\ DraftStays(k)
  BY <1>3 DEF LeaseKept, HoldsLeaseOf, DraftStays
<1>14. Fine(c, w)'
  <2>1. Fine(c, w)
    BY <1>1 DEF KeptInv
  <2> QED
    BY <1>2, <1>12, <1>13, <2>1, FineGrows
<1>15. SaveKept(u)'
  <2>1. s.at \in {"check", "force"} => s.text \ w.value \subseteq Given'
    BY <1>1, <1>14 DEF Fine, SaveKept
  <2>2. disk' \subseteq Settled'
    BY DEF Settled
  <2> QED
    BY <1>6, <1>7, <2>1, <2>2 DEF SaveKept
<1>16. Fine(c, u)'
  BY <1>2, <1>5, <1>6, <1>14, <1>15, FineSave
<1>17. Fine(c, v)'
  <2>1. SaveKept(v)'
    BY <1>8, <1>15 DEF SaveKept
  <2>2. Losing(v) => Losing(u)
    BY <1>8 DEF Losing
  <2>3. /\ u.saved = u.fingerprint /\ u.fingerprint \ u.value \subseteq Given'
        /\ u.fingerprint \subseteq Settled'
    BY <1>16 DEF Fine, ShowsKept
  <2> QED
    BY <1>8, <1>16, <2>1, <2>2, <2>3, FineBeside
<1> QED
  BY <1>1, <1>3, <1>4, <1>5, <1>9, <1>12, <1>13, <1>17, KeptStep

\* A save request that is over
LEMMA NoSaveParts == NoSave \in SaveRecord /\ NoSave.at = "none"
BY DEF NoSave, SaveRecord, SavePlaces, Texts

\* No save, nothing to keep
LEMMA NoSaveKept ==
    ASSUME NEW v, v.save = NoSave
    PROVE  SaveKept(v)'
BY NoSaveParts DEF SaveKept

\* A save request that came further
LEMMA SaveMoved ==
    ASSUME NEW w \in Window, NEW at \in SavePlaces, NEW s, s = [w.save EXCEPT !.at = at],
           NEW v, v = [w EXCEPT !.save.at = at]
    PROVE  /\ v = [w EXCEPT !.save = s]
           /\ s \in SaveRecord /\ s.at = at /\ s.text = w.save.text /\ s.expected = w.save.expected
<1>1. w.save \in SaveRecord
  BY WindowParts
<1>2. s \in SaveRecord /\ s.at = at /\ s.text = w.save.text /\ s.expected = w.save.expected
  BY <1>1 DEF SaveRecord
<1>3. v = [w EXCEPT !.save = s]
  BY <1>1 DEF Window, SaveRecord
<1> QED
  BY <1>2, <1>3

\* What was saved is what the window shows, but for what was given up; a conflict becomes a
\* question, or the reload of a text that is saved.
LEMMA SaveDoneKept ==
    ASSUME IInv, KeptInv, NEW c \in Clients, SaveDone(c)
    PROVE  KeptInv'
<1>1. PICK w : w = client[c]
  OBVIOUS
<1>2. /\ w \in Window /\ w.save \in SaveRecord /\ w.reloads \in Nat /\ w.external_dirty \in BOOLEAN
      /\ w.save.text \in Texts
  BY <1>1, TheWindow, WindowParts DEF SaveRecord
<1>3. UNCHANGED <<lease, draft, disk, typed, given_up, overwritten, continues>>
  BY DEF SaveDone, hostVars, historyVars
<1>4. ASSUME NEW v, Show(c, v), v.value = w.value, v.exposed = w.exposed, v.copied = w.copied,
             Fine(c, w)' /\ Given' \subseteq Settled' /\ Settled' \subseteq Safe' => Fine(c, v)'
      PROVE  KeptInv'
  <2>1. /\ Grows /\ Fine(c, w)' /\ Given' \subseteq Settled' /\ Settled' \subseteq Safe'
        /\ \A k \in Clients : LeaseKept(k) /\ DraftStays(k)
    BY <1>1, <1>3, <1>4, KeptBeside
  <2> QED
    BY <1>1, <1>3, <1>4, <2>1, KeptStep
<1>5. CASE /\ w.save.at = "saved"
           /\ Show(c, [w EXCEPT !.saved = w.save.text, !.fingerprint = w.save.text,
                                !.save = NoSave,
                                !.external_dirty = @ /\ w.save.generation # w.generation])
  <2>1. PICK v : v = [w EXCEPT !.saved = w.save.text, !.fingerprint = w.save.text, !.save = NoSave,
                               !.external_dirty = @ /\ w.save.generation # w.generation]
    OBVIOUS
  <2>2. /\ v.step = w.step /\ v.value = w.value /\ v.saved = w.save.text
        /\ v.fingerprint = w.save.text /\ v.copied = w.copied /\ v.exposed = w.exposed
        /\ v.generation = w.generation /\ v.uploaded = w.uploaded /\ v.save = NoSave
        /\ v.held = w.held /\ v.reloads = w.reloads /\ v.window = w.window
    BY <1>2, <2>1 DEF Window
  <2>3. ASSUME Fine(c, w)' PROVE Fine(c, v)'
    <3>1. v.fingerprint \ v.value \subseteq Given' /\ v.fingerprint \subseteq Settled'
      BY <1>5, <2>2, <2>3 DEF Fine, SaveKept
    <3>2. Losing(v) => Losing(w)
      BY <2>2, NoSaveParts DEF Losing
    <3> QED
      BY <2>2, <2>3, <3>1, <3>2, NoSaveKept, FineBeside
  <2> QED
    BY <1>4, <1>5, <2>1, <2>2, <2>3
<1>6. CASE w.save.at = "conflict" /\ Show(c, [w EXCEPT !.save.at = "asking"])
  <2>1. PICK v : v = [w EXCEPT !.save.at = "asking"]
    OBVIOUS
  <2>2. PICK s \in SaveRecord : /\ v = [w EXCEPT !.save = s] /\ s.at = "asking"
                                /\ s.text = w.save.text
    <3>1. PICK s : s = [w.save EXCEPT !.at = "asking"]
      OBVIOUS
    <3>2. v = [w EXCEPT !.save = s] /\ s \in SaveRecord /\ s.at = "asking" /\ s.text = w.save.text
      BY <1>2, <2>1, <3>1, SaveMoved DEF SavePlaces
    <3> QED
      BY <3>2
  <2>3. v.save = s /\ v.value = w.value /\ v.exposed = w.exposed /\ v.copied = w.copied
    BY <1>2, <2>2, SaveParts
  <2>4. ASSUME Fine(c, w)' PROVE Fine(c, v)'
    <3>1. SaveKept(v)'
      BY <1>6, <2>2, <2>3, <2>4 DEF Fine, SaveKept
    <3> QED
      BY <1>2, <2>2, <2>4, <3>1, FineSave
  <2> QED
    BY <1>4, <1>6, <2>1, <2>3, <2>4
<1>7. ASSUME NEW reloads \in Nat, reloads = w.reloads \/ w.value = w.saved,
             Show(c, [w EXCEPT !.save = NoSave, !.reloads = reloads])
      PROVE  KeptInv'
  <2>1. PICK v : v = [w EXCEPT !.save = NoSave, !.reloads = reloads]
    OBVIOUS
  <2>2. /\ v.step = w.step /\ v.value = w.value /\ v.saved = w.saved
        /\ v.fingerprint = w.fingerprint /\ v.copied = w.copied /\ v.exposed = w.exposed
        /\ v.generation = w.generation /\ v.uploaded = w.uploaded /\ v.save = NoSave
        /\ v.held = w.held /\ v.reloads = reloads /\ v.window = w.window
    BY <1>2, <2>1, NoSaveParts DEF Window
  <2>3. ASSUME Fine(c, w)', Settled' \subseteq Safe' PROVE Fine(c, v)'
    <3>1. /\ w.saved = w.fingerprint /\ w.fingerprint \ w.value \subseteq Given'
          /\ w.fingerprint \subseteq Settled'
      BY <2>3 DEF Fine, ShowsKept
    <3>2. Losing(v) => Losing(w) \/ v.value \subseteq Safe'
      BY <1>7, <2>2, <2>3, <3>1, NoSaveParts DEF Losing
    <3> QED
      BY <2>2, <2>3, <3>1, <3>2, NoSaveKept, FineBeside
  <2> QED
    BY <1>4, <1>7, <2>1, <2>2, <2>3
<1>8. CASE w.save.at = "conflict" /\ ~IsDirty(w)
           /\ Show(c, [w EXCEPT !.save = NoSave, !.reloads = @ + 1])
  <2>1. w.reloads + 1 \in Nat /\ w.value = w.saved
    BY <1>2, <1>8 DEF IsDirty
  <2> QED
    BY <1>7, <1>8, <2>1
<1>9. CASE Show(c, [w EXCEPT !.save = NoSave])
  <2>1. [w EXCEPT !.save = NoSave] = [w EXCEPT !.save = NoSave, !.reloads = w.reloads]
    BY <1>2 DEF Window
  <2> QED
    BY <1>2, <1>7, <1>9, <2>1
<1> QED
  BY <1>1, <1>5, <1>6, <1>8, <1>9 DEF SaveDone

\* Whatever the user answers, what is replaced is given up.
LEMMA AnswerConflictKept ==
    ASSUME IInv, KeptInv, NEW c \in Clients, AnswerConflict(c)
    PROVE  KeptInv'
<1>1. PICK w : w = client[c]
  OBVIOUS
<1>2. /\ w \in Window /\ w.save \in SaveRecord /\ w.save.at = "asking" /\ w.value \in Texts
      /\ given_up \in Texts /\ disk \in Texts
  BY <1>1, TheWindow, WindowParts, Context DEF AnswerConflict, HistoryFits, HostFits
<1>3. /\ UNCHANGED <<lease, draft, disk, typed, overwritten, continues>>
      /\ given_up \subseteq given_up'
  BY <1>2 DEF AnswerConflict, hostVars
<1>4. PICK s \in SaveRecord :
         /\ Show(c, [w EXCEPT !.save = s])
         /\ \/ s.at = "force" /\ s.text = w.save.text
            \/ s.at = "stuck"
            \/ s.at = "reloading" /\ s.text = w.save.text /\ given_up' = given_up \cup w.value
            \/ s.at = "none"
  <2>1. ASSUME NEW at \in SavePlaces
        PROVE  \E s \in SaveRecord : /\ [w EXCEPT !.save.at = at] = [w EXCEPT !.save = s]
                                     /\ s.at = at /\ s.text = w.save.text
    <3>1. PICK v, s : v = [w EXCEPT !.save.at = at] /\ s = [w.save EXCEPT !.at = at]
      OBVIOUS
    <3>2. v = [w EXCEPT !.save = s] /\ s \in SaveRecord /\ s.at = at /\ s.text = w.save.text
      BY <1>2, <2>1, <3>1, SaveMoved
    <3> QED
      BY <3>1, <3>2
  <2>2. {"force", "stuck", "reloading"} \subseteq SavePlaces
    BY DEF SavePlaces
  <2>3. \/ Show(c, [w EXCEPT !.save.at = "force"])
        \/ Show(c, [w EXCEPT !.save.at = "stuck"])
        \/ Show(c, [w EXCEPT !.save.at = "reloading"]) /\ given_up' = given_up \cup w.value
        \/ Show(c, [w EXCEPT !.save = NoSave])
    BY <1>1 DEF AnswerConflict
  <2>4. CASE Show(c, [w EXCEPT !.save.at = "force"])
    BY <2>1, <2>2, <2>4
  <2>5. CASE Show(c, [w EXCEPT !.save.at = "stuck"])
    BY <2>1, <2>2, <2>5
  <2>6. CASE Show(c, [w EXCEPT !.save.at = "reloading"]) /\ given_up' = given_up \cup w.value
    BY <2>1, <2>2, <2>6
  <2>7. CASE Show(c, [w EXCEPT !.save = NoSave])
    BY <2>7, NoSaveParts
  <2> QED
    BY <2>3, <2>4, <2>5, <2>6, <2>7
<1>5. PICK v : v = [w EXCEPT !.save = s]
  OBVIOUS
<1>6. v.save = s /\ v.value = w.value /\ v.exposed = w.exposed /\ v.copied = w.copied
  BY <1>2, <1>5, SaveParts
<1>7. /\ Grows /\ Fine(c, w)' /\ given_up' \subseteq Given'
      /\ Given' \subseteq Settled' /\ Settled' \subseteq Safe'
      /\ \A k \in Clients : LeaseKept(k) /\ DraftStays(k)
  BY <1>1, <1>3, <1>4, <1>5, <1>6, KeptBeside
<1>8. w.save.text \ w.value \subseteq Given'
  BY <1>2, <1>7 DEF Fine, SaveKept
<1>9. s.at = "reloading" => w.value \subseteq Given'
  BY <1>4, <1>7
<1>10. SaveKept(v)'
  BY <1>4, <1>6, <1>8, <1>9 DEF SaveKept
<1>11. Fine(c, v)'
  BY <1>2, <1>5, <1>7, <1>9, <1>10, FineSave
<1> QED
  BY <1>1, <1>3, <1>4, <1>5, <1>6, <1>7, <1>11, KeptStep

-----------------------------------------------------------------------------
(* The user's edits, reloads, and the connection.                          *)

\* What is typed is shown; where it may be lost at once, it is counted as exposed.
LEMMA TypeKept ==
    ASSUME IInv, KeptInv, NEW c \in Clients, Type(c)
    PROVE  KeptInv'
<1>1. PICK w, edit, replaces :
         /\ w = client[c] /\ edit = typed + 1
         /\ replaces <=> Replaces(w) \/ w.window = "closing"
  OBVIOUS
<1>2. /\ w \in Window /\ w.uploaded <= w.generation /\ typed \in Nat
      /\ w.generation \in Nat /\ w.uploaded \in Nat /\ w.exposed \in Texts /\ w.value \in Texts
  BY <1>1, TheWindow, WindowParts, Context
<1>3. PICK exposed :
         /\ exposed = IF replaces THEN w.exposed \cup {edit} ELSE w.exposed
         /\ Show(c, [w EXCEPT !.value = w.value \cup {edit}, !.generation = w.generation + 1,
                              !.exposed = exposed])
  <2>1. PICK e : e = [w EXCEPT !.value = w.value \cup {edit}, !.generation = w.generation + 1]
    OBVIOUS
  <2>2. e.exposed = w.exposed
    BY <1>2, <2>1 DEF Window
  <2>3. Show(c, IF replaces THEN [e EXCEPT !.exposed = @ \cup {edit}] ELSE e)
    BY <1>1, <2>1 DEF Type
  <2>4. e = [e EXCEPT !.exposed = w.exposed]
    BY <1>2, <2>1 DEF Window
  <2>5. PICK exposed : exposed = IF replaces THEN w.exposed \cup {edit} ELSE w.exposed
    OBVIOUS
  <2>6. Show(c, [e EXCEPT !.exposed = exposed])
    BY <2>2, <2>3, <2>4, <2>5
  <2>7. [e EXCEPT !.exposed = exposed]
           = [w EXCEPT !.value = w.value \cup {edit}, !.generation = w.generation + 1,
                       !.exposed = exposed]
    BY <1>2, <2>1 DEF Window
  <2> QED
    BY <2>5, <2>6, <2>7
<1>4. PICK v : v = [w EXCEPT !.value = w.value \cup {edit}, !.generation = w.generation + 1,
                             !.exposed = exposed]
  OBVIOUS
<1>5. /\ v.step = w.step /\ v.value = w.value \cup {edit} /\ v.saved = w.saved
      /\ v.fingerprint = w.fingerprint /\ v.copied = w.copied /\ v.exposed = exposed
      /\ v.generation = w.generation + 1 /\ v.uploaded = w.uploaded /\ v.save = w.save
      /\ v.held = w.held /\ v.reloads = w.reloads /\ v.window = w.window
  BY <1>2, <1>4 DEF Window
<1>6. /\ UNCHANGED <<lease, draft, disk, given_up, overwritten, continues>> /\ typed' = edit
      /\ w.held = FALSE
  <2>1. w.held \in BOOLEAN
    BY <1>2, WindowParts
  <2> QED
    BY <1>1, <2>1 DEF Type, hostVars, Editable
<1>7. /\ Grows /\ Fine(c, w)' /\ \A k \in Clients : LeaseKept(k) /\ DraftStays(k)
      /\ v.exposed \subseteq Given' /\ Given' \subseteq Settled' /\ Settled' \subseteq Safe'
  <2>1. w.exposed \subseteq v.exposed /\ w.copied \subseteq v.copied /\ Show(c, v)
    BY <1>3, <1>4, <1>5
  <2> QED
    BY <1>1, <1>6, <2>1, KeptBeside
<1>8. Losing(v) => replaces
  <2>1. v.uploaded # v.generation
    BY <1>2, <1>5
  <2> QED
    BY <1>1, <1>5, <1>6, <2>1 DEF Losing, Replaces
<1>9. Losing(v) => v.value \subseteq Safe'
  <2>1. replaces => Losing(w)
    BY <1>1 DEF Losing, Replaces
  <2>2. Losing(w) => w.value \subseteq Safe'
    BY <1>7 DEF Fine, ShowsKept
  <2>3. replaces => edit \in Given'
    BY <1>3, <1>5, <1>7
  <2> QED
    BY <1>5, <1>7, <1>8, <2>1, <2>2, <2>3
<1>10. Fine(c, v)'
  <2>1. SaveKept(v)'
    BY <1>5, <1>7 DEF Fine, SaveKept
  <2>2. /\ v.saved = v.fingerprint /\ v.fingerprint \ v.value \subseteq Given'
        /\ v.fingerprint \subseteq Settled'
    BY <1>5, <1>7 DEF Fine, ShowsKept
  <2>3. w.value \ v.value \subseteq Given'
    BY <1>5
  <2> QED
    BY <1>5, <1>7, <1>9, <2>1, <2>2, <2>3, FineBeside
<1>11. 1 .. typed' \subseteq (1 .. typed) \cup v.value
  BY <1>1, <1>2, <1>5, <1>6
<1> QED
  BY <1>1, <1>3, <1>4, <1>5, <1>6, <1>7, <1>10, <1>11, KeptStep

\* What is undone is given up.
LEMMA UndoKept ==
    ASSUME IInv, KeptInv, NEW c \in Clients, Undo(c)
    PROVE  KeptInv'
<1>1. PICK w, v : w = client[c] /\ v = [w EXCEPT !.value = w.saved, !.generation = w.generation + 1]
  OBVIOUS
<1>2. w \in Window /\ w.generation \in Nat
  BY <1>1, TheWindow, WindowParts
<1>3. /\ v.step = w.step /\ v.value = w.saved /\ v.saved = w.saved
      /\ v.fingerprint = w.fingerprint /\ v.copied = w.copied /\ v.exposed = w.exposed
      /\ v.save = w.save
  BY <1>1, <1>2 DEF Window
<1>4. /\ Show(c, v) /\ UNCHANGED <<lease, draft, disk, typed, overwritten, continues>>
      /\ given_up' = given_up \cup (w.value \ w.saved)
  BY <1>1 DEF Undo, hostVars
<1>5. /\ Grows /\ Fine(c, w)' /\ \A k \in Clients : LeaseKept(k) /\ DraftStays(k)
      /\ given_up' \subseteq Given' /\ Given' \subseteq Settled' /\ Settled' \subseteq Safe'
  BY <1>1, <1>3, <1>4, KeptBeside
<1>6. w.value \ w.saved \subseteq Given'
  BY <1>4, <1>5
<1>7. w.saved = w.fingerprint /\ w.fingerprint \subseteq Settled'
  BY <1>5 DEF Fine, ShowsKept
<1>8. SaveKept(v)'
  BY <1>3, <1>5, <1>6 DEF Fine, SaveKept
<1>9. Fine(c, v)'
  BY <1>3, <1>5, <1>6, <1>7, <1>8, FineBeside
<1>10. w.value \subseteq Safe' \cup v.value
  BY <1>3, <1>5, <1>6
<1> QED
  BY <1>1, <1>4, <1>5, <1>9, <1>10, KeptStep

\* A window that closes, or whose session expired
LEMMA CloseWindowKept ==
    ASSUME IInv, KeptInv, NEW c \in Clients, CloseWindow(c)
    PROVE  KeptInv'
<1>1. PICK w : w = client[c]
  OBVIOUS
<1>2. /\ w \in Window /\ w.uploaded <= w.generation /\ w.window = "closing"
      /\ w.copied \in Texts /\ w.exposed \in Texts
  BY <1>1, TheWindow, WindowParts DEF CloseWindow
<1>3. UNCHANGED <<lease, draft, disk, typed, given_up, overwritten>>
  BY DEF CloseWindow, hostVars
<1>4. CASE Connected(w)
  <2>1. PICK v : v = [Opened EXCEPT !.window = "closed", !.link = "down",
                                    !.copied = w.copied, !.exposed = w.exposed]
    OBVIOUS
  <2>2. /\ v.step = NoStep /\ v.value = {} /\ v.saved = {} /\ v.fingerprint = {}
        /\ v.copied = w.copied /\ v.exposed = w.exposed /\ v.save = NoSave
    BY <2>1 DEF Opened
  <2>3. Show(c, v) /\ continues' = continues \ {c}
    BY <1>1, <1>4, <2>1 DEF CloseWindow
  <2>4. /\ Grows /\ Fine(c, w)' /\ \A k \in Clients : LeaseKept(k) /\ DraftStays(k)
    BY <1>1, <1>3, <2>2, <2>3, KeptBeside
  <2>5. ShowsKept(v)' /\ SaveKept(v)'
    BY <2>2, NoSaveKept DEF ShowsKept
  <2>6. StepKept(v)' /\ PutKept(c, v)' /\ DraftKept(c, v)'
    BY <2>2, <2>3, NoStepParts DEF StepKept, PutKept, DraftKept
  <2>7. w.value \subseteq Safe'
    BY <1>2, <2>4 DEF Fine, ShowsKept, Losing
  <2> QED
    BY <1>1, <1>3, <2>3, <2>4, <2>5, <2>6, <2>7, KeptStep DEF Fine
<1>5. CASE ~Connected(w)
  <2>1. PICK v : v = [w EXCEPT !.window = "open"]
    OBVIOUS
  <2>2. Quiet(v, w) /\ v.step = w.step
    BY <1>2, <2>1 DEF Window, Quiet, WindowStates
  <2>3. Show(c, v) /\ UNCHANGED <<hostVars, historyVars>>
    BY <1>1, <1>5, <2>1 DEF CloseWindow, historyVars
  <2>4. Follows(v, w)
    BY <1>2, <2>2, FollowsQuiet
  <2> QED
    BY <1>1, <2>3, <2>4, FollowingStep
<1> QED
  BY <1>4, <1>5

\* A connection that is lost loses no text; a reload it loses becomes a question again.
LEMMA DropKept ==
    ASSUME IInv, KeptInv, NEW c \in Clients, Drop(c)
    PROVE  KeptInv'
<1>1. PICK w : w = client[c]
  OBVIOUS
<1>2. /\ w \in Window /\ w.save \in SaveRecord /\ w.step \in StepRecord /\ w.reloads \in Nat
      /\ w.step.at \in StepPlaces /\ w.save.at \in SavePlaces
  BY <1>1, TheWindow, WindowParts, StepParts DEF SaveRecord
<1>3. PICK at, place, reloads :
         /\ at \in {"none", "done", "failed"} /\ place \in SavePlaces
         /\ place \in {"saved", "conflict", "asking", "reloading"} =>
                place = w.save.at \/ (place = "asking" /\ w.save.at = "reloading")
         /\ place \notin {"check", "force"}
         /\ reloads \in {0, w.reloads}
         /\ Show(c, [w EXCEPT !.link = "down", !.opening = Unknown, !.step.at = at,
                              !.save.at = place, !.reloads = reloads])
  <2>1. PICK lost \in BOOLEAN :
           Show(c, [w EXCEPT
                 !.link = "down", !.opening = Unknown,
                 !.step.at = IF @ = "none" \/ (@ = "done" /\ ~lost) THEN @ ELSE "failed",
                 !.save.at = IF @ \in {"check", "force"} \/ (@ \in {"saved", "conflict"} /\ lost)
                             THEN "failed"
                             ELSE IF @ = "reloading" /\ lost THEN "asking" ELSE @,
                 !.reloads = IF lost THEN 0 ELSE @])
    BY <1>1 DEF Drop
  <2> DEFINE at == IF w.step.at = "none" \/ (w.step.at = "done" /\ ~lost) THEN w.step.at ELSE "failed"
             place == IF w.save.at \in {"check", "force"} \/ (w.save.at \in {"saved", "conflict"} /\ lost)
                      THEN "failed"
                      ELSE IF w.save.at = "reloading" /\ lost THEN "asking" ELSE w.save.at
             reloads == IF lost THEN 0 ELSE w.reloads
  <2>2. at \in {"none", "done", "failed"} /\ place \in SavePlaces /\ reloads \in {0, w.reloads}
    BY <1>2 DEF SavePlaces
  <2>3. /\ place \in {"saved", "conflict", "asking", "reloading"} =>
               place = w.save.at \/ (place = "asking" /\ w.save.at = "reloading")
        /\ place \notin {"check", "force"}
    OBVIOUS
  <2>4. Show(c, [w EXCEPT !.link = "down", !.opening = Unknown, !.step.at = at,
                          !.save.at = place, !.reloads = reloads])
    BY <2>1
  <2> HIDE DEF at, place, reloads
  <2> QED
    BY <2>2, <2>3, <2>4
<1>4. PICK step, save : step = [w.step EXCEPT !.at = at] /\ save = [w.save EXCEPT !.at = place]
  OBVIOUS
<1>5. /\ step.at = at /\ step.kind = w.step.kind /\ step.text = w.step.text
      /\ step.fetched = w.step.fetched /\ step.uploaded = w.step.uploaded
      /\ step.epoch = w.step.epoch
  BY <1>2, <1>4 DEF StepRecord
<1>6. save.at = place /\ save.text = w.save.text /\ save.expected = w.save.expected
  BY <1>2, <1>4 DEF SaveRecord
<1>7. PICK v : v = [w EXCEPT !.link = "down", !.opening = Unknown, !.step = step, !.save = save,
                             !.reloads = reloads]
  OBVIOUS
<1>8. /\ v.step = step /\ v.value = w.value /\ v.saved = w.saved /\ v.fingerprint = w.fingerprint
      /\ v.copied = w.copied /\ v.exposed = w.exposed /\ v.save = save
      /\ v.generation = w.generation /\ v.uploaded = w.uploaded
      /\ v.held = w.held /\ v.reloads = reloads /\ v.window = w.window
  BY <1>2, <1>7 DEF Window
<1>9. Show(c, v)
  <2>1. v = [w EXCEPT !.link = "down", !.opening = Unknown, !.step.at = at, !.save.at = place,
                      !.reloads = reloads]
    BY <1>2, <1>4, <1>7 DEF Window, StepRecord, SaveRecord
  <2> QED
    BY <1>3, <2>1
<1>10. UNCHANGED <<lease, draft, disk, typed, given_up, overwritten, continues>>
  BY DEF Drop, hostVars, historyVars
<1>11. /\ Grows /\ Fine(c, w)' /\ \A k \in Clients : LeaseKept(k) /\ DraftStays(k)
  BY <1>1, <1>8, <1>9, <1>10, KeptBeside
<1>12. ShowsKept(v)'
  <2>1. Losing(v) => Losing(w)
    BY <1>2, <1>3, <1>5, <1>6, <1>8 DEF Losing
  <2> QED
    BY <1>8, <1>11, <2>1 DEF Fine, ShowsKept
<1>13. StepKept(v)' /\ PutKept(c, v)' /\ DraftKept(c, v)'
  BY <1>3, <1>5, <1>8, <1>11 DEF Fine, StepKept, PutKept, DraftKept
<1>14. SaveKept(v)'
  BY <1>3, <1>6, <1>8, <1>11 DEF Fine, SaveKept
<1>15. Fine(c, v)'
  BY <1>12, <1>13, <1>14 DEF Fine
<1> QED
  BY <1>1, <1>8, <1>9, <1>10, <1>11, <1>15, KeptStep

\* The parts of a text that replaces the one of a window
LEMMA ReplacedParts ==
    ASSUME NEW x \in Window, NEW f, f = Replaced(x)
    PROVE  /\ f \in Window
           /\ f.step = x.step /\ f.value = x.value /\ f.saved = x.saved
           /\ f.fingerprint = x.fingerprint /\ f.copied = x.copied /\ f.save = x.save
           /\ f.generation = x.generation /\ f.uploaded = x.uploaded
           /\ f.held = x.held /\ f.reloads = x.reloads /\ f.window = x.window
           /\ f.exposed \in {x.exposed, x.exposed \cup (x.save.text \ x.value)}
           /\ x.save.at \in {"check", "force", "saved", "conflict", "asking"} =>
                  x.save.text \ x.value \subseteq f.exposed
<1>1. PICK exposed : exposed = IF x.save.at \in {"none", "failed", "reloading", "stuck"} THEN x.exposed
                           ELSE x.exposed \cup (x.save.text \ x.value)
  OBVIOUS
<1>2. x.save \in SaveRecord /\ x.exposed \in Texts
  BY WindowParts
<1>3. exposed \in Texts
  BY <1>1, <1>2 DEF SaveRecord, Texts
<1>4. f = [x EXCEPT !.exposed = exposed]
  <2>1. x = [x EXCEPT !.exposed = x.exposed]
    BY DEF Window
  <2> QED
    BY <1>1, <2>1 DEF Replaced
<1>5. /\ f \in Window
      /\ f.step = x.step /\ f.value = x.value /\ f.saved = x.saved
      /\ f.fingerprint = x.fingerprint /\ f.copied = x.copied /\ f.save = x.save
      /\ f.generation = x.generation /\ f.uploaded = x.uploaded
      /\ f.held = x.held /\ f.reloads = x.reloads /\ f.window = x.window
      /\ f.exposed = exposed
  BY <1>3, <1>4 DEF Window
<1> QED
  BY <1>1, <1>5

\* The text that the file's replaces is safe: what made the window reload saw to it.
LEMMA ReloadDoneKept ==
    ASSUME IInv, KeptInv, NEW c \in Clients, ReloadDone(c)
    PROVE  KeptInv'
<1>1. PICK o, w : /\ o = client[c]
                  /\ w = [o EXCEPT !.exposed = IF lease.holder = c THEN @ \cup o.value ELSE @]
  OBVIOUS
<1>2. /\ o \in Window /\ o.exposed \in Texts /\ o.value \in Texts /\ o.save \in SaveRecord
      /\ o.reloads \in Nat /\ o.generation + 1 \in Nat /\ disk \in Texts
  BY <1>1, TheWindow, WindowParts, Context DEF HostFits
<1>3. /\ w \in Window /\ w.step = o.step /\ w.copied = o.copied /\ w.save = o.save
      /\ w.generation = o.generation /\ w.reloads = o.reloads
      /\ w.exposed = IF lease.holder = c THEN o.exposed \cup o.value ELSE o.exposed
  <2>1. PICK exposed : exposed = IF lease.holder = c THEN o.exposed \cup o.value ELSE o.exposed
    OBVIOUS
  <2>2. exposed \in Texts
    BY <1>2, <2>1 DEF Texts
  <2>3. w = [o EXCEPT !.exposed = exposed]
    BY <1>1, <2>1
  <2> QED
    BY <1>2, <2>1, <2>2, <2>3 DEF Window
<1>4. PICK k : k = IF w.save.at \in {"asking", "stuck"} THEN NoSave ELSE w.save
  OBVIOUS
<1>5. PICK x : x = [w EXCEPT !.value = disk, !.saved = disk, !.fingerprint = disk,
                             !.external_dirty = FALSE, !.generation = @ + 1, !.save = k]
  OBVIOUS
<1>6. /\ x \in Window /\ x.step = w.step /\ x.value = disk /\ x.saved = disk
      /\ x.fingerprint = disk /\ x.copied = w.copied /\ x.exposed = w.exposed /\ x.save = k
      /\ x.reloads = w.reloads
  <2>1. k \in SaveRecord /\ w.generation + 1 \in Nat
    BY <1>2, <1>3, <1>4, NoSaveParts
  <2> QED
    BY <1>2, <1>3, <1>5, <2>1 DEF Window
<1>7. PICK f : f = FromDisk(w)
  OBVIOUS
<1>8. /\ f \in Window /\ f.step = o.step /\ f.value = disk /\ f.saved = disk
      /\ f.fingerprint = disk /\ f.copied = o.copied /\ f.save = k
      /\ w.exposed \subseteq f.exposed /\ f.reloads = o.reloads
      /\ k.at \in {"check", "force", "saved", "conflict", "asking"} =>
             k.text \ disk \subseteq f.exposed
  <2>1. f = Replaced(x)
    BY <1>4, <1>5, <1>7 DEF FromDisk
  <2> QED
    BY <1>3, <1>6, <2>1, ReplacedParts
<1>9. PICK v : /\ Show(c, v)
               /\ \/ v = [f EXCEPT !.reloads = f.reloads - 1] /\ f.reloads > 0
                  \/ v = [f EXCEPT !.save = NoSave] /\ o.save.at = "reloading"
  <2>1. \/ f.reloads > 0 /\ Show(c, [f EXCEPT !.reloads = @ - 1])
        \/ o.save.at = "reloading" /\ Show(c, [f EXCEPT !.save = NoSave])
    BY <1>1, <1>3, <1>7, <1>8 DEF ReloadDone
  <2> QED
    BY <2>1
<1>10. /\ v.step = o.step /\ v.value = disk /\ v.saved = disk /\ v.fingerprint = disk
       /\ v.copied = o.copied /\ v.exposed = f.exposed /\ v.save \in {NoSave, k}
  <2> DEFINE Reloaded(n) ==
                /\ n.step = f.step /\ n.value = f.value /\ n.saved = f.saved
                /\ n.fingerprint = f.fingerprint /\ n.copied = f.copied /\ n.exposed = f.exposed
  <2>1. f \in Window
    BY <1>8
  <2>2. LET n == [f EXCEPT !.reloads = f.reloads - 1] IN Reloaded(n) /\ n.save = f.save
    BY <2>1 DEF Window
  <2>3. LET n == [f EXCEPT !.save = NoSave] IN Reloaded(n) /\ n.save = NoSave
    BY <2>1 DEF Window
  <2> HIDE DEF Reloaded
  <2>4. Reloaded(v) /\ v.save \in {f.save, NoSave}
    BY <1>9, <2>2, <2>3
  <2> QED
    BY <1>8, <2>4 DEF Reloaded
<1>11. /\ UNCHANGED <<lease, draft, disk, typed, given_up, overwritten>>
       /\ continues' = continues \ {c}
  BY DEF ReloadDone, hostVars
<1>12. o.exposed \subseteq v.exposed /\ o.copied \subseteq v.copied
  BY <1>3, <1>8, <1>10
<1>13. Grows /\ \A m \in Clients : LeaseKept(m) /\ DraftStays(m)
  BY <1>1, <1>9, <1>11, <1>12, KeptBeside
<1>14. /\ Fine(c, o)' /\ v.exposed \subseteq Given' /\ Given' \subseteq Settled'
       /\ Settled' \subseteq Safe' /\ disk' \subseteq Settled'
  BY <1>1, <1>9, <1>11, <1>12, KeptBeside
<1>15. ShowsKept(v)'
  BY <1>10, <1>11, <1>14 DEF ShowsKept
<1>16. StepKept(v)' /\ DraftKept(c, v)'
  BY <1>10, <1>11, <1>14 DEF Fine, StepKept, DraftKept
<1>17. PutKept(c, v)'
  <2>1. SUFFICES ASSUME o.step.at = "put", HoldsLeaseOf(c, o.step.epoch)'
                 PROVE  o.step.text \ disk \subseteq Given'
    BY <1>10, <1>11 DEF PutKept
  <2>2. o.step.text \ o.value \subseteq Given'
    BY <1>14, <2>1 DEF Fine, PutKept
  <2>3. lease.holder = c
    BY <1>11, <2>1 DEF HoldsLeaseOf
  <2>4. o.value \subseteq Given'
    BY <1>3, <1>8, <1>10, <1>14, <2>3
  <2> QED
    BY <2>2, <2>4
<1>18. SaveKept(v)'
  <2>1. CASE v.save = NoSave
    BY <2>1, NoSaveKept
  <2>2. CASE v.save = o.save /\ k = o.save
    BY <1>8, <1>10, <1>14, <2>2 DEF Fine, SaveKept
  <2> QED
    BY <1>3, <1>4, <1>10, <2>1, <2>2
<1>19. Fine(c, v)'
  BY <1>15, <1>16, <1>17, <1>18 DEF Fine
<1>20. o.value \subseteq Safe'
  <2>1. Losing(o)
    BY <1>8, <1>9 DEF Losing
  <2> QED
    BY <1>14, <2>1 DEF Fine, ShowsKept
<1> QED
  BY <1>1, <1>9, <1>11, <1>13, <1>19, <1>20, KeptStep

-----------------------------------------------------------------------------
(* The Host's steps.                                                       *)

\* A session that expires takes the lease and leaves the draft.
LEMMA ExpireKept ==
    ASSUME IInv, KeptInv, NEW c \in Clients, Expire(c)
    PROVE  KeptInv'
<1>1. PICK w : w = client[c]
  OBVIOUS
<1>2. /\ lease' = NoLease
      /\ UNCHANGED <<draft, disk, client, typed, given_up, overwritten, continues>>
  BY DEF Expire, historyVars
<1>3. Show(c, w)
  <2>1. client \in [Clients -> Window]
    BY Context DEF WindowsFit
  <2>2. client = [client EXCEPT ![c] = w]
    BY <1>1, <2>1
  <2> QED
    BY <1>2, <2>2 DEF Show
<1>4. Grows
  BY <1>2 DEF Grows, Settled, Safe, Given
<1>5. \A k \in Clients : LeaseKept(k) /\ DraftStays(k)
  BY <1>2, EditingAssumption DEF LeaseKept, HoldsLeaseOf, NoLease, DraftStays
<1>6. Fine(c, w) /\ Good(c, w)
  BY <1>1, Context DEF KeptInv
<1>7. Fine(c, w)'
  BY <1>4, <1>5, <1>6, FineGrows
<1> QED
  BY <1>1, <1>2, <1>3, <1>4, <1>5, <1>7, KeptStep

\* A window of which only the step changes
LEMMA FineStep ==
    ASSUME NEW c, NEW w \in Window, NEW s \in StepRecord, NEW v, v = [w EXCEPT !.step = s],
           ShowsKept(w)', SaveKept(w)', s.kind = w.step.kind,
           StepKept(v)', DraftKept(c, v)', PutKept(c, v)'
    PROVE  Fine(c, v)'
<1>1. /\ v.value = w.value /\ v.saved = w.saved /\ v.fingerprint = w.fingerprint
      /\ v.generation = w.generation /\ v.uploaded = w.uploaded /\ v.save = w.save
      /\ v.held = w.held /\ v.reloads = w.reloads /\ v.window = w.window /\ v.step = s
  BY DEF Window
<1>2. Losing(v) => Losing(w)
  BY <1>1 DEF Losing
<1>3. ShowsKept(v)' /\ SaveKept(v)'
  BY <1>1, <1>2 DEF ShowsKept, SaveKept
<1> QED
  BY <1>3 DEF Fine

\* A lease that is granted is nobody else's; the draft stays.
LEMMA AcquireKept ==
    ASSUME IInv, KeptInv, NEW c \in Clients, AcquireDocument(c)
    PROVE  KeptInv'
<1>1. PICK w, s, answer : w = client[c] /\ s = w.step /\ answer = State(lease', draft)
  OBVIOUS
<1>2. /\ w \in Window /\ s \in StepRecord /\ StepFits(c, w) /\ Good(c, w)
      /\ next_epoch \in Nat /\ lease \in Lease /\ draft \in Draft
  BY <1>1, TheWindow, Context DEF HostFits
<1>3. PICK at \in {"get", "done"} :
         /\ s.at = "acquire"
         /\ at = "get" => s.kind \in {"takeover", "recover"}
         /\ Show(c, [w EXCEPT !.step.at = at, !.step.answer = answer])
  <2>1. PICK at : at = IF s.kind \in {"takeover", "recover"} /\ lease'.holder = c /\ draft # NoDraft
                       THEN "get" ELSE "done"
    OBVIOUS
  <2>2. Show(c, [w EXCEPT !.step.at = at, !.step.answer = answer]) /\ s.at = "acquire"
    BY <1>1, <2>1 DEF AcquireDocument, Answer
  <2> QED
    BY <2>1, <2>2
<1>4. UNCHANGED <<draft, disk, typed, given_up, overwritten, continues>>
  BY DEF AcquireDocument, historyVars
<1>5. lease' = [holder |-> c, epoch |-> next_epoch] \/ lease' = lease
  BY DEF AcquireDocument
<1>6. PICK n, v : n = [s EXCEPT !.at = at, !.answer = answer] /\ v = [w EXCEPT !.step = n]
  OBVIOUS
<1>7. /\ n \in StepRecord /\ n.at = at /\ n.kind = s.kind /\ n.text = s.text
      /\ n.fetched = s.fetched /\ n.uploaded = s.uploaded
  <2>1. answer \in HostState
    <3>1. lease' \in Lease
      BY <1>2, <1>5 DEF Lease
    <3> QED
      BY <1>1, <1>2, <3>1 DEF State, HostState, Lease, Draft
  <2> QED
    BY <1>2, <1>6, <2>1 DEF StepRecord, StepPlaces
<1>8. v.step = n /\ v.value = w.value /\ v.exposed = w.exposed /\ v.copied = w.copied
  BY <1>2, <1>6, <1>7, WithStep
<1>9. Show(c, v)
  <2>1. [w EXCEPT !.step.at = at, !.step.answer = answer] = [w EXCEPT !.step = n]
    BY <1>1, <1>2, <1>6 DEF Window, StepRecord
  <2> QED
    BY <1>3, <1>6, <2>1
<1>10. Grows
  <2>1. Given \subseteq Given'
    BY <1>1, <1>4, <1>8, <1>9, GivenGrows
  <2> QED
    BY <1>4, <2>1 DEF Grows, Settled, Safe
<1>11. \A k \in Clients : LeaseKept(k) /\ DraftStays(k)
  <2>1. \A k \in Clients : LeaseKept(k)
    BY <1>2, <1>5 DEF LeaseKept, HoldsLeaseOf
  <2> QED
    BY <1>4, <2>1 DEF DraftStays
<1>12. Fine(c, w)'
  <2>1. Fine(c, w)
    BY <1>1 DEF KeptInv
  <2> QED
    BY <1>2, <1>10, <1>11, <2>1, FineGrows
<1>13. StepKept(v)' /\ DraftKept(c, v)' /\ PutKept(c, v)'
  BY <1>1, <1>3, <1>7, <1>8, <1>12 DEF Fine, StepKept, DraftKept, PutKept
<1>14. ShowsKept(w)' /\ SaveKept(w)'
  BY <1>12 DEF Fine
<1>15. Fine(c, v)'
  BY <1>1, <1>2, <1>6, <1>7, <1>13, <1>14, FineStep
<1> QED
  BY <1>1, <1>4, <1>8, <1>9, <1>10, <1>11, <1>15, KeptStep

\* The draft that is stored has what the one before it had, or counts it as overwritten.
LEMMA PutKeptStep ==
    ASSUME IInv, KeptInv, NEW c \in Clients, PutDocumentDraft(c)
    PROVE  KeptInv'
<1>1. PICK w, s : w = client[c] /\ s = w.step
  OBVIOUS
<1>2. /\ w \in Window /\ s \in StepRecord /\ StepFits(c, w) /\ Good(c, w) /\ Fine(c, w)
      /\ draft \in Draft /\ lease \in Lease /\ overwritten \in Texts
  BY <1>1, TheWindow, Context DEF HostFits, HistoryFits, KeptInv
<1>3. /\ s.at = "put" /\ s.kind = "upload" /\ s.fetched.revision = 0
      /\ UNCHANGED <<lease, disk, typed, given_up>>
  <2>1. s.at = "put"
    BY <1>1 DEF PutDocumentDraft
  <2> QED
    BY <1>1, <1>2, <2>1 DEF PutDocumentDraft, StepFits
<1>4. CASE HoldsLease(c)
  <2>1. PICK answer : answer = State(lease, draft')
    OBVIOUS
  <2>2. /\ draft' = [revision |-> s.generation, text |-> s.text]
        /\ Show(c, [w EXCEPT !.step.at = "done", !.step.uploaded = s.generation,
                             !.step.answer = answer])
        /\ overwritten' = overwritten \cup Overwritten(c, s.text)
        /\ continues' = {c}
    BY <1>1, <1>4, <2>1 DEF PutDocumentDraft
  <2>3. draft'.text = s.text /\ answer \in HostState /\ s.generation \in Nat
    BY <1>2, <2>1, <2>2, StepParts DEF State, HostState, Lease
  <2>4. PICK n, v : /\ n = [s EXCEPT !.at = "done", !.uploaded = s.generation, !.answer = answer]
                    /\ v = [w EXCEPT !.step = n]
    OBVIOUS
  <2>5. /\ n \in StepRecord /\ n.at = "done" /\ n.kind = s.kind /\ n.text = s.text
        /\ n.fetched = s.fetched
    BY <1>2, <2>3, <2>4 DEF StepRecord, StepPlaces
  <2>6. v.step = n /\ v.value = w.value /\ v.exposed = w.exposed /\ v.copied = w.copied
    BY <1>2, <2>4, <2>5, WithStep
  <2>7. Show(c, v)
    <3>1. [w EXCEPT !.step.at = "done", !.step.uploaded = s.generation, !.step.answer = answer]
             = [w EXCEPT !.step = n]
      BY <1>1, <1>2, <2>4 DEF Window, StepRecord
    <3> QED
      BY <2>2, <2>4, <3>1
  <2>8. Given \subseteq Given' /\ overwritten' \subseteq Given'
    BY <1>1, <1>3, <2>2, <2>6, <2>7, GivenGrows
  <2>9. draft.text \subseteq draft'.text \cup Given'
    <3>1. CASE c \in continues
      <4>1. draft.text \ s.text \subseteq Given
        BY <1>1, <1>2, <1>3, <3>1 DEF Fine, DraftKept
      <4> QED
        BY <2>3, <2>8, <4>1
    <3>2. CASE c \notin continues
      <4>1. Overwritten(c, s.text) = draft.text \ s.text
        BY <3>2 DEF Overwritten
      <4> QED
        BY <2>2, <2>3, <2>8, <4>1
    <3> QED
      BY <3>1, <3>2
  <2>10. Grows
    BY <1>3, <2>8, <2>9 DEF Grows, Settled, Safe
  <2>11. ShowsKept(w)' /\ StepKept(w)' /\ SaveKept(w)'
    BY <1>2, <2>10, PartsGrow
  <2>12. StepKept(v)' /\ PutKept(c, v)'
    <3>1. n.text \subseteq Safe'
      BY <2>3, <2>5 DEF Safe
    <3> QED
      BY <1>1, <1>3, <2>5, <2>6, <2>11, <3>1 DEF StepKept, PutKept
  <2>13. DraftKept(c, v)'
    <3>1. s.text \ w.value \subseteq Given
      BY <1>1, <1>2, <1>3, <1>4 DEF Fine, PutKept, HoldsLease
    <3> QED
      BY <1>3, <2>3, <2>5, <2>6, <2>8, <3>1 DEF DraftKept
  <2>14. Fine(c, v)'
    BY <1>1, <1>2, <2>4, <2>5, <2>11, <2>12, <2>13, FineStep
  <2>15. \A k \in Clients \ {c} : LeaseKept(k) /\ DraftStays(k)
    BY <1>3, <2>2 DEF LeaseKept, HoldsLeaseOf, DraftStays
  <2> QED
    BY <1>1, <1>3, <2>6, <2>7, <2>10, <2>14, <2>15, KeptStep
<1>5. CASE ~HoldsLease(c)
  <2>1. /\ Show(c, [w EXCEPT !.step.at = "acquire"])
        /\ UNCHANGED <<draft, overwritten, continues>>
    BY <1>1, <1>5 DEF PutDocumentDraft
  <2>2. PICK n, v : n = [s EXCEPT !.at = "acquire"] /\ v = [w EXCEPT !.step = n]
    OBVIOUS
  <2>3. /\ n \in StepRecord /\ n.at = "acquire" /\ n.kind = s.kind /\ n.text = s.text
        /\ n.fetched = s.fetched /\ n.uploaded = s.uploaded
    BY <1>2, <2>2 DEF StepRecord, StepPlaces
  <2>4. v.step = n /\ v.value = w.value /\ v.exposed = w.exposed /\ v.copied = w.copied
    BY <1>2, <2>2, <2>3, WithStep
  <2>5. Show(c, v)
    <3>1. [w EXCEPT !.step.at = "acquire"] = [w EXCEPT !.step = n]
      BY <1>1, <1>2, <2>2 DEF Window, StepRecord
    <3> QED
      BY <2>1, <2>2, <3>1
  <2>6. Grows /\ Fine(c, w)' /\ \A k \in Clients : LeaseKept(k) /\ DraftStays(k)
    BY <1>1, <1>3, <2>1, <2>4, <2>5, KeptBeside
  <2>7. StepKept(v)' /\ DraftKept(c, v)' /\ PutKept(c, v)' /\ ShowsKept(w)' /\ SaveKept(w)'
    BY <1>1, <2>3, <2>4, <2>6 DEF Fine, StepKept, DraftKept, PutKept
  <2>8. Fine(c, v)'
    BY <1>1, <1>2, <2>2, <2>3, <2>7, FineStep
  <2> QED
    BY <1>1, <1>3, <2>1, <2>4, <2>5, <2>6, <2>8, KeptStep
<1> QED
  BY <1>4, <1>5

\* The draft that is released is settled, or counts as overwritten.
LEMMA ReleaseKept ==
    ASSUME IInv, KeptInv, NEW c \in Clients, ReleaseDocument(c)
    PROVE  KeptInv'
<1>1. PICK w, s, answer : w = client[c] /\ s = w.step /\ answer = State(lease', draft')
  OBVIOUS
<1>2. /\ w \in Window /\ s \in StepRecord /\ StepFits(c, w) /\ Good(c, w) /\ Fine(c, w)
      /\ draft \in Draft /\ lease \in Lease /\ overwritten \in Texts
  BY <1>1, TheWindow, Context DEF HostFits, HistoryFits, KeptInv
<1>3. /\ s.at = "release" /\ UNCHANGED <<disk, typed, given_up>>
      /\ Show(c, [w EXCEPT !.step.at = "done", !.step.answer = answer])
      /\ \/ /\ lease' = NoLease /\ draft' = NoDraft
            /\ overwritten' = overwritten \cup Overwritten(c, {})
            /\ continues' = {}
         \/ UNCHANGED <<lease, draft, continues, overwritten>>
  BY <1>1 DEF ReleaseDocument, Answer
<1>4. PICK n, v : n = [s EXCEPT !.at = "done", !.answer = answer] /\ v = [w EXCEPT !.step = n]
  OBVIOUS
<1>5. /\ n \in StepRecord /\ n.at = "done" /\ n.kind = s.kind /\ n.text = s.text
      /\ n.fetched = s.fetched /\ n.uploaded = s.uploaded
  <2>1. lease' \in Lease /\ draft' \in Draft
    BY <1>2, <1>3 DEF NoLease, NoDraft, Lease, Draft, Texts
  <2>2. answer \in HostState
    BY <1>1, <2>1 DEF State, HostState, Lease, Draft
  <2> QED
    BY <1>2, <1>4, <2>2 DEF StepRecord, StepPlaces
<1>6. v.step = n /\ v.value = w.value /\ v.exposed = w.exposed /\ v.copied = w.copied
  BY <1>2, <1>4, <1>5, WithStep
<1>7. Show(c, v)
  <2>1. [w EXCEPT !.step.at = "done", !.step.answer = answer] = [w EXCEPT !.step = n]
    BY <1>1, <1>2, <1>4 DEF Window, StepRecord
  <2> QED
    BY <1>3, <1>4, <2>1
<1>8. overwritten \subseteq overwritten'
  BY <1>3
<1>9. Given \subseteq Given' /\ overwritten' \subseteq Given'
  BY <1>1, <1>3, <1>6, <1>7, <1>8, GivenGrows
<1>10. draft.text \subseteq draft'.text \cup disk' \cup Given'
  <2>1. CASE draft' = draft
    BY <2>1
  <2>2. CASE c \in continues
    <3>1. draft.text \subseteq Settled
      BY <1>1, <1>2, <1>3, <2>2 DEF Fine, DraftKept
    <3> QED
      BY <1>3, <1>9, <3>1 DEF Settled
  <2>3. CASE c \notin continues /\ overwritten' = overwritten \cup Overwritten(c, {})
    <3>1. Overwritten(c, {}) = draft.text
      BY <2>3 DEF Overwritten
    <3> QED
      BY <1>9, <2>3, <3>1
  <2> QED
    BY <1>3, <2>1, <2>2, <2>3
<1>11. Grows
  BY <1>3, <1>9, <1>10 DEF Grows, Settled, Safe
<1>12. \A k \in Clients : LeaseKept(k) /\ DraftStays(k)
  BY <1>3, EditingAssumption DEF LeaseKept, HoldsLeaseOf, NoLease, DraftStays
<1>13. Fine(c, w)'
  BY <1>2, <1>11, <1>12, FineGrows
<1>14. StepKept(v)' /\ DraftKept(c, v)' /\ PutKept(c, v)' /\ ShowsKept(w)' /\ SaveKept(w)'
  BY <1>1, <1>3, <1>5, <1>6, <1>13 DEF Fine, StepKept, DraftKept, PutKept
<1>15. Fine(c, v)'
  BY <1>1, <1>2, <1>4, <1>5, <1>14, FineStep
<1> QED
  BY <1>1, <1>3, <1>6, <1>7, <1>11, <1>12, <1>15, KeptStep

\* The draft that is fetched is the stored one.
LEMMA GetKept ==
    ASSUME IInv, KeptInv, NEW c \in Clients, GetDocumentDraft(c)
    PROVE  KeptInv'
<1>1. PICK w, s : w = client[c] /\ s = w.step
  OBVIOUS
<1>2. /\ w \in Window /\ s \in StepRecord /\ Good(c, w) /\ Fine(c, w) /\ draft \in Draft
  BY <1>1, TheWindow, Context DEF HostFits, KeptInv
<1>3. /\ s.at = "get"
      /\ UNCHANGED <<lease, draft, disk, typed, given_up, overwritten, continues>>
  BY <1>1 DEF GetDocumentDraft, hostVars, historyVars
<1>4. PICK at \in {"done", "failed"}, d \in {draft, s.fetched} :
         Show(c, [w EXCEPT !.step = [s EXCEPT !.at = at, !.fetched = d]])
  <2>1. CASE draft = NoDraft
    <3>1. Show(c, [w EXCEPT !.step.at = "failed"])
      BY <1>1, <2>1 DEF GetDocumentDraft
    <3>2. [s EXCEPT !.at = "failed"] = [s EXCEPT !.at = "failed", !.fetched = s.fetched]
      BY <1>2 DEF StepRecord
    <3>3. [w EXCEPT !.step.at = "failed"]
             = [w EXCEPT !.step = [s EXCEPT !.at = "failed", !.fetched = s.fetched]]
      BY <1>1, <1>2, <3>2 DEF Window, StepRecord
    <3> QED
      BY <3>1, <3>3
  <2>2. CASE draft # NoDraft
    <3>1. Show(c, [w EXCEPT !.step.at = "done", !.step.fetched = draft])
      BY <1>1, <2>2 DEF GetDocumentDraft
    <3>2. [w EXCEPT !.step.at = "done", !.step.fetched = draft]
             = [w EXCEPT !.step = [s EXCEPT !.at = "done", !.fetched = draft]]
      BY <1>1, <1>2 DEF Window, StepRecord
    <3> QED
      BY <3>1, <3>2
  <2> QED
    BY <2>1, <2>2
<1>5. PICK n, v : n = [s EXCEPT !.at = at, !.fetched = d] /\ v = [w EXCEPT !.step = n]
  OBVIOUS
<1>6. /\ n \in StepRecord /\ n.at = at /\ n.kind = s.kind /\ n.text = s.text
      /\ n.fetched = d /\ n.uploaded = s.uploaded
  <2>1. d \in Draft
    BY <1>2, <1>4, StepParts
  <2> QED
    BY <1>2, <1>4, <1>5, <2>1 DEF StepRecord, StepPlaces
<1>7. v.step = n /\ v.value = w.value /\ v.exposed = w.exposed /\ v.copied = w.copied
  BY <1>2, <1>5, <1>6, WithStep
<1>8. Show(c, v)
  BY <1>4, <1>5
<1>9. Grows /\ Fine(c, w)' /\ \A k \in Clients : LeaseKept(k) /\ DraftStays(k)
  BY <1>1, <1>3, <1>7, <1>8, KeptBeside
<1>10. StepKept(v)'
  <2>1. draft.text \subseteq Safe'
    BY <1>3 DEF Safe
  <2> QED
    BY <1>1, <1>3, <1>4, <1>6, <1>7, <1>9, <2>1 DEF Fine, StepKept
<1>11. DraftKept(c, v)' /\ PutKept(c, v)' /\ ShowsKept(w)' /\ SaveKept(w)'
  BY <1>1, <1>3, <1>4, <1>6, <1>7, <1>9 DEF Fine, DraftKept, PutKept
<1>12. Fine(c, v)'
  BY <1>1, <1>2, <1>5, <1>6, <1>10, <1>11, FineStep
<1> QED
  BY <1>1, <1>3, <1>7, <1>8, <1>9, <1>12, KeptStep

-----------------------------------------------------------------------------
(* Applying what a step brought.                                           *)

\* An answer leaves what a window shows, and whether it is about to lose it.
LEMMA AnsweredStays ==
    ASSUME NEW c \in Clients, NEW r \in Window, NEW s \in StepRecord,
           NEW a, a = Answered(c, r, s)
    PROVE  /\ a \in Window /\ a.step = r.step /\ Alike(a, r)
           /\ a.uploaded \in {0, r.uploaded} \/ (s.uploaded # 0 /\ a.uploaded = s.uploaded)
           /\ a.held => r.held
           /\ a.reloads = r.reloads /\ a.window = r.window
<1> DEFINE mine == s.answer.holder = c
           epoch == IF mine THEN s.answer.epoch ELSE r.lease_epoch
           stored == IF s.uploaded # 0 THEN s.uploaded
                     ELSE IF mine /\ r.lease_epoch # s.answer.epoch THEN 0 ELSE r.uploaded
           k == [r EXCEPT !.host = s.answer, !.lease_epoch = epoch, !.uploaded = stored,
                          !.held = @ /\ ~mine]
<1>1. a = k \/ a = [k EXCEPT !.lease_epoch = 0, !.uploaded = 0]
  BY DEF Answered
<1>2. epoch \in Nat /\ stored \in Nat /\ s.answer \in HostState
  BY WindowParts, StepParts
<1>3. stored \in {0, r.uploaded} \/ (s.uploaded # 0 /\ stored = s.uploaded)
  OBVIOUS
<1> HIDE DEF epoch, stored, mine
<1>4. /\ k \in Window /\ k.step = r.step /\ Alike(k, r) /\ k.uploaded = stored
      /\ k.held => r.held
      /\ k.reloads = r.reloads /\ k.window = r.window
  BY <1>2 DEF Window, Alike
<1> HIDE DEF k
<1>5. LET n == [k EXCEPT !.lease_epoch = 0, !.uploaded = 0] IN
      /\ n \in Window /\ n.step = k.step /\ Alike(n, k) /\ n.uploaded = 0
      /\ n.held = k.held /\ n.reloads = k.reloads /\ n.window = k.window
  BY <1>4 DEF Window, Alike
<1> QED
  BY <1>1, <1>3, <1>4, <1>5 DEF Alike

\* An answer leaves the text, and makes the window no more likely to lose it, unless the text
\* is the one the step stored.
LEMMA AnsweredRests ==
    ASSUME NEW c \in Clients, NEW w \in Window, StepFits(c, w), w.uploaded <= w.generation,
           NEW s, s = w.step, s.at = "done",
           NEW r \in Window, r.step = NoStep, Alike(r, w), r.uploaded = w.uploaded,
           r.held = w.held, r.reloads = w.reloads, r.window = w.window,
           NEW a, a = r \/ a = Answered(c, r, s)
    PROVE  /\ a \in Window /\ a.step = NoStep /\ Alike(a, w) /\ a.uploaded <= a.generation
           /\ Losing(a) => Losing(w) \/ (s.uploaded # 0 /\ s.text = w.value)
<1>1. PICK step : step = s
  OBVIOUS
<1>2. /\ s \in StepRecord /\ w.generation \in Nat /\ w.uploaded \in Nat /\ s.uploaded \in Nat
      /\ s.generation \in Nat
  BY WindowParts, StepParts
<1>3. /\ a \in Window /\ a.step = NoStep /\ Alike(a, w)
      /\ a.held => w.held
      /\ a.reloads = w.reloads /\ a.window = w.window
      /\ a.uploaded \in {0, w.uploaded} \/ (s.uploaded # 0 /\ a.uploaded = s.uploaded)
  <2>1. CASE a = r
    BY <2>1
  <2>2. CASE a = Answered(c, r, s)
    <3>1. step \in StepRecord /\ a = Answered(c, r, step)
      BY <1>1, <1>2, <2>2
    <3>2. /\ a \in Window /\ a.step = r.step /\ Alike(a, r)
          /\ a.uploaded \in {0, r.uploaded} \/ (step.uploaded # 0 /\ a.uploaded = step.uploaded)
          /\ a.held => r.held
          /\ a.reloads = r.reloads /\ a.window = r.window
      BY <3>1, AnsweredStays
    <3> QED
      BY <1>1, <3>2 DEF Alike
  <2> QED
    BY <2>1, <2>2
<1>4. s.uploaded # 0 => /\ s.kind = "upload" /\ s.uploaded = s.generation
                        /\ s.generation <= w.generation
                        /\ s.generation = w.generation => s.text = w.value
  BY DEF StepFits
<1>5. a.uploaded <= a.generation
  BY <1>2, <1>3, <1>4 DEF Alike
<1>6. Losing(a) => Losing(w) \/ (s.uploaded # 0 /\ s.text = w.value)
  BY <1>2, <1>3, <1>4, NoStepParts DEF Losing, Alike
<1> QED
  BY <1>3, <1>5, <1>6

\* A draft that becomes the text of the window
LEMMA RestoredParts ==
    ASSUME NEW a \in Window, NEW d \in Draft, d.revision # 0, a.lease_epoch # 0,
           NEW x, x = Fetched(a, d)
    PROVE  /\ x \in Window /\ x.step = a.step /\ x.value = d.text /\ x.saved = a.saved
           /\ x.fingerprint = a.fingerprint /\ x.copied = a.copied /\ a.exposed \subseteq x.exposed
           /\ x.uploaded <= x.generation /\ x.save \in {NoSave, a.save}
           /\ x.save.at \in {"check", "force", "saved", "conflict", "asking"} =>
                  x.save.text \ d.text \subseteq x.exposed
<1>1. PICK g, save, u : /\ g = IF a.generation > d.revision THEN a.generation ELSE d.revision
                        /\ save = IF a.save.at = "stuck" THEN NoSave ELSE a.save
                        /\ u = IF g = d.revision THEN g ELSE 0
  OBVIOUS
<1>2. g \in Nat /\ u \in Nat /\ u <= g /\ save \in SaveRecord /\ save \in {NoSave, a.save}
  <2>1. a.generation \in Nat /\ d.revision \in Nat /\ a.save \in SaveRecord
    BY WindowParts DEF Draft
  <2> QED
    BY <1>1, <2>1, NoSaveParts
<1>3. PICK y : y = [a EXCEPT !.shown_draft = d.revision, !.value = d.text, !.generation = g,
                             !.external_dirty = TRUE, !.save = save, !.uploaded = u]
  OBVIOUS
<1>4. x = Replaced(y)
  BY <1>1, <1>3 DEF Fetched
<1>5. /\ y \in Window /\ y.step = a.step /\ y.value = d.text /\ y.saved = a.saved
      /\ y.fingerprint = a.fingerprint /\ y.copied = a.copied /\ y.exposed = a.exposed
      /\ y.uploaded = u /\ y.generation = g /\ y.save = save
  <2>1. d.revision \in Nat /\ d.text \in Texts
    BY DEF Draft
  <2> QED
    BY <1>2, <1>3, <2>1 DEF Window
<1> QED
  BY <1>2, <1>4, <1>5, ReplacedParts

\* A window that rests shows what it showed, or a draft that was fetched.
LEMMA FineRests ==
    ASSUME NEW c, NEW x, x.step = NoStep, ShowsKept(x)', SaveKept(x)',
           c \in continues' => draft'.text \ x.value \subseteq Given'
    PROVE  Fine(c, x)'
<1>1. StepKept(x)' /\ DraftKept(c, x)' /\ PutKept(c, x)'
  BY NoStepParts DEF StepKept, DraftKept, PutKept
<1> QED
  BY <1>1 DEF Fine

\* What a window may still show when another Client's draft hides its text
LEMMA FineHeld ==
    ASSUME NEW c, NEW a \in Window, NEW d \in Draft, d.revision # 0, a.lease_epoch = 0,
           NEW x, x = Fetched(a, d), a.step = NoStep,
           a.uploaded <= a.generation, ShowsKept(a)', SaveKept(a)', a.value \subseteq Safe',
           c \in continues' => draft'.text \ a.value \subseteq Given'
    PROVE  /\ x \in Window /\ x.uploaded <= x.generation /\ x.value = a.value
           /\ x.exposed = a.exposed /\ x.copied = a.copied
           /\ Fine(c, x)'
<1>1. x = [a EXCEPT !.shown_draft = d.revision, !.held = TRUE] /\ d.revision \in Nat
  BY DEF Fetched, Draft
<1>2. /\ x \in Window /\ x.uploaded = a.uploaded /\ x.generation = a.generation
      /\ x.value = a.value /\ x.saved = a.saved /\ x.fingerprint = a.fingerprint
      /\ x.exposed = a.exposed /\ x.copied = a.copied /\ x.save = a.save /\ x.step = a.step
  BY <1>1 DEF Window
<1>3. ShowsKept(x)' /\ SaveKept(x)'
  BY <1>2 DEF ShowsKept, SaveKept
<1> QED
  BY <1>2, <1>3, FineRests

\* A draft that the window shows keeps what the file had, what is saved, and the stored draft,
\* but for what is given up.
LEMMA FineRestored ==
    ASSUME NEW c, NEW a \in Window, NEW d \in Draft, d.revision # 0, a.lease_epoch # 0,
           NEW x, x = Fetched(a, d), a.step = NoStep,
           ShowsKept(a)', SaveKept(a)', d.text \subseteq Safe', x.exposed \subseteq Given',
           a.fingerprint \ d.text \subseteq Given',
           c \in continues' => draft' = d
    PROVE  Fine(c, x)'
<1>1. /\ x.step = a.step /\ x.value = d.text /\ x.saved = a.saved
      /\ x.fingerprint = a.fingerprint
      /\ x.save \in {NoSave, a.save}
      /\ x.save.at \in {"check", "force", "saved", "conflict", "asking"} =>
             x.save.text \ d.text \subseteq x.exposed
  BY RestoredParts
<1>2. ShowsKept(x)'
  BY <1>1 DEF ShowsKept
<1>3. SaveKept(x)'
  <2>1. CASE x.save = NoSave
    BY <2>1, NoSaveKept
  <2>2. CASE x.save = a.save
    BY <1>1, <2>2 DEF SaveKept
  <2> QED
    BY <1>1, <2>1, <2>2
<1>4. c \in continues' => draft'.text \ x.value \subseteq Given'
  BY <1>1
<1> QED
  BY <1>1, <1>2, <1>3, <1>4, FineRests

\* apply_document_outcome: what the step stored or fetched is safe, and so is what it replaces.
LEMMA StepDoneKept ==
    ASSUME IInv, KeptInv, NEW c \in Clients, StepDone(c)
    PROVE  KeptInv'
<1>1. PICK w, s, d, r : /\ w = client[c] /\ s = w.step /\ d = s.fetched
                        /\ r = [w EXCEPT !.step = NoStep, !.error = FALSE]
  OBVIOUS
<1>2. PICK a : a = IF s.kind = "show" THEN r ELSE Answered(c, r, s)
  OBVIOUS
<1>3. PICK x, v : x = Fetched(a, d) /\ v = Reconcile(c, x)
  OBVIOUS
<1>4. /\ s.at = "done" /\ Show(c, v)
      /\ UNCHANGED <<lease, draft, disk, typed, overwritten>>
      /\ IF d.revision # 0 /\ a.lease_epoch # 0
         THEN /\ continues' \in {continues, continues \cup {c}}
              /\ c \in continues' => d = draft \/ c \in continues
              /\ given_up' = given_up \cup (w.fingerprint \ d.text)
         ELSE continues' = continues /\ given_up' = given_up
  <2>1. /\ s.at = "done" /\ Show(c, v)
        /\ UNCHANGED <<hostVars, typed, overwritten>>
        /\ continues' = IF d.revision # 0 /\ a.lease_epoch # 0 /\ d = draft
                        THEN continues \cup {c} ELSE continues
        /\ given_up' = IF d.revision # 0 /\ a.lease_epoch # 0
                       THEN given_up \cup (w.fingerprint \ d.text) ELSE given_up
    BY <1>1, <1>2, <1>3 DEF StepDone
  <2> QED
    BY <2>1 DEF hostVars
<1>5. /\ w \in Window /\ w.uploaded <= w.generation /\ StepFits(c, w) /\ s \in StepRecord
      /\ d \in Draft /\ Fine(c, w)
  BY <1>1, TheWindow, StepParts DEF KeptInv
<1>6. /\ r \in Window /\ r.step = NoStep /\ Alike(r, w) /\ r.uploaded = w.uploaded
      /\ r.held = w.held /\ r.reloads = w.reloads /\ r.window = w.window
  BY <1>1, <1>5, NoStepParts DEF Window, Alike
<1>7. /\ a \in Window /\ a.step = NoStep /\ Alike(a, w) /\ a.uploaded <= a.generation
      /\ Losing(a) => Losing(w) \/ (s.uploaded # 0 /\ s.text = w.value)
  <2>1. a = r \/ a = Answered(c, r, s)
    BY <1>2
  <2>2. s = w.step /\ s.at = "done"
    BY <1>1, <1>4
  <2> QED
    BY <1>5, <1>6, <2>1, <2>2, AnsweredRests
<1>8. /\ x \in Window /\ x.uploaded <= x.generation
      /\ a.exposed \subseteq x.exposed /\ x.copied = a.copied
      /\ x.value = IF d.revision # 0 /\ a.lease_epoch # 0 THEN d.text ELSE a.value
  <2>1. CASE d.revision = 0
    BY <1>3, <1>7, <2>1 DEF Fetched
  <2>2. CASE d.revision # 0 /\ a.lease_epoch = 0
    <3>1. x = [a EXCEPT !.shown_draft = d.revision, !.held = TRUE] /\ d.revision \in Nat
      BY <1>3, <1>5, <2>2 DEF Fetched, Draft
    <3>2. /\ x \in Window /\ x.uploaded = a.uploaded /\ x.generation = a.generation
          /\ x.value = a.value /\ x.exposed = a.exposed /\ x.copied = a.copied
      BY <1>7, <3>1 DEF Window
    <3> QED
      BY <1>7, <2>2, <3>2
  <2>3. CASE d.revision # 0 /\ a.lease_epoch # 0
    BY <1>3, <1>5, <1>7, <2>3, RestoredParts
  <2> QED
    BY <2>1, <2>2, <2>3
<1>9. Follows(v, x)
  BY <1>3, <1>8, FollowsReconcile
<1>10. /\ w.exposed \subseteq v.exposed /\ w.copied \subseteq v.copied /\ x.exposed \subseteq v.exposed
       /\ v.value = x.value
  BY <1>7, <1>8, <1>9 DEF Follows, Beside, Alike
<1>11. /\ Given \subseteq Given' /\ v.exposed \cup v.copied \subseteq Given'
       /\ given_up' \subseteq Given'
  <2>1. given_up \subseteq given_up'
    BY <1>4
  <2> QED
    BY <1>1, <1>4, <1>10, <2>1, GivenGrows
<1>12. Grows
  BY <1>4, <1>11 DEF Grows, Settled, Safe
<1>13. \A k \in Clients \ {c} : LeaseKept(k) /\ DraftStays(k)
  BY <1>4 DEF LeaseKept, HoldsLeaseOf, DraftStays
<1>14. ShowsKept(w)' /\ StepKept(w)' /\ SaveKept(w)'
  BY <1>5, <1>12, PartsGrow
<1>15. ShowsKept(a)' /\ SaveKept(a)'
  <2>1. s.uploaded # 0 => s.text \subseteq Safe'
    BY <1>1, <1>14 DEF StepKept
  <2>2. Losing(a) => w.value \subseteq Safe'
    BY <1>7, <1>14, <2>1 DEF ShowsKept
  <2> QED
    BY <1>7, <1>14, <2>2 DEF ShowsKept, SaveKept, Alike
<1>16. d.revision # 0 => w.value \subseteq Safe'
  BY <1>1, <1>14 DEF StepKept, ShowsKept, Losing
<1>17. c \in continues => /\ draft'.text \ w.value \subseteq Given'
                          /\ d.revision # 0 => d = draft'
  BY <1>1, <1>4, <1>5, <1>12 DEF Fine, DraftKept, Grows
<1>18. Fine(c, x)'
  <2>1. CASE d.revision = 0
    <3>1. x = a /\ continues' = continues
      BY <1>3, <1>4, <2>1 DEF Fetched
    <3>2. c \in continues' => draft'.text \ a.value \subseteq Given'
      BY <1>7, <1>17, <3>1 DEF Alike
    <3>3. Fine(c, a)'
      BY <1>7, <1>15, <3>2, FineRests
    <3> QED
      BY <3>1, <3>3
  <2>2. CASE d.revision # 0 /\ a.lease_epoch = 0
    <3>1. c \in continues' => draft'.text \ a.value \subseteq Given'
      BY <1>4, <1>7, <1>17, <2>2 DEF Alike
    <3>2. a.value \subseteq Safe'
      BY <1>7, <1>16, <2>2 DEF Alike
    <3> QED
      BY <1>3, <1>5, <1>7, <1>15, <2>2, <3>1, <3>2, FineHeld
  <2>3. CASE d.revision # 0 /\ a.lease_epoch # 0
    <3>1. d.text \subseteq Safe'
      BY <1>1, <1>14 DEF StepKept
    <3>2. a.fingerprint \ d.text \subseteq Given'
      BY <1>4, <1>7, <1>11, <2>3 DEF Alike
    <3>3. c \in continues' => draft' = d
      BY <1>4, <1>17, <2>3
    <3>4. x.exposed \subseteq Given'
      BY <1>10, <1>11
    <3> QED
      BY <1>3, <1>5, <1>7, <1>15, <2>3, <3>1, <3>2, <3>3, <3>4, FineRestored
  <2> QED
    BY <2>1, <2>2, <2>3
<1>19. Fine(c, v)'
  BY <1>9, <1>11, <1>18, FineFollows
<1>20. w.value \subseteq Safe' \cup v.value
  BY <1>7, <1>8, <1>10, <1>16 DEF Alike
<1> QED
  BY <1>1, <1>4, <1>12, <1>13, <1>19, <1>20, KeptStep

-----------------------------------------------------------------------------
(* The theorem.                                                            *)

\* At first nothing is typed.
LEMMA InitKept == Init => KeptInv
<1> SUFFICES ASSUME Init PROVE KeptInv
  OBVIOUS
<1>1. /\ draft = NoDraft /\ disk = {} /\ typed = 0 /\ continues = {} /\ given_up = {}
      /\ \A c \in Clients : client[c] = Opened
  BY DEF Init
<1>2. AllShown
  BY <1>1 DEF AllShown
<1>3. /\ Opened.value = {} /\ Opened.saved = {} /\ Opened.fingerprint = {}
      /\ Opened.step = NoStep /\ Opened.save = NoSave
  BY DEF Opened
<1>4. ASSUME NEW c \in Clients PROVE Fine(c, client[c])
  <2>1. PICK w : w = client[c]
    OBVIOUS
  <2>2. /\ w.value = {} /\ w.saved = {} /\ w.fingerprint = {} /\ w.step = NoStep
        /\ w.save.at = "none"
    BY <1>1, <1>3, <2>1, NoSaveParts
  <2>3. ShowsKept(w) /\ SaveKept(w)
    BY <2>2 DEF ShowsKept, SaveKept
  <2>4. StepKept(w) /\ PutKept(c, w) /\ DraftKept(c, w)
    BY <1>1, <2>2, NoStepParts DEF StepKept, PutKept, DraftKept
  <2> QED
    BY <2>1, <2>3, <2>4 DEF Fine
<1> QED
  BY <1>2, <1>4 DEF KeptInv

\* A step that changes nothing
LEMMA StutterKept == KeptInv /\ UNCHANGED vars => KeptInv'
BY DEF KeptInv, AllShown, Fine, ShowsKept, StepKept, SaveKept, DraftKept, PutKept, HoldsLeaseOf,
       Safe, Settled, Given, vars, hostVars, historyVars

\* Every step
LEMMA NextKept == IInv /\ KeptInv /\ Next => KeptInv'
<1> SUFFICES ASSUME IInv, KeptInv, Next PROVE KeptInv'
  OBVIOUS
<1>1. PICK c \in Clients :
         \/ ServeStep(c) \/ ApplyStep(c) \/ HandleFile(c) \/ OpenAgain(c)
         \/ User(c) \/ Tick(c) \/ Deliver(c) \/ CloseWindow(c)
         \/ Expire(c) \/ Drop(c) \/ Reconnect(c) \/ DeviceChanges(c)
  BY DEF Next
<1>2. CASE ServeStep(c)
  BY <1>2, AcquireKept, PutKeptStep, ReleaseKept, GetKept DEF ServeStep
<1>3. CASE ApplyStep(c)
  BY <1>3, StepDoneKept, StepFailsKept DEF ApplyStep
<1>4. CASE HandleFile(c)
  BY <1>4, SaveFileKept, SaveDoneKept, ReloadDoneKept DEF HandleFile
<1>5. CASE OpenAgain(c)
  BY <1>5, OpenKept, ShowOpenedKept DEF OpenAgain
<1>6. CASE User(c)
  BY <1>6, TypeKept, UndoKept, TakeOverKept, SaveKeptStep, AnswerConflictKept, RequestCloseKept
     DEF User
<1>7. CASE Tick(c) \/ Deliver(c) \/ CloseWindow(c)
  BY <1>7, TickKept, DeliverKept, CloseWindowKept
<1>8. CASE Expire(c) \/ Drop(c) \/ Reconnect(c) \/ DeviceChanges(c)
  BY <1>8, ExpireKept, DropKept, ReconnectKept, DeviceChangesKept
<1> QED
  BY <1>1, <1>2, <1>3, <1>4, <1>5, <1>6, <1>7, <1>8

\* What is safe, or shown, is kept.
LEMMA KeptShown == KeptInv => EditsKept
<1> SUFFICES ASSUME KeptInv, NEW e \in (1 .. typed) \ (given_up \cup overwritten \cup Exposed)
             PROVE  Kept(e)
  BY DEF EditsKept
<1>1. e \in Safe \/ \E c \in Clients : e \in client[c].value
  BY DEF KeptInv, AllShown
<1>2. e \in Safe => e \in disk \cup draft.text \/ \E c \in Clients : e \in client[c].copied
  BY DEF Safe, Settled, Given, Exposed
<1> QED
  BY <1>1, <1>2 DEF Kept

\* Whatever is typed is in the file, the draft, a window's editor or a Device copy until a user
\* gives it up, but for the races EditsKept names: however the answers of the Host, events of
\* other Clients, takeovers, lost connections, saves, reloads and closes cross
\* (reconcile_document, apply_document_outcome, lose_document_lease).
THEOREM EditsKeptAlways == Spec => []EditsKept
<1>1. Init => KeptInv
  BY InitKept
<1>2. IInv /\ KeptInv /\ [Next]_vars => KeptInv'
  BY NextKept, StutterKept
<1>3. KeptInv => EditsKept
  BY KeptShown
<1> QED
  BY <1>1, <1>2, <1>3, Inductive, PTL DEF Spec

=============================================================================
