------------------------------ MODULE Present -------------------------------
(***************************************************************************)
(* Showing pixmaps in windows at a chosen frame (Xext/present, screen flip *)
(* mode, and the fences of miext/sync it waits for).                       *)
(*                                                                         *)
(* A request becomes a vblank: it waits for its frame (an event of the     *)
(* driver), then for its fence, then for the flip before it.  If its       *)
(* window covers the screen, its pixmap is made the one that the hardware  *)
(* shows: flip_pending until the driver tells that it is shown, the        *)
(* screen's flip_pixmap from then on.  If not, or if the driver refuses,   *)
(* it is copied.  When the window stops covering the screen, the screen's  *)
(* own pixmap is shown again: an unflip.                                   *)
(*                                                                         *)
(* What the server and the driver keep is one record, s.  A vblank is      *)
(* known by the number of its request, which is its event_id, its pixmap   *)
(* and its fence as well.  The windows are children of the root, and       *)
(* s.full is the one whose clip list is the whole screen.  What a driver   *)
(* may answer is an element d of Drivers.                                  *)
(*                                                                         *)
(* Left out: more than one screen or crtc, windows on no crtc (the fake    *)
(* vblanks), TearFree, acquire and release points of DRI3, Composite, the  *)
(* selection of events and the closing of the screen.                      *)
(***************************************************************************)
EXTENDS Integers, FiniteSets, Sequences, SequencesExt

CONSTANTS
    Windows,
    Requests,           \* the requests that clients make
    Drivers,            \* what drivers answer
    Capabilities,       \* the ways in which the driver can flip at once
    MaxPresents,        \* bound: requests
    MaxMsc,             \* bound: frames
    MaxFences,          \* bound: fences in use at a time
    None

ASSUME PresentAssumption ==
    /\ IsFiniteSet(Windows) /\ None \notin Windows \cup Nat
    /\ 0 \notin Windows        \* the root window
    /\ {MaxPresents, MaxMsc, MaxFences} \subseteq Nat
    /\ Requests \subseteq
           [window : Windows,
            pixmap : BOOLEAN,       \* FALSE: NotifyMSC
            copy : BOOLEAN,         \* PresentOptionCopy
            async : SUBSET {"async", "maytear"},    \* PresentOptionAsync, AsyncMayTear
            update : BOOLEAN,       \* with an update region
            fence : BOOLEAN,        \* with a wait fence
            ahead : Nat,            \* the target, in frames from now
            divisor : Nat, remainder : Nat]
    /\ \A r \in Requests : r.remainder < r.divisor \/ r.divisor + r.remainder = 0
    /\ Drivers \subseteq
           [check : BOOLEAN,        \* check_flip allows a flip
            flip : BOOLEAN,         \* flip succeeds
            queue : BOOLEAN,        \* queue_vblank succeeds
            now : BOOLEAN]          \* unflip sets the mode and is done at once
    /\ Capabilities \subseteq {"async", "maytear"}

VARIABLES
    s,          \* what the extension and the driver keep
    firing      \* the fence whose triggers are run through, or 0

vars == <<s, firing>>

Ids == 1 .. MaxPresents
Root == 0               \* the root window
Screen == 0             \* the screen's own pixmap
Unflip == 0             \* the event of an unflip

Vblank ==
    [live : BOOLEAN,
     window : Windows \cup {None},
     pixmap : BOOLEAN,                  \* has its pixmap
     target : 0 .. MaxMsc,              \* target_msc
     exec : -1 .. MaxMsc,               \* exec_msc
     flip : BOOLEAN, sync : BOOLEAN,    \* flip, sync_flip
     queued : BOOLEAN,
     ready : BOOLEAN,                   \* flip_ready
     abort : BOOLEAN,                   \* abort_flip
     callback : BOOLEAN]                \* the wait fence has a callback

Gone ==
    [live |-> FALSE, window |-> None, pixmap |-> FALSE, target |-> 0, exec |-> 0,
     flip |-> FALSE, sync |-> FALSE, queued |-> FALSE, ready |-> FALSE,
     abort |-> FALSE, callback |-> FALSE]

State ==
    [vblank : [Ids -> Vblank],
     last : 0 .. MaxPresents,           \* present_scmd_event_id
     exec : SUBSET Ids,                 \* present_exec_queue
     flips : Seq(Ids),                  \* present_flip_queue
     list : [Windows -> Seq(Ids)],      \* the vblanks of each window
     pending : Ids \cup {0},            \* flip_pending
     unflip : BOOLEAN,                  \* unflip_event_id is set
     flip : Ids \cup {0},               \* flip_pixmap
     flipWindow : Windows \cup {None},  \* flip_window
     pixmapOf : [Windows \cup {Root} -> 0 .. MaxPresents],  \* GetWindowPixmap
     alive : SUBSET Windows,
     full : Windows \cup {None},        \* the window that covers the screen
     fence : [Ids -> {"none", "unset", "set", "gone"}],
     missed : SUBSET Ids,               \* history: flips of a window that has stopped
                                        \* covering the screen, not checked since
     left : SUBSET Ids,                 \* history: flips that another was tried before
     mistaken : BOOLEAN,                \* history: a frame's event was taken for the
                                        \* end of a flip
     released : SUBSET Ids,             \* history: pixmaps given back to their clients
     wrong : SUBSET {"assert", "completed twice", "released twice"},
     msc : 0 .. MaxMsc,
     armed : SUBSET [id : Ids, msc : 0 .. MaxMsc],  \* vblank events of the driver
     flipping : SUBSET (0 .. MaxPresents),          \* flips the hardware has not made
     flipped : SUBSET (0 .. MaxPresents),           \* and whose event is not told
     shown : 0 .. MaxPresents]                      \* the pixmap on the display

-----------------------------------------------------------------------------
(* Pixmaps and what clients are told.                                      *)

Asserts(t, P) == IF P THEN t ELSE [t EXCEPT !.wrong = @ \cup {"assert"}]

\* The extension drops its reference to the pixmap.  It tells the client that the
\* pixmap is idle, unless the window was destroyed before the pixmap was shown.
Release(t, i) ==
    [t EXCEPT !.released = @ \cup {i},
              !.wrong = @ \cup IF i \in t.released THEN {"released twice"} ELSE {}]

present_vblank_notify(t, i) ==
    [t EXCEPT !.wrong = @ \cup IF t.vblank[i].live THEN {} ELSE {"completed twice"}]

\* Takes vblank i off both queues.
Dequeue(t, i) == [t EXCEPT !.exec = @ \ {i}, !.flips = RemoveFirst(@, i)]

Unlist(t, i) == [t EXCEPT !.list = [w \in Windows |-> RemoveFirst(@[w], i)]]

present_vblank_destroy(t, i) ==
    LET t1 == IF t.vblank[i].pixmap THEN Release(t, i) ELSE t
    IN  [Unlist(Dequeue(t1, i), i) EXCEPT !.vblank[i] = Gone, !.fence[i] = "none",
                                          !.missed = @ \ ({i} \ {t.flip}), !.left = @ \ {i}]

present_vblank_scrap(t, i) ==
    [Release(t, i) EXCEPT !.vblank[i].pixmap = FALSE,
                                      !.vblank[i].flip = FALSE]

\* Sets the pixmap of a window and of the windows below it that share it.
present_set_tree_pixmap(t, w, expected, pixmap) ==
    LET old  == t.pixmapOf[w]
        tree == IF w = Root THEN t.alive \cup {Root} ELSE {w}
    IN  IF expected \notin {None, old} THEN t
        ELSE [t EXCEPT !.pixmapOf =
                 [x \in DOMAIN @ |-> IF x \in tree /\ @[x] = old THEN pixmap ELSE @[x]]]

present_restore_screen_pixmap(t) ==
    LET pixmap == IF t.pending # 0 THEN t.pending ELSE t.flip
        window == IF t.pending # 0 THEN t.vblank[t.pending].window ELSE t.flipWindow
        t1     == Asserts(t, pixmap # 0)
        t2     == IF window = None THEN t1
                  ELSE present_set_tree_pixmap(t1, window, pixmap, Screen)
    IN  present_set_tree_pixmap(t2, Root, None, Screen)

present_set_abort_flip(t) ==
    IF t.vblank[t.pending].abort THEN t
    ELSE [present_restore_screen_pixmap(t) EXCEPT !.vblank[t.pending].abort = TRUE]

\* The pixmap that was shown before is given back.
present_flip_idle(t) ==
    IF t.flip = 0 THEN t
    ELSE [Release(t, t.flip) EXCEPT !.flip = 0, !.flipWindow = None,
                                                !.missed = @ \ {t.flip}]

present_check_flip(t, w, d) ==
    /\ d.check
    /\ t.pixmapOf[w] \in {Screen} \cup ({t.flip, t.pending} \ {0})
    /\ t.full = w

-----------------------------------------------------------------------------
(* Executing a vblank.                                                     *)

present_queue_vblank(t, i, at) == [t EXCEPT !.armed = @ \cup {[id |-> i, msc |-> at]}]

FenceIsSet(t, i) == t.fence[i] # "unset"

MustRequeue(t, i, msc, d) == t.vblank[i].exec = msc + 1 /\ d.queue

StartFlipIdle(t, i) ==
    LET w  == t.vblank[i].window
        t1 == [present_flip_idle(t) EXCEPT !.pending = i, !.flips = <<i>> \o @,
                                           !.flipping = @ \cup {i}]
    IN  present_set_tree_pixmap(present_set_tree_pixmap(t1, w, None, i), Root, None, i)

\* Puts the flip into the hands of the driver.
StartFlip(t, i) ==
    LET w  == t.vblank[i].window
        t1 == [t EXCEPT !.pending = i, !.flips = <<i>> \o @, !.flipping = @ \cup {i}]
        t2 == IF t.flipWindow \in {None, w} THEN t1
              ELSE present_set_tree_pixmap(t1, t.flipWindow, t.flip, Screen)
        t3 == present_set_tree_pixmap(t2, w, None, i)
    IN  present_set_tree_pixmap(t3, Root, None, i)

present_execute_post(t, i) == present_vblank_destroy(present_vblank_notify(t, i), i)

\* The vblank is off all lists.  If its flip failed it may be too early for the copy.
present_execute_copy(t, i, msc, d) ==
    LET v == t.vblank[i]
    IN  IF MustRequeue(t, i, msc, d)
        THEN [present_queue_vblank(t, i, v.exec) EXCEPT
                 !.vblank[i].queued = TRUE, !.exec = @ \cup {i},
                 !.list[v.window] = Append(@, i)]
        ELSE present_execute_post(t, i)

MustWait(t, i, msc, d) == MustRequeue(t, i, msc, d) \/ ~FenceIsSet(t, i)

present_execute_wait(t, i, msc, d) ==
    IF MustRequeue(t, i, msc, d) THEN present_queue_vblank(t, i, t.vblank[i].exec)
    ELSE [t EXCEPT !.vblank[i].callback = TRUE]

\* A flip that waits for the one before it, or for an unflip.
WaitForFlip(t, i) ==
    [Dequeue(t, i) EXCEPT !.flips = Append(@, i), !.vblank[i].ready = TRUE]

\* A copy into a window that is flipped must not be hidden by the flip; unflipped
\* is what present_unflip makes of t.
MakeVisible(t, w, unflipped) ==
    IF t.pending # 0
    THEN IF t.vblank[t.pending].window = w THEN present_set_abort_flip(t) ELSE t
    ELSE IF ~t.unflip /\ t.flipWindow = w THEN unflipped ELSE t

TakeOff(t, i) == [Unlist(Dequeue(t, i), i) EXCEPT !.vblank[i].queued = FALSE]

\* What is to be copied; if it has its flip, that has failed.
CopyInstead(t, i) ==
    LET v == t.vblank[i]
    IN  IF v.flip
        THEN [TakeOff(t, i) EXCEPT !.vblank[i].flip = FALSE, !.vblank[i].exec = v.target]
        ELSE TakeOff(t, i)

\* present_execute, where visible is what CopyInstead and MakeVisible lead to.
Execute(t, i, msc, d, visible) ==
    LET v == t.vblank[i]
    IN  IF MustWait(t, i, msc, d) THEN present_execute_wait(t, i, msc, d)
        ELSE IF v.flip /\ v.pixmap /\ (t.pending # 0 \/ t.unflip) THEN WaitForFlip(t, i)
        ELSE IF ~v.pixmap THEN present_execute_post(TakeOff(t, i), i)
        ELSE IF v.flip /\ d.flip THEN StartFlip(TakeOff(t, i), i)
        ELSE present_execute_copy(visible, i, msc, d)

\* The same when no window is flipped, so that no unflip can begin.
ExecuteUnflipped(t, i, msc, d) ==
    LET u == CopyInstead(t, i)
    IN  Execute(t, i, msc, d, MakeVisible(u, t.vblank[i].window, Asserts(u, FALSE)))

\* present_flip_try_ready: of the waiting flips only the first one is tried, and
\* done is what executing it leads to.
Ready(t) == {k \in 1 .. Len(t.flips) : t.vblank[t.flips[k]].queued}

FirstReady(t) == t.flips[Min(Ready(t))]

TryReady(t, done) ==
    IF Ready(t) = {} THEN t
    ELSE [done EXCEPT !.left = IF done.pending = 0 /\ ~done.unflip
                               THEN {t.flips[k] : k \in Ready(t) \ {Min(Ready(t))}}
                               ELSE @]

UnflipQuietly(t, d) == present_flip_idle([t EXCEPT !.unflip = FALSE])

\* The event of an unflip.
UnflipNotify(t, d) ==
    LET u == present_flip_idle([t EXCEPT !.unflip = FALSE])
    IN  TryReady(u, ExecuteUnflipped(u, FirstReady(u), u.msc, d))

\* A driver that has to set the mode reports the end before it returns.
present_unflip(t, d) ==
    LET u == [present_restore_screen_pixmap(Asserts(t, ~t.unflip /\ t.pending = 0))
                 EXCEPT !.unflip = TRUE]
    IN  IF d.now THEN UnflipNotify([u EXCEPT !.shown = Screen], d)
        ELSE [u EXCEPT !.flipping = @ \cup {Unflip}]

present_execute(t, i, msc, d) ==
    LET u == CopyInstead(t, i)
    IN  Execute(t, i, msc, d, MakeVisible(u, t.vblank[i].window, present_unflip(u, d)))

present_re_execute(t, i, d) == present_execute(t, i, t.msc, d)

present_flip_try_ready(t, d) == TryReady(t, present_re_execute(t, FirstReady(t), d))

-----------------------------------------------------------------------------
(* Events of the driver.                                                   *)

present_flip_notify(t, i, d) ==
    LET v  == t.vblank[i]
        t1 == present_flip_idle(Asserts(t, t.pending = i))
        t2 == [Dequeue(t1, i) EXCEPT !.flip = i, !.flipWindow = v.window,
                                     !.vblank[i].pixmap = FALSE, !.pending = 0]
        t3 == IF v.abort THEN present_unflip(t2, d) ELSE t2
    IN  present_flip_try_ready(present_execute_post(t3, i), d)

\* An event that nobody waits for is ignored.
present_event_notify(t, id, msc, d) ==
    CASE id \in t.exec -> present_execute(t, id, msc, d)
      [] id \in Range(t.flips) ->
             IF t.vblank[id].queued THEN present_execute(t, id, msc, d)
             ELSE present_flip_notify(t, id, d)
      [] id = Unflip /\ t.unflip -> UnflipNotify(t, d)
      [] OTHER -> t

\* Nothing tells a frame's event from that of a flip: what is on the flip queue and
\* is not queued any more, is taken to be shown.
TakenForFlip(t, id) == id \in Range(t.flips) \ t.exec /\ ~t.vblank[id].queued

\* The frame e.msc has begun; m is the frame at which the event was made.
VblankEvent(d) ==
    \E e \in s.armed : \E m \in e.msc .. s.msc :
        LET t == [s EXCEPT !.armed = @ \ {e}, !.mistaken = @ \/ TakenForFlip(s, e.id)]
        IN  s' = present_event_notify(t, e.id, m, d)

FlipEvent(d) ==
    \E i \in s.flipped :
        s' = present_event_notify([s EXCEPT !.flipped = @ \ {i}], i, s.msc, d)

\* The hardware.
Frame == s.msc < MaxMsc /\ s' = [s EXCEPT !.msc = @ + 1]

PageFlip ==
    \E i \in s.flipping :
        s' = [s EXCEPT !.flipping = @ \ {i}, !.flipped = @ \cup {i}, !.shown = i]

-----------------------------------------------------------------------------
(* Windows.                                                                *)

NoLongerFlips(t, i, w, d) ==
    t.vblank[i].queued /\ t.vblank[i].flip /\ ~present_check_flip(t, w, d)

CheckNone(t, w, d) == t

CheckQueued(t, w, d) ==
    LET stop(v) == [v EXCEPT !.flip = FALSE, !.exec = IF v.sync THEN v.target ELSE v.exec]
    IN  [t EXCEPT !.vblank = [i \in Ids |->
            IF i \in Range(t.list[w]) /\ NoLongerFlips(t, i, w, d) THEN stop(t.vblank[i])
            ELSE t.vblank[i]]]

CheckFlipped(t, w, d) ==
    LET bad == ~present_check_flip(t, w, d)
    IN  IF t.pending # 0
        THEN IF t.vblank[t.pending].window = w /\ bad THEN present_set_abort_flip(t) ELSE t
        ELSE IF t.flipWindow = w /\ bad THEN present_unflip(t, d) ELSE t

CheckAlways(t, w, d) == CheckQueued(CheckFlipped(t, w, d), w, d)

\* While an unflip is under way nothing is checked.
present_check_flip_window(t, w, d) ==
    LET t1 == CheckFlipped(t, w, d)
        t2 == [t1 EXCEPT !.missed = @ \ Range(t1.list[w])]
    IN  IF t.unflip THEN t ELSE CheckQueued(t2, w, d)

CheckAll(t, ws, d) ==
    LET Checked[n \in 0 .. Len(ws)] ==
            IF n = 0 THEN t ELSE present_check_flip_window(Checked[n - 1], ws[n], d)
    IN  Checked[Len(ws)]

\* The window w covers the screen; what waits to be flipped in the one that
\* covered it before is not checked yet.
Cover(t, w) ==
    LET waits(i) == t.vblank[i].queued /\ t.vblank[i].flip /\ t.vblank[i].window = t.full
    IN  [t EXCEPT !.full = w,
                  !.missed = @ \cup {i \in Ids : w # t.full /\ waits(i)}]

\* Windows move; those whose clip list has changed are told, in stacking order.
Reconfigure(w, d) ==
    /\ w # s.full /\ w \in s.alive \cup {None}
    /\ \E ws \in SetToSeqs({s.full, w} \ {None}) : s' = CheckAll(Cover(s, w), ws, d)

\* The driver has all windows checked, when the cursor changes.
present_check_flips(d) ==
    \E ws \in SetToSeqs(s.alive) : s' = CheckAll(s, ws, d)

\* The driver's event is taken back and nobody is told.
present_free_window_vblank(t, w) ==
    LET Freed[n \in 0 .. Len(t.list[w])] ==
            IF n = 0 THEN t
            ELSE [present_vblank_destroy(Freed[n - 1], t.list[w][n]) EXCEPT
                     !.armed = {e \in @ : e.id # t.list[w][n]}]
    IN  Freed[Len(t.list[w])]

present_scmd_clear_window_flip(t, w) ==
    LET mine == t.pending # 0 /\ t.vblank[t.pending].window = w
        t1   == IF mine THEN [present_set_abort_flip(t) EXCEPT
                                 !.vblank[t.pending].window = None]
                ELSE t
    IN  IF t1.flipWindow # w THEN t1
        ELSE [present_restore_screen_pixmap(t1) EXCEPT !.flipWindow = None]

\* The window is unmapped first, and another one may then cover the screen.
present_destroy_window(w, full, d) ==
    LET told == IF s.full # w THEN << >> ELSE IF full = None THEN <<w>> ELSE <<w, full>>
        t1   == CheckAll(Cover(s, full), told, d)
        t2   == present_scmd_clear_window_flip(present_free_window_vblank(t1, w), w)
    IN  /\ w \in s.alive
        /\ IF s.full = w THEN full \in {None} \cup (s.alive \ {w}) ELSE full = s.full
        /\ s' = [t2 EXCEPT !.alive = @ \ {w}, !.pixmapOf[w] = Screen]

-----------------------------------------------------------------------------
(* Requests.                                                               *)

present_get_target_msc(arg, msc, divisor, remainder, synced) ==
    LET field == msc - (msc % divisor) + remainder
    IN  CASE arg > msc -> arg
          [] arg <= msc /\ divisor = 0 -> IF synced THEN msc + 1 ELSE msc
          [] OTHER -> IF field > msc THEN field
                      ELSE IF synced \/ msc > field THEN field + divisor
                      ELSE field

\* A request for the same frame makes the one before it superfluous.
Scrap(t, i, target, d) ==
    LET v == t.vblank[i]
        u == present_vblank_scrap(t, i)
    IN  IF ~(v.pixmap /\ v.queued /\ v.target = target) THEN t
        ELSE IF v.ready THEN present_re_execute(u, i, d) ELSE u

Supersede(t, w, target, d) ==
    LET Scrapped[n \in 0 .. Len(t.list[w])] ==
            IF n = 0 THEN t ELSE Scrap(Scrapped[n - 1], t.list[w][n], target, d)
    IN  Scrapped[Len(t.list[w])]

present_vblank_init(t, i, r, target, d) ==
    LET flip == r.pixmap /\ ~r.copy /\ present_check_flip(t, r.window, d)
        sync == flip /\ r.async \cap Capabilities = {}
    IN  [t EXCEPT
           !.last = i,
           !.list[r.window] = Append(@, i),
           !.exec = @ \cup {i},
           !.fence[i] = IF r.fence THEN "unset" ELSE "none",
           !.vblank[i] = [Gone EXCEPT !.live = TRUE, !.window = r.window,
                                      !.pixmap = r.pixmap, !.target = target,
                                      !.exec = IF sync THEN target - 1 ELSE target,
                                      !.flip = flip, !.sync = sync, !.queued = TRUE]]

present_scmd_pixmap(r, d) ==
    LET i      == s.last + 1
        synced == r.async = {} /\ (r.pixmap \/ r.divisor # 0)
        target == present_get_target_msc(s.msc + r.ahead, s.msc, r.divisor, r.remainder, synced)
        t1     == IF r.pixmap /\ ~r.update THEN Supersede(s, r.window, target, d) ELSE s
        t2     == present_vblank_init(t1, i, r, target, d)
        exec   == t2.vblank[i].exec
    IN  /\ r.window \in s.alive /\ i <= MaxPresents /\ target <= MaxMsc
        /\ r.fence => Cardinality({j \in Ids : s.fence[j] # "none"}) < MaxFences
        /\ s' = IF exec > s.msc /\ d.queue THEN present_queue_vblank(t2, i, exec)
                ELSE present_execute(t2, i, s.msc, d)

-----------------------------------------------------------------------------
(* Fences.  miSyncTriggerFence goes through the triggers of the fence from *)
(* the start again whenever one has fired.                                 *)

Waits(t, i) == t.vblank[i].live /\ t.vblank[i].callback

miSyncTriggerFence(i) ==
    /\ s.fence[i] = "unset"
    /\ s' = [s EXCEPT !.fence[i] = "set"]
    /\ firing' = i

present_wait_fence_triggered(d) ==
    /\ firing # 0 /\ Waits(s, firing)
    /\ s' = present_re_execute(s, firing, d)
    /\ UNCHANGED firing

EndOfTriggers ==
    /\ firing # 0 /\ ~Waits(s, firing)
    /\ firing' = 0
    /\ UNCHANGED s

\* The vblank that waits for the fence is not executed.
miSyncDestroyFence(i) ==
    /\ s.fence[i] = "unset"
    /\ s' = [s EXCEPT !.fence[i] = "gone"]
    /\ UNCHANGED firing

-----------------------------------------------------------------------------
Init ==
    /\ \E w \in Windows \cup {None} :
          s = [vblank |-> [i \in Ids |-> Gone], last |-> 0, exec |-> {}, flips |-> << >>,
               list |-> [x \in Windows |-> << >>], pending |-> 0, unflip |-> FALSE,
               flip |-> 0, flipWindow |-> None,
               pixmapOf |-> [x \in Windows \cup {Root} |-> Screen],
               alive |-> Windows, full |-> w, fence |-> [i \in Ids |-> "none"],
               missed |-> {}, left |-> {}, mistaken |-> FALSE, released |-> {}, wrong |-> {},
               msc |-> 0,
               armed |-> {}, flipping |-> {}, flipped |-> {}, shown |-> Screen]
    /\ firing = 0

Hardware == (Frame \/ PageFlip) /\ UNCHANGED firing

\* The server has one thread: a loop over triggers keeps it from all other work.
Serve(A) == firing = 0 /\ A /\ UNCHANGED firing

Fire == EndOfTriggers \/ \E d \in Drivers : present_wait_fence_triggered(d)

Next ==
    \/ Hardware
    \/ Fire
    \/ \E d \in Drivers :
          \/ \E r \in Requests : Serve(present_scmd_pixmap(r, d))
          \/ Serve(VblankEvent(d))
          \/ Serve(FlipEvent(d))
          \/ \E w \in Windows \cup {None} : Serve(Reconfigure(w, d))
          \/ Serve(present_check_flips(d))
          \/ \E w \in Windows, x \in Windows \cup {None} :
                Serve(present_destroy_window(w, x, d))
    \/ \E i \in Ids : firing = 0 /\ (miSyncTriggerFence(i) \/ miSyncDestroyFence(i))

\* The display goes on, and the server reads what the driver tells it.
Fairness ==
    /\ WF_vars(Frame /\ UNCHANGED firing)
    /\ WF_vars(PageFlip /\ UNCHANGED firing)
    /\ WF_vars(Fire)
    /\ WF_vars(\E d \in Drivers : Serve(VblankEvent(d)))
    /\ WF_vars(\E d \in Drivers : Serve(FlipEvent(d)))

Spec == Init /\ [][Next]_vars /\ Fairness

-----------------------------------------------------------------------------
(* Properties.                                                             *)

\* Every part of the state has its type.
TypeOK == s \in State /\ firing \in 0 .. MaxPresents

\* The pixmap that the display shows, or will show, has not been given back to
\* the client, and no window draws into a pixmap that has been given back
\* (present_flip_idle, present_set_tree_pixmap): the flips, aborted flips and
\* unflips that take turns, the windows destroyed in between and the requests
\* that supersede others all keep the pixmap until the next one is shown.  The
\* display may show what was given back only after present_event_notify has
\* taken a frame's event for the end of a flip.
ShownIsHeld ==
    LET held == {s.flip, s.pending} \ {0} IN
    /\ s.shown \in {Screen} \cup held \/ s.mistaken
    /\ held \cap s.released = {}
    /\ s.flip # 0 => s.flip # s.pending
    /\ \A w \in s.alive \cup {Root} : s.pixmapOf[w] \in {Screen} \cup held

\* The driver works on what the extension waits for, one flip or one unflip at a
\* time, and on nothing else unless present_event_notify has taken a frame's
\* event for the end of a flip: then on flips whose request is over.  The
\* assertions hold, and a client is told once that a request is complete and
\* once that its pixmap is idle (present_flip_notify, present_unflip).
FlipIsTracked ==
    LET awaited == ({s.pending} \ {0}) \cup (IF s.unflip THEN {Unflip} ELSE {})
        strays  == (s.flipping \cup s.flipped) \ awaited IN
    /\ TypeOK
    /\ s.wrong = {}
    /\ s.flipping \cap s.flipped = {}
    /\ awaited \subseteq s.flipping \cup s.flipped
    /\ strays # {} => s.mistaken
    /\ \A i \in strays : i # Unflip /\ ~s.vblank[i].live
    /\ ~(s.unflip /\ s.pending # 0)
    /\ s.pending # 0 => s.pending \in Range(s.flips) /\ ~s.vblank[s.pending].queued

\* A window that does not cover the screen is not shown in its place, unless
\* the end of that is under way, or its flip was started before the change was
\* checked, which is possible when an unflip is under way or ends within the
\* check (present_check_flip_window).
FlipsAreFullScreen ==
    /\ s.flipWindow \in s.alive \ {s.full} =>
          s.unflip \/ s.pending # 0 \/ s.flip \in s.missed
    /\ s.pending # 0 /\ s.vblank[s.pending].window # s.full =>
          s.vblank[s.pending].abort \/ s.pending \in s.missed

\* A request whose wait fence was destroyed while it waited for it: its callback is
\* never called (present_fence_sync_counter_destroyed).
Abandoned(i) == i \in s.exec /\ s.vblank[i].callback /\ s.fence[i] = "gone"

\* No request is forgotten: it is on one queue, and the driver will tell of its
\* frame, its fence has yet to be triggered, or a flip or unflip is under way
\* that it waits for.  The exceptions are the requests Abandoned by their fence
\* and the flips that present_flip_try_ready has left behind, as it tries the
\* first one only.  These too, like all that are not being flipped, are on the
\* list of a living window, with which present_free_window_vblank frees them.
NobodyIsForgotten ==
    \A i \in Ids :
        LET v == s.vblank[i] IN
        v.live =>
            /\ (i \in s.exec) # (i \in Range(s.flips))
            /\ i # s.pending => v.window \in s.alive /\ i \in Range(s.list[v.window])
            /\ \/ \E e \in s.armed : e.id = i
               \/ firing = i
               \/ i \in s.exec /\ v.callback /\ s.fence[i] = "unset"
               \/ i \notin s.exec /\ (s.pending # 0 \/ s.unflip \/ i \in s.left)
               \/ Abandoned(i)

\* Every request is completed, or its window destroyed, once its fence is
\* triggered (present_execute, miSyncTriggerFence).
EveryPresentCompletes ==
    \A i \in Ids :
        s.vblank[i].live ~> ~s.vblank[i].live \/ s.fence[i] \in {"unset", "gone"}
=============================================================================
