---------------------------- MODULE TcamCapture ----------------------------
(***************************************************************************)
(* The viewer tcam-capture: its main window, which opens a pipeline for a  *)
(* camera, its modal device and format dialogs, its non-modal property     *)
(* dialog with a worker thread of its own, and the index of the cameras.   *)
(*                                                                         *)
(* The GUI thread handles one event at a time.  A modal dialog is a nested *)
(* event loop inside a handler: the handler stops there, other events are  *)
(* handled, and the handler goes on when the user closes the dialog.  User *)
(* input reaches the innermost modal dialog only.                          *)
(***************************************************************************)
EXTENDS Integers, Sequences, FiniteSets, SequencesExt, FiniteSetsExt

CONSTANTS
  TcCameras,   \* the cameras, told apart by serial, model and type
  TcProps,     \* property -> [cat, kind, ro, lockers, needs]: the camera's properties; a property
               \* is locked while one of its lockers is set, and unavailable while one it needs is not
  TcBudgets    \* how often cameras are plugged, buttons clicked, values edited

VARIABLES
  tcWin,       \* the window: see Window
  tcPlugged,   \* the cameras that are connected
  tcMonitor,   \* messages of the device monitor, oldest first
  tcList,      \* m_device_list of the Indexer
  tcPosted,    \* events posted to objects of the GUI thread
  tcErrors,    \* pipelines with a "Device lost" message on their bus
  tcReg,       \* camera -> property -> its value
  tcBox,       \* property -> its widget: the value shown, is the box writable, is the slider
  tcJobs,      \* slots of the PropertyWorker that are queued
  tcWork,      \* what the worker still does in the slot it is in
  tcFetched,   \* the value update() has read and not yet shown
  tcTimers,    \* timers of the GUI thread, by the dialog that started them
  tcRechecks,  \* timers of the worker thread, by category
  tcMeant,     \* history: property -> value in {} or {v} entered undisturbed
  tcLeft       \* how much of the budget is left

tcVars == <<tcWin, tcPlugged, tcMonitor, tcList, tcPosted, tcErrors, tcReg, tcBox, tcJobs, tcWork,
            tcFetched, tcTimers, tcRechecks, tcMeant, tcLeft>>
tcWidgets == <<tcReg, tcBox, tcWork, tcFetched, tcRechecks, tcMeant>>
tcIndex == <<tcPlugged, tcMonitor, tcList, tcErrors>>

PropNames == DOMAIN TcProps
Once == 2          \* an enumeration entry that the camera resets itself
NoEntry == -1      \* the placeholder of a disabled combo box
NewWindow == [selected |-> {}, pipe |-> 0, cam |-> {}, state |-> "null", made |-> 0, saver |-> 0, eos |-> FALSE,
              dialog |-> "none", of |-> {}, level |-> 0, dialogs |-> 0, stack |-> <<>>,
              refresh |-> FALSE, gui |-> FALSE, over |-> "", why |-> {}]
Frame(what, shown, pick, next) == [what |-> what, shown |-> shown, pick |-> pick, next |-> next]
Top(w) == w.stack[Len(w.stack)]
Push(w, f) == [w EXCEPT !.stack = Append(@, f)]
Pop(w) == [w EXCEPT !.stack = SubSeq(@, 1, Len(@) - 1)]
Crash(w, over) == [w EXCEPT !.over = over]
Because(w, cond, why) == IF cond THEN [w EXCEPT !.why = @ \union {why}] ELSE w

-----------------------------------------------------------------------------
(* The pipeline *)

enable_device_gui_elements(w, toggle) == [w EXCEPT !.gui = toggle]
\* a recording keeps a plain pointer to the pipeline
close_pipeline(w) ==
  Because([enable_device_gui_elements(w, FALSE) EXCEPT !.pipe = 0, !.cam = {}, !.state = "null", !.eos = FALSE],
          w.saver # 0 /\ w.pipe # 0, "recording")
\* mutant: choosing another camera leaves the pipeline as it is
KeepsPipeline(w) == w
close_before_open(w) == close_pipeline(w)

\* from the caps on: needs the pipeline, refreshes an open property dialog
start_pipeline(w) ==
  IF w.pipe = 0 THEN Crash(w, "no pipeline")
  ELSE [enable_device_gui_elements(w, TRUE) EXCEPT !.state = "async", !.refresh = (w.dialog = "open")]
select_caps(w, handling) ==
  IF handling = "Dialog" THEN Push(w, Frame("format", <<>>, {}, "open")) ELSE start_pipeline(w)
open_failed(w) == Push(close_pipeline(w), Frame("failed", <<>>, {}, ""))
reuse_pipeline(w, handling) ==
  IF w.state = "playing" THEN {select_caps([w EXCEPT !.state = "ready"], handling)}
  ELSE {Because(close_pipeline(w), w.dialog = "open", "gave up")}
\* the text of the pipeline is the user's: it may not parse, and then there is
\* no pipeline, or name no source, and then there is one that does nothing
new_pipeline(w, handling) ==
  LET launched == [w EXCEPT !.pipe = w.made + 1, !.made = @ + 1]
      made == [launched EXCEPT !.cam = w.selected, !.state = "ready"]
  IN {w, launched, open_failed(made), close_pipeline(made)}
       \union (IF w.selected \subseteq tcPlugged /\ w.selected # {} THEN {select_caps(made, handling)} ELSE {})
open_pipeline(w, handling) == IF w.pipe # 0 THEN reuse_pipeline(w, handling) ELSE new_pipeline(w, handling)

\* WA_DeleteOnClose deletes the dialog once the event loop it was closed in runs again
CloseDialog(w) == IF w.dialog = "open" THEN [w EXCEPT !.dialog = "dying", !.level = Len(w.stack)] ELSE w
free_property_dialog(w) == CloseDialog(w)
device_lost(w, c, next) ==
  IF w.selected # {c} THEN w
  ELSE Push(Because([free_property_dialog(close_pipeline(w)) EXCEPT !.selected = {}],
                    \E i \in DOMAIN w.stack : w.stack[i].what = "format", "lost in dialog"),
            Frame("lost", <<>>, {c}, next))
device_lost_cb(w, c) == device_lost(w, c, "slots")

-----------------------------------------------------------------------------
(* The device dialog shows the cameras the Indexer lists; a camera whose   *)
(* announcement is still posted when the dialog opens is shown twice.      *)

DeviceRow(w) == {i \in DOMAIN w.stack : w.stack[i].what = "devices"}
new_device(w, c) ==
  [w EXCEPT !.stack = [i \in DOMAIN @ |-> IF i \in DeviceRow(w) THEN [@[i] EXCEPT !.shown = Append(@, c)] ELSE @[i]]]
\* removing the current item makes a neighbour the current one
Without(f, c) ==
  LET at == {i \in DOMAIN f.shown : f.shown[i] = c}
      rest == IF at = {} THEN f.shown ELSE RemoveAt(f.shown, Min(at))
  IN {[f EXCEPT !.shown = rest, !.pick = p] :
        p \in IF f.pick = {c} /\ rest # <<>> THEN {{x} : x \in ToSet(rest)} ELSE {f.pick}}
lost_device(w, c) ==
  IF DeviceRow(w) = {} THEN {w}
  ELSE {[w EXCEPT !.stack[Min(DeviceRow(w))] = f] : f \in Without(w.stack[Min(DeviceRow(w))], c)}

-----------------------------------------------------------------------------
(* The widgets of the property dialog, and its worker *)

\* what update() reads of a property: is it available, its value, is it locked
Fetched(c, p) ==
  [avail |-> \A q \in TcProps[p].needs : tcReg[c][q] # 0, val |-> tcReg[c][p],
   lock |-> \E q \in TcProps[p].lockers : tcReg[c][q] # 0]
Writable(p, got) == got.avail /\ ~TcProps[p].ro /\ ~got.lock

EnumWidget_update(p, box, got) ==
  [box EXCEPT !.val = IF got.avail THEN got.val ELSE NoEntry, !.on = Writable(p, got)]
\* a slider the user holds is not moved under the finger
IntWidget_update(p, box, got, held) ==
  IF ~got.avail THEN [box EXCEPT !.on = FALSE, !.slide = FALSE]
  ELSE [val |-> got.val, on |-> Writable(p, got), slide |-> IF held THEN box.slide ELSE Writable(p, got)]
DoubleWidget_update(p, box, got, held) == IntWidget_update(p, box, got, held)
BoolWidget_update(p, box, got) ==
  [box EXCEPT !.val = IF got.avail THEN got.val ELSE @, !.on = Writable(p, got)]
ButtonWidget_update(p, box, got) == [box EXCEPT !.on = got.avail /\ ~got.lock]
StringWidget_update(box, got) == [box EXCEPT !.val = got.val]
Updated(p, box, got, held) ==
  CASE TcProps[p].kind = "Enum"   -> EnumWidget_update(p, box, got)
    [] TcProps[p].kind = "Int"    -> IntWidget_update(p, box, got, held)
    [] TcProps[p].kind = "Double" -> DoubleWidget_update(p, box, got, held)
    [] TcProps[p].kind = "Bool"   -> BoolWidget_update(p, box, got)
    [] TcProps[p].kind = "Button" -> ButtonWidget_update(p, box, got)
    [] OTHER                      -> StringWidget_update(box, got)
StartsTimer(p, got) == TcProps[p].kind = "Enum" /\ got.avail /\ ~TcProps[p].ro /\ got.val = Once
NewBox == [val |-> 0, on |-> FALSE, slide |-> FALSE]

InCategory(cat) == {p \in PropNames : TcProps[p].cat = cat}
Updates(ps) == FoldSet(LAMBDA p, acc : acc \o <<<<"fetch", p>>, <<"show", p>>>>, <<>>, ps)
\* mutant: the whole category is refreshed, and first
RefreshesFirst(p) == Append(Updates(InCategory(TcProps[p].cat)), <<"set", p>>)
write_property(p) == <<<<"set", p>>>> \o Updates(InCategory(TcProps[p].cat) \ {p})
update_category(cat) == Updates(InCategory(cat))
Slot(job) == IF job[1] = "write" THEN write_property(job[2]) ELSE update_category(job[2])
Opened == CHOOSE c \in tcWin.of : TRUE
Alive == tcWin.pipe # 0 /\ tcWin.cam = tcWin.of /\ tcWin.of \subseteq tcPlugged

\* a refresh of p is queued, under way, or will be asked for by a timer of the worker
Shows(p) ==
  <<"show", p>> \in ToSet(tcWork) \/ \E i \in DOMAIN tcJobs : <<"show", p>> \in ToSet(Slot(tcJobs[i]))
Outstanding(p) ==
  \/ Shows(p) \/ TcProps[p].cat \in tcRechecks
  \/ \E q \in InCategory(TcProps[p].cat) :
       Shows(q) /\ (StartsTimer(q, Fetched(Opened, q)) \/ \E got \in tcFetched : StartsTimer(q, got))
Entered(p, v) == [tcMeant EXCEPT ![p] = IF Outstanding(p) THEN {} ELSE {v}]
Kept(p) == [tcMeant EXCEPT ![p] = IF Outstanding(p) THEN {} ELSE @]

-----------------------------------------------------------------------------
(* Actions of the GUI thread *)

Gui == tcWin.over = "" /\ tcWin.dialog # "quitting"
Free == Gui /\ tcWin.stack = <<>>
Spend(what) == tcLeft[what] > 0 /\ tcLeft' = [tcLeft EXCEPT ![what] = @ - 1]

\* refresh() of the open dialog queues an update of the tab it shows
Becomes(w) ==
  /\ tcWin' = [w EXCEPT !.refresh = FALSE]
  /\ IF w.refresh THEN \E p \in PropNames : tcJobs' = Append(tcJobs, <<"update", TcProps[p].cat>>)
     ELSE UNCHANGED tcJobs

TcInit ==
  /\ tcWin = NewWindow /\ tcPlugged = TcCameras /\ tcMonitor = <<>> /\ tcList = TcCameras
  /\ tcPosted = <<>> /\ tcErrors = {} /\ tcReg = [c \in TcCameras |-> [p \in PropNames |-> 0]]
  /\ tcBox = [p \in PropNames |-> NewBox] /\ tcJobs = <<>> /\ tcWork = <<>> /\ tcFetched = {}
  /\ tcTimers = {} /\ tcRechecks = {} /\ tcMeant = [p \in PropNames |-> {}] /\ tcLeft \in TcBudgets

\* the serial number given at the start
open_device ==
  /\ Free /\ tcWin.made = 0 /\ tcWin.selected = {} /\ Spend("clicks")
  /\ \E c \in tcList : \E x \in open_pipeline([tcWin EXCEPT !.selected = {c}], "Auto") : Becomes(x)
  /\ UNCHANGED <<tcIndex, tcPosted, tcTimers, tcWidgets>>
on_actionOpen_Device_triggered ==
  /\ Free /\ Spend("clicks")
  /\ Becomes(Push(tcWin, Frame("devices", SetToSeq(tcList), {}, "")))
  /\ UNCHANGED <<tcIndex, tcPosted, tcTimers, tcWidgets>>
on_listWidget_currentItemChanged ==
  /\ Gui /\ tcWin.stack # <<>> /\ Top(tcWin).what = "devices"
  /\ \E c \in ToSet(Top(tcWin).shown) : Top(tcWin).pick # {c} /\ Becomes(Push(Pop(tcWin), [Top(tcWin) EXCEPT !.pick = {c}]))
  /\ UNCHANGED <<tcIndex, tcPosted, tcTimers, tcWidgets, tcLeft>>
open_device_accepted ==
  /\ Gui /\ tcWin.stack # <<>> /\ Top(tcWin).what = "devices"
  /\ \E handling \in {"Auto", "Dialog"} :
       \E w \in {[(IF tcWin.pipe # 0 THEN close_before_open(CloseDialog(Pop(tcWin))) ELSE Pop(tcWin))
                    EXCEPT !.selected = Top(tcWin).pick]} :
         \E x \in open_pipeline(w, handling) : Becomes(x)
  /\ UNCHANGED <<tcIndex, tcPosted, tcTimers, tcWidgets, tcLeft>>
open_format_triggered ==
  /\ Free /\ tcWin.gui /\ Spend("clicks")
  /\ Becomes(Push(tcWin, Frame("format", <<>>, {}, "change")))
  /\ UNCHANGED <<tcIndex, tcPosted, tcTimers, tcWidgets>>
open_format_dialog ==
  /\ Gui /\ tcWin.stack # <<>> /\ Top(tcWin).what = "format"
  /\ \/ Top(tcWin).next = "open" /\ Becomes(start_pipeline(Pop(tcWin)))
     \/ Top(tcWin).next = "open" /\ Becomes(close_pipeline(Pop(tcWin)))
     \/ Top(tcWin).next = "change" /\ \E x \in open_pipeline(Pop(tcWin), "Static") : Becomes(x)
     \/ Top(tcWin).next = "change" /\ Becomes(Pop(tcWin))
  /\ UNCHANGED <<tcIndex, tcPosted, tcTimers, tcWidgets, tcLeft>>
\* closing the message box lets the slots behind device_lost_cb run
DismissBox ==
  /\ Gui /\ tcWin.stack # <<>> /\ Top(tcWin).what \in {"failed", "lost", "devices"}
  /\ \E x \in IF Top(tcWin).next = "slots" THEN lost_device(Pop(tcWin), CHOOSE c \in Top(tcWin).pick : TRUE) ELSE {Pop(tcWin)} : Becomes(x)
  /\ UNCHANGED <<tcIndex, tcPosted, tcTimers, tcWidgets, tcLeft>>

save_video_triggered ==
  /\ Free /\ tcWin.gui /\ Spend("clicks")
  /\ Becomes(CASE tcWin.saver = 0 -> [tcWin EXCEPT !.saver = tcWin.pipe]
               [] tcWin.saver # 0 /\ tcWin.saver # tcWin.pipe -> Crash(tcWin, "stale recorder")
               [] OTHER -> [tcWin EXCEPT !.eos = TRUE])
  /\ UNCHANGED <<tcIndex, tcPosted, tcTimers, tcWidgets>>
\* the forwarded end of the recorded stream
destroy_pipeline ==
  /\ Gui /\ tcWin.eos /\ Becomes([tcWin EXCEPT !.saver = 0, !.eos = FALSE])
  /\ UNCHANGED <<tcIndex, tcPosted, tcTimers, tcWidgets, tcLeft>>
on_actionQuit_triggered ==
  /\ Free /\ tcLeft.clicks = 0 /\ Becomes([close_pipeline(tcWin) EXCEPT !.over = "quit"])
  /\ UNCHANGED <<tcIndex, tcPosted, tcTimers, tcWidgets, tcLeft>>

\* a bus is flushed when its pipeline is closed
bus_callback ==
  /\ Gui /\ tcWin.pipe \in tcErrors
  /\ Becomes(device_lost(tcWin, CHOOSE c \in tcWin.cam : TRUE, "")) /\ tcErrors' = tcErrors \ {tcWin.pipe}
  /\ UNCHANGED <<tcPlugged, tcMonitor, tcList, tcPosted, tcTimers, tcWidgets, tcLeft>>
bus_function ==
  /\ Gui /\ tcMonitor # <<>> /\ tcMonitor' = Tail(tcMonitor)
  /\ LET c == Head(tcMonitor)[2]
     IN \/ /\ Head(tcMonitor)[1] = "added" /\ tcList' = tcList \union {c}
           /\ tcPosted' = IF c \in tcList THEN tcPosted ELSE Append(tcPosted, <<"new", c>>)
        \/ /\ Head(tcMonitor)[1] = "removed" /\ tcList' = tcList \ {c}
           /\ tcPosted' = Append(tcPosted, <<"lost", c>>)
  /\ UNCHANGED <<tcWin, tcPlugged, tcErrors, tcJobs, tcTimers, tcWidgets, tcLeft>>

\* an error text is not a serial number, so device_lost returns
emit_error_stuff(posted) == Append(posted, <<"error", "">>)
Deliver ==
  /\ Gui /\ tcPosted # <<>> /\ tcPosted' = Tail(tcPosted)
  /\ LET e == Head(tcPosted)
     IN \/ e[1] = "new" /\ Becomes(new_device(tcWin, e[2])) /\ UNCHANGED <<tcBox, tcMeant>>
        \/ /\ e[1] = "lost"
           /\ \E w \in {device_lost_cb(tcWin, e[2])} :
                \E x \in IF w # tcWin THEN {w} ELSE lost_device(w, e[2]) : Becomes(x)
           /\ UNCHANGED <<tcBox, tcMeant>>
        \/ e[1] = "error" /\ UNCHANGED <<tcWin, tcJobs, tcBox, tcMeant>>
        \/ /\ e[1] = "slider_changed"
           /\ tcBox' = [tcBox EXCEPT ![e[2]].val = e[3]] /\ tcMeant' = Entered(e[2], e[3])
           /\ tcJobs' = Append(tcJobs, <<"write", e[2]>>) /\ UNCHANGED tcWin
        \/ /\ e[1] = "spinbox_changed" /\ tcMeant' = Kept(e[2])
           /\ tcJobs' = Append(tcJobs, <<"write", e[2]>>) /\ UNCHANGED <<tcWin, tcBox>>
  /\ UNCHANGED <<tcIndex, tcTimers, tcReg, tcWork, tcFetched, tcRechecks, tcLeft>>

-----------------------------------------------------------------------------
(* The property dialog *)

\* the widgets read the camera when they are made, and start their timers
open_property_dialog ==
  /\ Free /\ tcWin.gui /\ tcWin.dialog = "none" /\ tcWin.pipe # 0 /\ Spend("clicks")
  /\ Becomes([tcWin EXCEPT !.dialog = "open", !.of = tcWin.cam, !.dialogs = @ + 1])
  /\ LET c == CHOOSE x \in tcWin.cam : TRUE
     IN /\ tcBox' = [p \in PropNames |-> Updated(p, NewBox, Fetched(c, p), FALSE)]
        /\ tcTimers' = tcTimers \union {<<tcWin.dialogs + 1, p>> : p \in {q \in PropNames : StartsTimer(q, Fetched(c, q))}}
  /\ tcMeant' = [p \in PropNames |-> {}]
  /\ UNCHANGED <<tcIndex, tcPosted, tcReg, tcWork, tcFetched, tcRechecks>>
\* finished() clears p_property_dialog, the dialog is deleted later
close_property_dialog ==
  /\ Free /\ tcWin.dialog = "open" /\ Spend("clicks") /\ Becomes(CloseDialog(tcWin))
  /\ UNCHANGED <<tcIndex, tcPosted, tcTimers, tcWidgets>>
refresh ==
  /\ Free /\ tcWin.dialog = "open" /\ Spend("edits") /\ Becomes([tcWin EXCEPT !.refresh = TRUE])
  /\ UNCHANGED <<tcIndex, tcPosted, tcTimers, tcWidgets>>
\* ~PropertyDialog: the worker ends its slot and takes no other
quit_worker ==
  /\ Gui /\ tcWin.dialog = "dying" /\ Len(tcWin.stack) <= tcWin.level
  /\ tcWin' = [tcWin EXCEPT !.dialog = "quitting"]
  /\ UNCHANGED <<tcIndex, tcPosted, tcTimers, tcWidgets, tcJobs, tcLeft>>
\* events posted to the widgets go with them
wait_worker ==
  /\ tcWin.dialog = "quitting" /\ tcWork = <<>>
  /\ tcWin' = [tcWin EXCEPT !.dialog = "none", !.of = {}] /\ tcJobs' = <<>> /\ tcRechecks' = {}
  /\ tcPosted' = SelectSeq(tcPosted, LAMBDA e : e[1] \in {"new", "lost"})
  /\ tcMeant' = [p \in PropNames |-> {}]
  /\ UNCHANGED <<tcIndex, tcTimers, tcReg, tcBox, tcWork, tcFetched, tcLeft>>

Edit == Free /\ tcWin.dialog = "open" /\ Spend("edits")
Announce(p) == tcJobs' = Append(tcJobs, <<"write", p>>)
Show(p, v) == tcBox[p].val # v /\ tcBox' = [tcBox EXCEPT ![p].val = v]
IntWidget_spinbox_changed(p, v) ==
  /\ TcProps[p].kind = "Int" /\ tcBox[p].on /\ v # Once /\ Edit
  /\ Show(p, v) /\ tcMeant' = Entered(p, v) /\ Announce(p)
  /\ UNCHANGED <<tcIndex, tcWin, tcPosted, tcTimers, tcReg, tcWork, tcFetched, tcRechecks>>
\* the box of a float tells its widget in a queued call
DoubleWidget_box_changed(p, v) ==
  /\ TcProps[p].kind = "Double" /\ tcBox[p].on /\ v # Once /\ Edit
  /\ Show(p, v) /\ tcMeant' = Entered(p, v) /\ tcPosted' = Append(tcPosted, <<"spinbox_changed", p>>)
  /\ UNCHANGED <<tcIndex, tcWin, tcJobs, tcTimers, tcReg, tcWork, tcFetched, tcRechecks>>
slider_moved(p, v) ==
  /\ TcProps[p].kind \in {"Int", "Double"} /\ tcBox[p].slide /\ tcBox[p].val # v /\ v # Once /\ Edit
  /\ tcPosted' = Append(tcPosted, <<"slider_changed", p, v>>)
  /\ UNCHANGED <<tcIndex, tcWin, tcJobs, tcTimers, tcWidgets>>
BoolWidget_checkbox_changed(p, v) ==
  /\ TcProps[p].kind = "Bool" /\ tcBox[p].on /\ v # Once /\ Edit
  /\ Show(p, v) /\ tcMeant' = Entered(p, v) /\ Announce(p)
  /\ UNCHANGED <<tcIndex, tcWin, tcPosted, tcTimers, tcReg, tcWork, tcFetched, tcRechecks>>
ButtonWidget_got_clicked(p) ==
  /\ TcProps[p].kind = "Button" /\ tcBox[p].on /\ Edit /\ Announce(p)
  /\ UNCHANGED <<tcIndex, tcWin, tcPosted, tcTimers, tcWidgets>>
EnumWidget_drop_down_changed(p, v) ==
  /\ TcProps[p].kind = "Enum" /\ tcBox[p].on /\ Edit
  /\ Show(p, v) /\ tcMeant' = Entered(p, v) /\ Announce(p)
  /\ tcTimers' = IF v = Once THEN tcTimers \union {<<tcWin.dialogs, p>>} ELSE tcTimers
  /\ UNCHANGED <<tcIndex, tcWin, tcPosted, tcReg, tcWork, tcFetched, tcRechecks>>
\* the timer of a widget is not stopped when the widget is deleted
TimerFires ==
  /\ Gui
  /\ \E t \in tcTimers :
       /\ tcTimers' = tcTimers \ {t}
       /\ IF tcWin.dialog # "none" /\ t[1] = tcWin.dialogs
          THEN tcJobs' = Append(tcJobs, <<"update", TcProps[t[2]].cat>>) /\ UNCHANGED tcWin
          ELSE tcWin' = Crash(tcWin, "dead widget") /\ UNCHANGED tcJobs
  /\ UNCHANGED <<tcIndex, tcPosted, tcWidgets, tcLeft>>

-----------------------------------------------------------------------------
(* Actions of the worker thread *)

TakeSlot ==
  /\ tcWin.over = "" /\ tcWin.dialog \in {"open", "dying"} /\ tcWork = <<>>
  /\ \/ tcJobs # <<>> /\ tcWork' = Slot(Head(tcJobs)) /\ tcJobs' = Tail(tcJobs) /\ UNCHANGED tcRechecks
     \/ \E cat \in tcRechecks : tcWork' = update_category(cat) /\ tcRechecks' = tcRechecks \ {cat} /\ UNCHANGED tcJobs
  /\ UNCHANGED <<tcWin, tcIndex, tcPosted, tcTimers, tcReg, tcBox, tcFetched, tcMeant, tcLeft>>
\* what the worker writes is what the widget shows when it gets there
CameraTakes(p) == Alive /\ Writable(p, Fetched(Opened, p)) /\ tcBox[p].val # NoEntry
Given(p) == IF TcProps[p].kind = "Button" THEN tcReg[Opened][p] ELSE tcBox[p].val
set_in_backend ==
  /\ tcWork # <<>> /\ Head(tcWork)[1] = "set" /\ tcWork' = Tail(tcWork)
  /\ \E p \in {Head(tcWork)[2]} :
       \/ CameraTakes(p) /\ tcReg' = [tcReg EXCEPT ![Opened][p] = Given(p)] /\ UNCHANGED tcPosted
       \/ ~CameraTakes(p) /\ tcPosted' = (IF Alive THEN tcPosted ELSE emit_error_stuff(tcPosted)) /\ UNCHANGED tcReg
  /\ UNCHANGED <<tcWin, tcIndex, tcJobs, tcTimers, tcBox, tcFetched, tcRechecks, tcMeant, tcLeft>>
\* update() reads, then shows; when it cannot read it shows nothing
update_fetch ==
  /\ tcWork # <<>> /\ Head(tcWork)[1] = "fetch"
  /\ \/ Alive /\ tcFetched' = {Fetched(Opened, Head(tcWork)[2])} /\ tcWork' = Tail(tcWork) /\ UNCHANGED tcPosted
     \/ ~Alive /\ tcFetched' = {} /\ tcWork' = Tail(Tail(tcWork)) /\ tcPosted' = emit_error_stuff(tcPosted)
  /\ UNCHANGED <<tcWin, tcIndex, tcJobs, tcTimers, tcReg, tcBox, tcRechecks, tcMeant, tcLeft>>
update_show ==
  /\ tcWork # <<>> /\ Head(tcWork)[1] = "show" /\ tcWork' = Tail(tcWork) /\ tcFetched' = {}
  /\ \E p \in {Head(tcWork)[2]}, got \in tcFetched, held \in BOOLEAN :
       /\ held => tcBox[p].slide
       /\ tcBox' = [tcBox EXCEPT ![p] = Updated(p, @, got, held)]
       /\ tcRechecks' = IF StartsTimer(p, got) THEN tcRechecks \union {TcProps[p].cat} ELSE tcRechecks
       /\ tcMeant' = IF Contains(tcPosted, <<"spinbox_changed", p>>) THEN [tcMeant EXCEPT ![p] = {}] ELSE tcMeant
  /\ UNCHANGED <<tcWin, tcIndex, tcPosted, tcJobs, tcTimers, tcReg, tcLeft>>

-----------------------------------------------------------------------------
(* The cameras *)

Unplug ==
  /\ tcWin.over = "" /\ Spend("plugs")
  /\ \E c \in tcPlugged :
       /\ tcPlugged' = tcPlugged \ {c} /\ tcMonitor' = Append(tcMonitor, <<"removed", c>>)
       /\ tcErrors' = IF tcWin.cam = {c} /\ tcWin.state \in {"async", "playing"} THEN tcErrors \union {tcWin.pipe} ELSE tcErrors
  /\ UNCHANGED <<tcWin, tcList, tcPosted, tcJobs, tcTimers, tcWidgets>>
Plug ==
  /\ tcWin.over = "" /\ Spend("plugs")
  /\ \E c \in TcCameras \ tcPlugged : tcPlugged' = tcPlugged \union {c} /\ tcMonitor' = Append(tcMonitor, <<"added", c>>)
  /\ UNCHANGED <<tcWin, tcList, tcPosted, tcErrors, tcJobs, tcTimers, tcWidgets>>
\* without an image, or without a trigger, the pipeline stays in its state change
FirstImage ==
  /\ tcWin.over = "" /\ tcWin.state = "async" /\ tcWin.cam \subseteq tcPlugged
  /\ tcWin' = [tcWin EXCEPT !.state = "playing"]
  /\ UNCHANGED <<tcIndex, tcPosted, tcJobs, tcTimers, tcWidgets, tcLeft>>
OnceEnds ==
  /\ tcWin.over = ""
  /\ \E c \in tcPlugged : \E p \in PropNames :
       tcReg[c][p] = Once /\ tcReg' = [tcReg EXCEPT ![c][p] = 0]
  /\ UNCHANGED <<tcWin, tcIndex, tcPosted, tcJobs, tcWork, tcTimers, tcBox, tcFetched, tcRechecks, tcMeant, tcLeft>>

TcNext ==
  \/ open_device \/ on_actionOpen_Device_triggered \/ on_listWidget_currentItemChanged \/ open_device_accepted
  \/ open_format_triggered \/ open_format_dialog \/ DismissBox \/ save_video_triggered \/ destroy_pipeline
  \/ on_actionQuit_triggered \/ bus_callback \/ bus_function \/ Deliver
  \/ open_property_dialog \/ close_property_dialog \/ refresh \/ quit_worker \/ wait_worker
  \/ \E p \in PropNames, v \in 0..Once :
       \/ IntWidget_spinbox_changed(p, v) \/ DoubleWidget_box_changed(p, v) \/ slider_moved(p, v)
       \/ BoolWidget_checkbox_changed(p, v) \/ EnumWidget_drop_down_changed(p, v)
  \/ \E p \in PropNames : ButtonWidget_got_clicked(p)
  \/ TimerFires \/ TakeSlot \/ set_in_backend \/ update_fetch \/ update_show
  \/ Unplug \/ Plug \/ FirstImage \/ OnceEnds
TcSpec == TcInit /\ [][TcNext]_tcVars

-----------------------------------------------------------------------------
(* The window and its property dialog are those of the camera that was     *)
(* selected, and the program does not touch a pipeline or a widget that is *)
(* gone, whatever the order in which cameras come and go, dialogs are      *)
(* nested and timers fire (MainWindow, PropertyDialog).  The ways the code *)
(* leaves open are named: the camera is lost while its format is being     *)
(* chosen, the pipeline is closed during a recording, a format change that *)
(* finds the pipeline waiting for an image gives the pipeline up (and a    *)
(* widget's "Once" timer may outlive the widget: TimerFires).  A pipeline  *)
(* without a source stays, with no camera and with nothing to click on.    *)
WindowFollowsSelection ==
  /\ tcWin.pipe # 0 => tcWin.cam = tcWin.selected \/ (tcWin.cam = {} /\ ~tcWin.gui /\ tcWin.state = "null")
  /\ tcWin.pipe # 0 /\ tcWin.dialog = "open" => tcWin.of = tcWin.cam \/ "gave up" \in tcWin.why
  /\ tcWin.over = "no pipeline" => "lost in dialog" \in tcWin.why
  /\ tcWin.over = "stale recorder" => "recording" \in tcWin.why

(* A value that is entered while no refresh of its widget is outstanding,  *)
(* and that the widget has announced before the next refresh, is the value *)
(* the camera is given: the worker thread reads the widget    *)
(* when it gets to the call, and refreshes the other widgets of the        *)
(* category behind the user's back (PropertyWorker::write_property).       *)
EnteredValueIsWritten ==
  [][\A p \in PropNames : \A v \in tcMeant[p] :
       tcWork # <<>> /\ Head(tcWork) = <<"set", p>> /\ tcWork' # tcWork /\ CameraTakes(p) => tcReg'[Opened][p] = v]_tcVars
=============================================================================
