# TLA+ specifications of tiscamera

tiscamera is the Linux SDK for cameras of The Imaging Source. This directory
holds TLA+ specifications of its backends, its library, its GStreamer elements,
its network code and its viewer; TLC configurations that check them on small
instances; and theorems that TLAPS proves for every instance. Paths below are
relative to the root of the repository; `PROJECT.json` lists them with one `src/`
more (`src/v4l2/V4l2Device.cpp` is `src/src/v4l2/V4l2Device.cpp` there). It maps
every definition to the lines it models and lists all components and hazards.

## 1. The system

An image travels through three layers.

1. A **backend** (`DeviceInterface`) fills buffers in a thread of its own: V4L2
   (`src/v4l2`), Aravis for GigE and USB3 Vision (`src/aravis`), libusb for two
   special cameras (`src/libusb`) and a virtual camera (`src/virtcam`).
2. **libtcam** (`CaptureDeviceImpl`, `ImageSink`) configures a backend with a pool of
   buffers, offers its properties, adds software properties (automatic exposure,
   gain, iris, white balance and focus) and calls the sink. The **device index**
   (`Indexer`) lists the devices in a thread and reports lost ones.
3. **GStreamer elements**: `tcammainsrc` with its buffer pool owns a device and a
   queue of images; `tcamsrc` finds a camera and opens the element for it;
   `tcambin` builds source, filter and converter; `tcamconvert` applies white balance
   and debayers; a device provider announces cameras.

Beside this path are the network code for GigE cameras (`src/tcam-network` and
`tools/tcam-gigetool`: discovery, register access, firmware upgrade), a daemon that
shares a camera list between processes (`tools/tcam-gige-daemon`), and the viewer
`tools/tcam-capture`.

## 2. Modules

| Module | Models | Run |
|---|---|---|
| `BufferLoop` | what every backend promises about buffers (abstract) | |
| `VirtcamDevice` | the virtual camera: queue, stream thread, trigger | `virtcam` |
| `V4l2Stream` | `V4l2Device.cpp`: buffers, `stream()`, `requeue_buffer`, start, stop | `v4l2` |
| `V4l2Watchdog` | the time-out bookkeeping of `stream()` | `library` |
| `AravisStream` | `AravisDeviceStream.cpp`: stream, callback, requeue, stop | `aravis` |
| `Afu420` | streaming of the AFU420, with `deliver_thread` | `usb` |
| `Afu050` | streaming of the AFU050: JPEG images cut into transfers | `usb` |
| `Afu420Control` | formats, regions and exposure of the AFU420 | `usb` |
| `Backends` | listing, opening, formats and scaling of the backends | `library` |
| `DeviceProps` | the properties the backends make of a camera's controls | `library` |
| `Indexer` | the device index and its users | `indexer` |
| `SoftwareProperties` | the automatics of libtcam against the application's calls | `library` |
| `AutoRegion` | the part of an image the automatics look at | `library` |
| `AutoFocus` | the one-push focus search | `usb` |
| `PixelPack` | repacking of lines, bit by bit, in SSE, NEON and C | `library` |
| `ImageFilter` | white balance, conversion and debayering of an image | `library` |
| `TcamProp` | the tcam property interface: nodes, guards, applying settings | `library` |
| `MainSrc` | `tcammainsrc`, its buffer pool and device state | `mainsrc` |
| `TcamSrc` | `tcamsrc`: choice of the camera, opening, settings | `gst` |
| `TcamBin` | `tcambin`: building and taking apart the bin | `gst` |
| `CapsSelect` | caps of a camera, negotiation, choice of `tcambin` | `gst` |
| `TcamConvert` | `tcamconvert`: claiming the white balance of a camera | `gst` |
| `DeviceProvider` | the update thread against start, stop and dispose | `gst` |
| `Gvcp` | `Camera.cpp`: register requests over a network that loses packets | `gige` |
| `Firmware` | firmware uploads with failing operations | `gige` |
| `GigeTool` | discovery threads and the commands of the tool | `gige` |
| `GigeDaemon` | lock file, shared memory, semaphore, worker, readers | `gige_daemon` |
| `GigeTracking` | smoothing of the list of network cameras | `gige_daemon` |
| `TcamCapture` | the viewer: window, dialogs, property worker, index | `library` |
| `MC*` | instances for TLC, and the composition of several parts in a run | |
| `*_proofs` | theorems and their proofs | |

Conventions. A variable that is a *program point* (`thread`, `task`, a `pc` field)
says where a thread is between two steps. A step ends wherever another thread may
act in between: at a lock, a wait, a system call, or an access to a flag that no lock
protects. A mutex that is never held across steps needs no variable. Undefined
behaviour (a freed or null pointer that is used) is recorded in a variable (`afUB`,
`j5UB`, `freedTwice`, ...) instead of being given a meaning. A *history* variable records what
an application asked for, so that a property can relate it to what is in force. The
letters that begin a name (`gd`, `af`, `sw`, ...) name its module where several modules
meet in one run. Definitions whose comment begins with "Mutant" are broken versions
of the definition that follows; with them in its place the property must fail.

### Backends: BufferLoop and its implementations

`BufferLoop` has two sets: buffers the device may write into, and buffers delivered
and not yet returned. A buffer is delivered only from the first set, goes back only
from the second, and is never in both. `VirtcamDevice`, `V4l2Stream` and
`AravisStream` are shown to implement it; each gives its own expression for the first
set, including the buffers a thread is in the middle of handling.

- **VirtcamDevice.** The trigger flags are atomics the loop reads twice, and
  `SetTriggerMode` and `ExecuteTrigger` may act in between. `start_stream` begins with
  `stop_stream`, hence two values of `control` in `join()`.
- **V4l2Stream.** The kernel driver (external) has one state per index: idle, queued or
  done. `buffer_info::is_queued` is written without a lock, so `requeue_buffer` has three
  steps wherever it runs, and `stop_stream` three too. Any `VIDIOC_QBUF` and
  `VIDIOC_STREAMON` may fail. The counters of the same loop are `V4l2Watchdog`; they do not
  influence the buffers.
- **AravisStream.** Two locks: `arv_camera_access_mutex_`, and the one inside the stream
  that is held while the new-buffer signal is emitted (external). `stop_stream` has four
  steps with the mutex held from the first to the last; the callback may write a
  property or requeue its image, both of which take the mutex.
- **Afu420, Afu050.** The program, libusb's event thread and (AFU420) the deliver thread.
  libusb completes, fails and cancels transfers at any time, and the camera may be
  unplugged. Image data are counted in units (AFU420) or are bytes of which only the
  JPEG markers matter (AFU050).
- **Afu420Control, Backends, DeviceProps.** A call is a sequence of accesses to the
  camera, any of which may fail; what the driver keeps beside the registers may then
  disagree with them. The control tables are represented by the entries that behave
  differently.

### Library

- **Indexer.** Users fetch the list, open a device, register for its loss and close it
  again; the last one destroys the indexer. `remove_device_lost` removes the first
  registration with the function pointer it is given, which is the same for all users.
- **SoftwareProperties.** `auto_pass` copies the parameters under `m_property_mtx`,
  computes, and writes back without the mutex, first to the parameters and then to the
  camera; `swTodo` is what it still has to write. What the image shows is a choice among
  target values.
- **AutoRegion, AutoFocus.** The calculations are the code's, in integers; what an image
  shows (contrast, sharpness) is a choice.
- **PixelPack, ImageFilter.** A bit, or a sample, is a value that knows where it comes
  from, and an instruction is the permutation it performs, so a conversion is right when
  every bit of the target is the one the layout asks for. The reference is the layout
  itself, not another implementation.
- **TcamProp.** `tpRefs` counts the references of every node; threads fetch, keep, use and
  release nodes while the element opens and closes cameras.

### GStreamer elements

`MainSrc` has five threads: `change_state`, the streaming thread of `GstBaseSrc`, the
capture callback, downstream, and the device-lost callback. `Dangling` stands for a
pointer whose buffer the pool has deleted. What is assumed of GStreamer (external):
`create` is called with the live lock held, and pausing a live source and setting the
flushing flag take the same lock; the element has no `unlock` method that would end the
wait; a buffer is pushed without the live lock; downstream has returned all buffers when
the pad is deactivated; caps do not change while the stream runs. Spurious wake-ups of
the condition variable only repeat a test and are left out.

`TcamSrc` and `TcamBin` keep the state of an element in one record, because what an
opening that fails half way leaves in it is what their properties are about. Every step
of an opening may fail; `TcamBin` opens its source with the function `TcamSrc` opens with.
`CapsSelect` takes the choice of caps as pure functions over all
small descriptions of a camera and a set of peers. `TcamConvert` counts the openings of a
camera, so that a handle or factor of an earlier opening can be told from a current one; the
"device-open" of a source and its state READY are two steps, and a converter may be attached
in between.

### Network, daemon and viewer

`Gvcp` turns every call of `Camera` into a program of register requests with ids and
repetitions; the network (external) loses and delays packets, so that an answer can
arrive while another request waits. `Firmware` is a sequence of device operations that
fail before or after they took effect; the bytes of a memory area are "old", "erased",
"new" or "bad". In `GigeTool` addresses are sets of bit positions, so that masks are
intersections. `GigeDaemon` models processes that may all find no lock file, a refused start
that removes the file of the running daemon, early signals, System V semaphores that every opener sets to 1, and readers that are killed.
In `TcamCapture` a modal dialog is a nested event loop: the handler that opened it stops
there while other events are handled.

## 3. Model checking

Ten runs pass. Modules that share no state are checked side by side in one run: a
behaviour is one of a single part, chosen in the initial state.

| Run | Distinct states | What it shows |
|---|---|---|
| `virtcam` | 3 712 | a buffer has one owner; `BufferLoop` is implemented; `stop_stream` returns |
| `v4l2` | 12 574 | `get_frame` works on a buffer of its own; the driver never has a buffer the sink reads; `BufferLoop` is implemented; `stop_stream` returns |
| `aravis` | 1 362 | nothing is pushed to a destroyed stream, no callback runs while it is destroyed; `BufferLoop` is implemented; `stop_stream` returns or a callback waits for its mutex |
| `indexer` | 22 436 | as many registrations as open devices; a registered user is told of a loss; the first list arrives; the destructor returns |
| `mainsrc` | 20 942 | buffers are neither lost nor doubled; no deleted buffer reaches the pipeline; the device stops before its buffers go; EOS after exactly `num-buffers`; with a free-running camera state changes complete and images go on being pushed |
| `library` | 478 405 | ten properties of nine parts, below |
| `usb` | 951 896 | `StreamHolds`, `JpegStreamHolds`, `RegionsHold`, `FocusStaysInRange`; a stop and a focus run end |
| `gst` | 1 306 942 | `SourceHolds`, `BinHolds`, `NegotiationHolds`, `ConvertHolds`, `ProviderHolds` |
| `gige` | 442 294 | `CallsHold`, `UploadsHold`, `CommandsHold`; everything ends |
| `gige_daemon` | 266 016 | `DaemonHolds`, `TrackingHolds`; a stopped daemon ends |

The properties of the last five, with the exceptions the code makes necessary. An
exception is part of the property: it names the only way in which the statement fails.

- `SettingsHold`: a value set by hand holds, an automatic stays within the limits set, the
  white balance runs in the mode asked for. Exceptions: a pass that was writing when the
  call came, and a one-push on images of floats that is done without changing a factor.
- `MeasuresItsRegion`: an image is measured in a part of it that is not empty, and a preset
  is the part of *this* image it names.
- `FiltersHold`: every target bit or sample comes from the right place, nothing is read
  behind a line or written outside of it. Exceptions: SSE debayering of images 18 pixels wide, and
  images so narrow that there is no function for them (section 4).
- `NodesAreSafe`: a property node is used only while its camera is open, is not freed while
  somebody has it, and is freed afterwards. Exception: nodes asked for as a wrong type or
  created twice keep a reference too many.
- `AppliesWhatCanBe`: settings given in any order take effect, unless a property does not
  exist, cannot have the value, or is locked in the end.
- `PropertiesHold`: locks follow the camera, an accepted value is in use to within a step, a
  read returns the register of its own property. Exceptions: two threads setting the same
  property, a state that cannot be read back, values the AFU drivers take without looking at
  their range, and on these cameras a failed write that counts as done and a failed read that
  returns 0 or the error number.
- `BackendHolds`: the camera that is opened is the one that was listed (a UVC camera can be
  another one after replugging, as it is opened by its device node), and a listed format
  for which there is room at the current offset, with the old scaling, the new one and the
  mixture in between, is set and leaves the trigger alone.
- `WarnAfterRowOfMisses`: a warning about lost frames follows a full row of misses.
- `WindowFollowsSelection`, `EnteredValueIsWritten`: window and property dialog are those of
  the selected camera; a value entered while no refresh of its widget is outstanding is the
  value the camera gets. Exceptions: a camera lost while its format is chosen, a pipeline
  closed during a recording, a format change that gives the pipeline up.
- `StreamHolds` (AFU420): an image has one header and one holder and is complete unless the
  application asked for incomplete ones when it was pushed, no transfer is lost but those that
  finished before `is_stream_on_` was set, undefined behaviour needs a stop, restart or
  destruction that overlaps a callback.
- `JpegStreamHolds` (AFU050): every image of a stream started once arrives, whole and in order,
  unless a marker was cut by the end of a transfer, no buffer was free or it was too big; a loss
  is reported once; a pool's buffer is overrun only if it is smaller than the driver's own.
- `RegionsHold`: the region lies on the sensor, the format in force is the camera's once one was
  set, an offered format can be set while the offsets are automatic, over failing transfers.
- `SourceHolds`, `BinHolds`: after openings that failed at any step the camera, the initial
  properties and the settings are those asked for; no camera is open in NULL. Exceptions: a
  setting given to a camera that was closed since, the id that an assigned device leaves behind,
  a ghost pad after closing from READY.
- `NegotiationHolds`: negotiated caps are common to both sides, and of the size the code's rules
  give (section 4); picked caps are offered, both ends of a range are listed, sizes are in order.
- `ConvertHolds`: an image is white-balanced at most once, with the factors of its own camera,
  and a converter misses the opening of its camera only in the gap between "device-open" and
  READY. Exceptions: a factor that cannot be read, a claim the camera refused, that missed
  opening, and a source exchanged further upstream.
- `ProviderHolds`: nothing is announced twice, what stays plugged in is announced, stop returns.
- `CallsHold`: a success is the answer to that request, a request is repeated as often as its
  retries allow unless a send throws or a late answer to an earlier request ends it, and without
  faults the camera is left as it was found.
- `UploadsHold`: success means written, the MachXO2 never loads half a configuration, foreign
  flash blocks are kept, and without faults an accepted upload succeeds. Exceptions: the three
  ways in which the code loses a failure, and items without data (section 4).
- `CommandsHold`: a camera is listed once, a serial number wins over a name, firmware goes only to
  a camera that is reachable and addresses only if it stays so. Exception: `rescue`.
- `DaemonHolds`: until one is stopped a single daemon gets past each lock file, and a single one at
  all; no worker writes to a removed segment; a list is read whole. Exceptions: a refused start,
  which removes the lock file, a start without a lock file while another daemon is alive, and a
  semaphore that was reset.
- `TrackingHolds`: no camera twice, a short loss hidden, a long one shown.

### Bounds

- **Buffers and transfers.** Three buffers in two pools (backends): a buffer of an old
  pool can come back while another one is in the device and a third one in a thread. Two in
  `MainSrc` and the libusb cameras: one waits while the other is used; the AFU420 pool is
  configured anew for a second stream. `NumBuffers` 3 is one more than the pool holds.
- **Threads and processes.** Two users and two devices in `Indexer`, the least in which one
  registration is taken for another; two threads in `TcamProp` and `DeviceProps`; a reader and three
  daemons, as the second start must be refused before the third makes another daemon.
- **Repeated calls.** `SwCalls`, `ArCalls`, `TpCalls`, `BkCalls`, `DvCalls`, `Max*Opens`, `Max*Sets`,
  `Max*Starts` bound how often an application acts: two to four times, so that something can be
  set, closed and opened again. `MaxPolls` 10 is above three times `lost_count_max`.
- **Faults.** `MaxFwFaults` 2 because two of the hidden failures need two; otherwise one fault per
  behaviour (`MaxFaults`, `MaxAcFaults`, `DvFaults`, ...), anywhere.
- **Widths and sizes.** The widths of `PixelPack` and `ImageFilter` lie around multiples of 8, 16 and 32
  pixels, where vector loops end. `ArImages` are around the 128 pixel squares of the focus.
  `AcOffsets` holds an offset beyond the sensor, for which unsigned differences wrap around.
- **Bytes.** All streams of six bytes out of ff, d8, d9 in all ways to cut them (`Afu050`).
- **Numbers that wrap.** `IdSpace` 32 instead of 65 536 request ids, more than a checked program
  uses while one of its packets can still be late.
- `MaxMisses` 7 is above the five misses after which a warning is due. `MaxIndex` is the length of
  the longest pool and excludes nothing.

Several of these bounds exist only for TLC: the theorems of section 5 have the same
constants without values. No symmetry sets are used, because most runs check liveness.
Deadlock is checked except in `mainsrc`, `aravis`, `aravis_deadlock` and `gige_daemon`, where the
code can really stop: after a lost device the element waits for ever, the callback and
`stop_stream` can wait for each other, and everybody waits for a semaphore whose holder was killed.

### Fairness

Threads that can run do run: weak fairness for each thread of the program, and for a call
such as `stop_stream` only once it has begun. Nothing is assumed of callers, who may never
start, stop or open anything. Strong fairness is used where a thread waits for a lock that
others keep taking and releasing: `StopStream` in `AravisStream` (the signal lock is free between
two images), `GetDeviceList` in `Indexer`, `ChangeState` in `MainSrc` (the live lock is free
whenever a buffer is pushed), `Release` in `MainSrc` (downstream returns every buffer), `LockList`
in `GigeDaemon` (the kernel serves the waiters of a semaphore in turn).

`FlowingSpec` adds that the camera keeps sending images, `FoFairness` the same for a focus run.
The timed waits (2 s in `select`, the indexer and the provider) always end, which is why a
missed notification does no harm. `CallsEnd` needs only that the host goes on: the number of
repetitions is bounded. The `library` run checks no liveness.

## 4. What the specifications say about the code

Two runs state what a comment or the documentation says and end with a counterexample:

| Run | Statement | What the code does |
|---|---|---|
| `v4l2_requeue` | "requeue the buffer so that the backend does not run out" | The work thread can deliver the buffer between `VIDIOC_QBUF` and `is_queued = true`. The flag then stays set and the buffer is ignored when it comes back. |
| `aravis_deadlock` | "stop stream guards against this by killing all callbacks" | `stop_stream` waits for a callback with the mutex that the callback waits for. |

Further behaviours the models have because the code has them; each is an exception of a
property above, or outside of what the properties promise. None was reproduced on hardware.

- With a camera that sends no image, PLAYING to PAUSED waits for the live lock held by
  `create`, which waits for an image (`gsttcammainsrc.cpp:462`).
- A lost device need not end the stream with EOS: the callback clears `is_streaming_` without
  waking `acquire_buffer`, which returns FLUSHING if it was not waiting.
- Closing one of two devices can remove the other one's registration with the index.
- After a failed `stop_acquisition` the Aravis stream lives on, and `free_stream` frees buffers
  it still owns.
- `restore_data_reapply` writes offsets and sizes in a different order than
  `restore_data_fetch` saved them, so asking for frame rates can change the region.
- `std::remove_if` without `erase` leaves entries in the list of tracked cameras; the list stays
  correct, but a loss can be reported as many periods late as there are entries.
- The loop of `tcammainsrc` that picks a resolution when several remain never runs.
- A firmware block that reads back different ends the retries as a success, a failed upload
  whose reboot request fails too is reported as a success, and so is a MachXO2 file without
  user code.
- A firmware item without data is accepted and its null pointer used; a block that does not
  verify is not written again, because `continue` leaves a `do ... while (false)`.
- `set_int` of the AFU050 reports success when the transfer failed. Both AFU drivers return 0 or
  the number of the error as the value of a register they could not read, and a state that could
  not be read unlocks the properties that depend on it.
- AFU420: until the first format is set the headers are read as 8 bit whatever the camera sends;
  `create_exposure` sets an exposure beyond its own range; a format that cannot be queried is kept
  as an empty one. With `drop-incomplete-buffer` off, incomplete images are delivered. Transfers
  that finish before `is_stream_on_` is set are not submitted again.
- AFU050: an image is copied into the buffer of the pool by its length alone, and overruns a buffer
  that is smaller than the driver's own.
- A pool for which there is no memory makes the negotiation of `tcammainsrc` fail with
  `is_streaming_` set.
- Aravis cameras whose size limits follow the scaling: the size is written before the scaling, so
  leaving binning for a larger size is refused; going from skipping to binning may succeed and
  leave a smaller image.
- `waited_seconds` of the V4L2 loop, "period elapsed for current image", is not reset when an
  image arrives, so the next timeout may be counted early.
- A one-push white balance of images of floats that is done without a change is not noticed.
- An answer to an earlier request ends the repetitions of the one that waits (`Camera.cpp` sets the
  response before it looks at the id).
- `tcam-gigetool set` with nothing but `--mode` does nothing and says nothing; `rescue` sends
  settings that were found wrong without asking.
- A daemon start that finds the lock file locked removes it, so the start after it makes a second
  daemon next to the first.
- Sizes in the negotiation of `tcammainsrc`: the comments ask for the smallest resolution that is
  bigger than the peer's, and for a high one; the code takes a largest listed size, or the smallest
  of a single structure (`gsttcammainsrc.cpp:162-194`). For a range without a standard
  resolution `front()` and `back()` of an empty list are read (`tcambind.cpp:107`).
- `tcamconvert` attached between "device-open" and READY of its source misses the opening and may
  apply the factors of an earlier camera; one whose source is exchanged further upstream stays with
  the old one until it is unlinked. An image that cannot be mapped goes on unconverted.
- On SSE and NEON there is no white balance function for images less than 16 pixels wide, and the
  lambda of `find_transform_function_wb_type` calls the null pointer (`transform_impl.cpp:298`);
  likewise `find_bayer8_to_bgra_func` for images its architecture cannot debayer. The process ends.
- `tcamsrc`: a setting the opened element does not have is dropped; after a failed opening the
  next one looks only for the device found then.
- tcambin may never open again after an opening that failed. `tcambin_create_source` leaves the
  source it could not open in the bin without a pointer to it, and the next source, which has the
  same name, is refused by `gst_bin_add` and cannot be linked (`gsttcambin.cpp:168-176`). When the
  source opens and a later element fails, that element and those before it stay in the same way.
- tcambin: `target_set` is reset only on the way down from PAUSED, so after closing from READY
  the ghost pad keeps its old target; device-caps are narrowed by each camera that is opened.
- Viewer: a pipeline text without `tcam0` leaves a pipeline without a source, one that cannot be
  parsed none at all.

## 5. Proofs

All theorems hold for every value of the constants that satisfies the named assumptions of
the modules (`PoolsAssumption`, `AfuAssumption`, `SwAssumption`, ...): pools list no buffer
twice, markers such as `NoBuffer` are not buffers, users and threads are finite in number,
limits are natural numbers (or -1 for an unlimited `num-buffers`), the transfers of the AFU420
are not empty, its formats are ones `create_formats` makes.
TLC evaluates them on the runs of the modules.

| Module | Theorems | Property of a run |
|---|---|---|
| `Library_proofs` | `TypeCorrect`, `BuffersOwnedOnce`, `Refinement` (virtual camera) | `BuffersOwned`, `ImplementsBufferLoop` |
| | `SettingsCorrect` (software properties) | `SettingsHold` |
| `V4l2Stream_proofs` | `FramesExclusive`, `DriverKeepsOut`, `OnePlace`, `Refinement` | `BuffersExclusive`, `ImplementsBufferLoop` |
| `Devices_proofs` | `RegistrationsCounted`, `DestroyedUnused`, `IndexCorrect` (index) | `IndexHolds` |
| | `NothingPushedAfterUnref`, `CallbacksSilenced`, `FreedOnce`, `StreamSafe`, `Refinement` (Aravis) | `StreamIsSafe`, `ImplementsBufferLoop` |
| `Afu420_proofs` | `StreamCorrect` | `StreamHolds` |
| `Components_proofs` | `WatchdogTypes`, `WarningsEarned` | `WarnAfterRowOfMisses` |
| | `LensStaysInRange`, `RegionMeasured`, `RegionsCorrect` | `FocusStaysInRange`, `MeasuresItsRegion`, `RegionsHold` |
| `TcamProp_proofs` | `NodesSafe` | `NodesAreSafe` |
| `Gst_proofs` | `PoolAccounted`, `DeletedNeverAcquired`, `StoppedBeforeDelete`, `EosCounted`, `PoolCorrect` | `PoolHolds` |
| | `BalancedOnce`, `ProviderAnnouncesOnce`, `SourceCorrect` | `ConvertHolds`, the safety part of `ProviderHolds`, `SourceHolds` |
| `GigeDaemon_proofs` | `DaemonCorrect` | `DaemonHolds` |

Each argument goes through an inductive invariant, stronger than what is claimed:

- **Virtual camera.** A buffer is in one place, and the thread holds one exactly at `push`.
- **V4L2.** `is_queued` cannot be relied upon, and the invariant says nothing of it but its type.
  What keeps a buffer from being queued while the sink has it is that a returned buffer leaves
  `held` before it is queued and that the driver refuses an index it has (`Returning`,
  `DriverOwns`, `FrameOwned`). `Phases` ties flag, thread and driver together.
- **Aravis.** Once the signals are off no callback runs (`Silenced`), and without a stream nothing
  is in use (`NoStreamNoUse`).
- **Indexer.** The number of registrations equals the number of open devices, because
  `remove_device_lost` always removes one, although not always the right one. This needs the
  fact that somebody using the indexer keeps it alive (`UsersHaveIndexer`).
- **AFU420.** Deliver queue, deliver thread and consumer hold different buffers, none of them queued
  (`afHeldOnce`), and the one being filled is the callback's own, except between its push and
  the choice of the next one (`afCurrentOwned`). What it holds began with one header
  (`afOneHeader`). `afCounted` balances the transfers: those with libusb, in the callback and
  seen too early make `AfTransfers` while the stream is submitted.
  `afRunning` says that a callback finds what it tested as long as the program is not in a stop.
- **AFU420 regions.** A configuration that passes `CreateResolutionConf` lies on the sensor, also
  when 16 bit sums wrap around (`AnyOffset`); one with centred offsets is never refused
  (`CentredFits`). The rest is that the register and the driver's view change together or `acClean`
  is lost.
- **Watchdog.** The misses and the countdown add up to the default, and the countdown stays above
  zero while warnings are left (`CountsMisses`).
- **Focus.** Interval and best position of a search lie inside the range (`FocusInv`), and a step is
  part of the way to an end of the interval (`PartOfTheWay`).
- **Regions of the automatics.** Presets lie in the image they were made for (`arPreset`), and
  rounding to the step takes off less than one step; the rest is arithmetic about cutting.
- **Software properties.** A value set by hand is threatened only by a pass that computed before the
  automatic was switched off; `ManualIsQuiet` says that no such write is outstanding for a control
  the property speaks of, `SetterIsManual` that a setter between its two writes has a control whose
  automatic is off. `BalanceIsLast` places the write of the white balance at the end of a pass.
- **Property nodes.** `Referenced`: the count of a node is at least the entry of the cache plus the
  threads that have fetched or keep it, and equal unless the node is an odd one. `Lists`: every
  list but the offered one is closed, which with `Timely` gives that a thread inside a node is
  inside one of the open camera. Counting needs cardinalities of sets of threads that change by
  one thread at a time.
- **MainSrc.** `Control` says where the threads can be in each state of the element and that
  nothing is in use without a pool, `Buffered` is the partition of the buffers, `Counted` relates
  what `create` has counted to what was pushed. The deleted pointers left in the queue by PAUSED to
  READY are harmless because `set_caps` empties the queue before a new pool is allocated.
- **tcamconvert.** A converter that is not linked is attached to nothing (`AttachedWhenLinked`), and its
  handles are those of the opening its source is in (`HandlesAreTheCameras`).
- **tcamsrc.** The id that is searched for is at least as particular as what was asked for, unless an
  assigned device has overwritten it (`SearchesWhatWasAsked`), and a closed element has stored
  every setting but those given to a camera closed since (`StoredWhileClosed`).
- **Daemon.** Ids of segments and semaphores only grow (`IdsGrow`); until a stop whoever got past
  `lockf` holds the lock of its inode, and until a refused start that inode is the one behind the
  name (`LockedUntilStop`); a daemon alone has the segment behind the key (`AloneWithSegment`); at most one is between lock and unlock of a semaphore that
  was not reset (`OneInside`), so a reader inside sees a whole list (`WholeList`).

The `Refinement` theorems prove that every step of a backend is a step of `BufferLoop` or leaves
its two sets alone; they are the runs' `ImplementsBufferLoop`. Two lemmas about queues without
repeats (`FetchFromQueue`, `AppendToQueue`) stand in both modules that use them, because every
module the prover has to load for them makes each of its proofs slower.

**Only model-checked**, and why:

- all liveness (`StopReturns`, `StopReturnsOrBlocks`, `IndexLives`, `StreamLives`, `RunsEnd`, `CallsEnd`,
  `StopEnds`, the two liveness parts of `ProviderHolds`), because it depends on fairness, and the two
  counterexamples;
- `BinHolds` and `PropertiesHold`: their modules use recursive operators;
- `JpegStreamHolds`, `TrackingHolds`, `UploadsHold`, `CommandsHold`, `NegotiationHolds`: they compare with what a
  fold over a sequence or a set computes (the images in a stream of bytes, the entries of a list, the
  operations of a package), which takes induction over data;
- `CallsHold`: it depends on counting the requests of each program against the space of ids;
- `FiltersHold`: a statement about tables of permutations for given widths;
- `BackendHolds`, `AppliesWhatCanBe`, `WindowFollowsSelection`, `EnteredValueIsWritten`: not attempted. The
  first two follow sequences of writes of any length, and the invariants of the viewer range over
  its queue of posted events.

## 6. What is not modelled

Pixel arithmetic (statistics, colour matrices, YUV), the tables of formats, caps and controls
beyond the entries that behave differently, file formats (XML, zip, JSON), logging and listings,
and `tcam-ctrl`, which calls one library function per command. `external` is third party. Of the
modelled parts: data races on a container (`initialize_buffers` while `requeue_buffer` walks over
it) because their outcome is undefined, renegotiation of a running stream, two overlapping
indexers, `finalize` of `tcammainsrc` with a device that still streams, and saving of images and
videos in the viewer. `PROJECT.json` has a note for each component.

## 7. Running

`tlc -config MCMainSrc.cfg MainSrc` checks a run; `PROJECT.json` names the module and configuration of
each. The three largest runs take two to three minutes with two workers, the others less
than a minute and a half. `tlapm Gst_proofs.tla` checks the proofs of a module; a module takes one to
ten minutes from nothing.
