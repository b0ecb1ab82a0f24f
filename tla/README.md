# GTSU 2.0: a verification development

GTSU ("Graphics, Touch, Sound and USB") is a set of demo programs in C for the
Mikromedia board for PIC24F: a 320 x 240 display with a resistive touch panel,
a micro SD card, a VS1053 audio codec, a serial flash (M25P80) and a 16-bit
processor without an operating system. Each program is one `main` loop and one
interrupt, Timer 3, which ticks once a millisecond (`SYSTEM_TickInitialize(1)`). What is hard in this code is
in three places: `main` and the interrupt share variables and peripherals without
locks; devices (converter, flash chip, codec, card) work at their own pace and may
fail; and small machines (debouncing, alarm and snooze, calibration, writes across
pages) depend on long orders of events that no one tries by hand.

The modules of this directory describe these parts in TLA+, TLC checks them on small instances,
and TLAPS proves theorems about all of them for every value of their constants.

## 1. Inventory

"Shared" is the state a component gives to others; hazards are listed line by
line in `PROJECT.json`.

| Component (source) | State | Operations | Used by | What is hard | What makes it correct |
|---|---|---|---|---|---|
| Resistive touch sampler (`drv_touch_resistive_adc.c` 100-500) | `state`, `tempX/Y`; shared `adcX/Y` | `TouchDetectPosition` once a tick, `TouchHardwareInit` | interrupt; `TouchGetX/Y` | a position is collected over about ten ticks while finger and converter go on | a pair is replaced whole; a glitch is filtered; a held finger is reported, a lifted one forgotten |
| Touch messages (`drv_touch_screen.c` 183-249) | `prevX/Y` | `TouchGetMsg` | 7.x demos, graphics objects | two reads of a pair that the interrupt replaces, a release that must come | whole strokes: press, moves, one release at the last place |
| Touch calibration (`drv_touch_screen.c` 123-165, `drv_touch_resistive_adc.c` 580-886) | raw points, coefficients; a sector of the flash | check, dialogue, coefficients, store, load | `TouchInit` | power failure while storing; touches between two polls; fixed-point arithmetic | never half a calibration; the circles touched are found |
| Touch grid (`grid.c`) | cell size; locals of a blocking call | `Grid_ButtonGet` | most demos | debouncing over a counter that wraps, asynchronous pairs | debounced at both ends, right cell, returns |
| Tick, delay, interrupt (`system.c`) | `TickCounter` | `SYSTEM_DelayMs`, `_T3Interrupt` | all | wrap-around | a delay ends |
| Alarm clock (`6-Alarm/Alarm.c`, `solari.c`) | `Alarm`, `sAlarm`, `Snooze`, `fNight`, file `fp`; RTCC | clock face, three settings pages, `BackgroundPlay` in the interrupt | - | file shared with the interrupt; stale time; five states of the alarm | rings once, is not missed, file not shared |
| Serial flash driver (`drv_nvm_flash_spi_m25p80.c`) | the chip: array, busy, write enable, protection | write with verification, sector erase, chip erase, read | calibration, 5.4 | a busy or protected chip ignores commands silently; pages wrap; a write to bytes that are not erased | each call acts as if at once and returns, a write tells whether it read back |
| Storage demo (`5.4-Storage_Flash/main.c`) | address, count within a sector | copy, read back | - | sector borders | what is read back is the file |
| SD files (`micro_sd.c`) | `files`, `files_lock` | `SD_Initialize`, `SD_Open`, `SD_Close`, read | 5.x, 6.x | partial failure, pointer arithmetic | an open object is never handed out |
| Background sound (`6.4-Sound_Interrupt/main.c`, `vs1053.c`) | `fPLAY`, buffer and position; codec FIFO | `CodecCallBack`, `CODEC_Feed`, `CODEC_Flush` | - | card and codec shared with main, codec's pace, card pulled out | file in order and whole, ends |
| 15 tiles (`4.Solution/main.c`) | matrix, screen | touch | - | four checks, each on what the last one changed; borders | no tile lost, solvable, screen true |
| Pond (`4.Pond/main.c`) | list of drops | touch, frame | - | compaction in place | as if all drops grew and the oldest went at once; never full |
| Text terminal (`tty.c`) | cursor, screen | characters, cursor moves | 5.x | wrap and roll at the corners | cursor on the page, other rows untouched |
| Slices (`slice.c`) | rectangles | slice, align | 7.3 | unsigned arithmetic, borders | a partition; fields inside |
| Graphics objects (`gfx_gol.c`, `gfx_gol_button.c`, `gfx_gol_scroll_bar.c`), `7.2-GOL_Slider/main.c` | list of widgets, draw states, focus; the screen | dispatch a message, draw what is marked | 7.x | a release goes only to the widget it is on; only what is marked is drawn again | no button stays pressed, screen and back light true |
| FAT library (`fileio.c`) | table, directory, two sector buffers, file objects | open, close, flush, read, write, seek, remove, rename | `micro_sd.c` | order of the writes when the card is pulled out; a full card | bytes of plain files; flushed bytes survive; no cluster lost |
| Menu (`menu.c`) | list of names, cursor | choose from a list, choose a file | 5.2, 5.4 | list at its limit | not modelled |
| Accelerometer (`adxl345.c`) | I2C bus | read axes | - | endless retries | not modelled |
| SD card driver (`sd_spi.c`) | `gSDMode`, `gSDMediaState`, the state of a transfer; the card itself | initialize, read and write a sector | FAT library | time-outs and late answers, a card exchanged, a reset in a transfer | the sector asked for is the sector got; a call returns, and leaves nothing under way |
| SPI driver (`drv_spi_16bit.c`) | channel lock | as a library | card, flash, codec | - | not modelled; register writes |
| The rest (primitives, display drivers, communication stacks, cryptography, fonts, tools, documents) | - | - | - | - | not modelled: vendored, pure output, or built by no project here |

How they interact. The interrupt calls the sampler, which publishes `adcX`, `adcY`;
`Grid`, `TouchMsg` and `Pond` poll that pair from `main`. The interrupt also calls
`CodecCallBack` (6.4) or `BackgroundPlay` (6), which read a file and feed the codec.
`TouchInit` collects a calibration from the sampler and stores it through the flash driver; 5.4 copies a file from
`micro_sd` to the same flash; `micro_sd.c` opens its files in `fileio.c`, which transfers sectors through `sd_spi.c`, and the widgets get their
messages from `TouchGetMsg`. In the code the two halves of every interaction are kept apart by
an order of statements, never by a lock, so the modules of a client have the other
side as actions that may come between any two of its steps.

## 2. Modules and how they correspond to the code

`PROJECT.json` maps every definition to its lines. The correspondence in general:
a variable has the name it has in C (locals and statics included, where they outlive
a step); `pc` is where `main` is; an action is the code between two points at which
another process may come in; an early return is a disjunct. Variables marked *history* in a module are
not in the program: they remember what a property needs and no action's guard depends
on them (three bounds excepted: `made` in CalStore, `cuts` in Slice, `names` in FatFile).

| Module | Models | Composed with |
|---|---|---|
| `TouchPanel` | abstract: what the sampler promises, a pair published or cleared in one step | extended by `Grid`, `TouchMsg` |
| `TouchAdc` | `TouchDetectPosition`, one action per state and outcome; converter and finger as environment | implements `TouchPanel` |
| `PressEvents` | abstract: the strokes widgets expect | |
| `TouchMsg` | `TouchGetMsg`: two reads, then the message | on `TouchPanel`; implements `PressEvents` |
| `GOL` | `GFX_GOL_ObjectMessage` and `GFX_GOL_ObjectListDraw` with buttons and sliders, as operators on the list of widgets and on what is drawn; the callback of 7.2 | |
| `Widgets` | the main loop of the 7.x demos: draw, `TouchGetMsg`, message | on `TouchMsg` and `GOL` |
| `Grid` | `Grid_ButtonGet`, `Grid_TouchGet`, `SYSTEM_DelayMs`, `_T3Interrupt` | on `TouchPanel` |
| `CalStore` | `TouchInit` with store, load and check of the calibration, and the power supply | |
| `Calibration` | `TouchCalibration` and `TouchCalHWGetPoints`, poll by poll, the user, and `TouchCalculateCalPoints` | on `CalStore`: refines its step `Calibrate` |
| `AlarmClock` | `clockFaceTask`, clock and alarm page, `BackgroundPlay`, RTCC | |
| `FlashMemory` | abstract: what a write and an erase do to the memory, and what a write returns | |
| `FlashCalls` | abstract: a call is made and, when it returns, has had that effect | on `FlashMemory` |
| `M25P80` | the driver, one action per command, and the chip | implements `FlashCalls` |
| `FlashCopy` | the loop of 5.4 | on `FlashMemory` |
| `MicroSD` | the file objects and a program that uses them | |
| `SoundPlayer` | `main` of 6.4, `CodecCallBack`, feed, flush, codec, card | `MCSpiBus` runs this, `M25P80` and `SdSpi`, the three peripherals of SPI channel 2, one in a behaviour |
| `Sectors` | abstract: what the card driver promises, and what may still happen to a sector after a call failed | |
| `SdSpi` | the card driver, one action per command or poll, and the card: its answers, what it is doing, and that it is exchanged | implements `Sectors` |
| `Tiles` | the game's matrix and screen | |
| `Drops` | abstract: a list of drops that all grow at once, of which the oldest go | |
| `Pond` | the array compacted in place | implements `Drops` |
| `TTY`, `Slice` | terminal; layout manager | `MCDemos` runs these, `Pond` and `MicroSD`, one in a behaviour: none sees another |
| `Files` | abstract: what the file library promises a program, plain sequences of bytes | |
| `FatVolume` | the lower half of `fileio.c`: table, directory and sector buffers, as operators on the state of a drive | |
| `FatFile` | the upper half: one action per call, the program that calls, and the card that is pulled out at any sector of a call | on `FatVolume`; implements `Files` |
| `MC*` | constants of the runs | |
| `*Proofs` | theorems, see section 5 | |

Main and interrupt. On this processor an interrupt runs to its end before `main`
goes on. In `AlarmClock` and `SoundPlayer` the interrupt is several steps long, because the
file, the codec and the clock go on meanwhile; `main`'s actions have the guard
`~isr`, resp. `isr = "no"`. In `Grid`, `TouchMsg` and `Pond` what the interrupt does
is one action. One C statement of `main` that reads one 16-bit variable is one step, two reads are two.

What the models abstract. A place is a converter reading from a small set; the
calibration is any map from readings to coordinates (negative ones, which the code
does not clip, included). In `CalStore` a calibration's points are the number of
the calibration; `Calibration` gives the numbers their values. A byte of flash is the set of its one-bits, so that a write
is an intersection and an erase the full set. `ENABLE_M25P80_WRITE_VERIFICATION` is defined (`drv_nvm_flash_spi_m25p80.c` 31): a page
that was programmed is read back (343-357), which is part of the step that ends it, as nothing else is on the bus meanwhile; the first page with a
byte that differs ends the write with 0 (412), and the pages after it stay as they were (`Verified`, `ret`; `Bad` and `Reached` in
`FlashMemory`). No caller looks at the result, and
no action of `FlashCopy` depends on it; the calibration is written to a sector just erased, two bytes of a page at a time. A byte of a file is its position in it. A call of the
FAT library is one step of a program; inside it the drive's state goes through its sector transfers
one by one, and every card it leaves on the way is one the model may go on with. A loop of the library is a
recursive function over its rounds (`ScanFat`, `EraseLinks`, `NextClusterGet`, `Written`, `Read`, the walks of the directory)
and each round an operator of its own (`ScanFrom`, `EraseLink`, `FollowLink`, `WriteSector`, `ReadSector`), so that the proofs can
speak of a round; a loop that follows a chain has as many rounds as there are clusters, which is all it
needs when the chain is no ring.
The cards that are put in (`CardsAssumption`) are formatted, their directory ends at the first entry that was never
used, and a disk check finds no fault: every chain ends, is as long as the size of its file asks, belongs to one
file, and no cluster is lost. TLC evaluates this for the three cards of `MCFat`.
Drawing is left out except where the screen is state (`Tiles`, `TTY`, `GOL`). A cell of `TTY` is a character: `GFX_BarDraw` includes its
last row and so clears one row of pixels of the next line, which is blank in the glyphs of the font.

What is assumed of the card in `SdSpi`: it answers within the bytes the driver waits for (`FILEIO_SD_NCR_TIMEOUT`) or not at all; it
programs a block it accepted (the driver asks for no status afterwards, 1225, nor checks a CRC, so that with a card pulled
out amid the bytes of a block it reports success for 0xFF: `Sectors` promises nothing of a call during which the card
leaves); a byte of data is not taken for the answer to a reset; and it has fewer than 2^23 sectors if of standard capacity.

Facts of the build that shape the models: `_SFLASH` is commented out, so `TouchInit`
is compiled only by who defines it (`system.c` 97-102) and the sampler stays `IDLE`
elsewhere, which is why `TouchAdc` has `TouchHardwareInit` as an action;
`SD_MAX_FILES` is 1; `tty_config.h` asks for wrapping and rolling;
the libraries of `6-Alarm` (`TouchGrid`, `FSIO`, `RTCC`) are not in the repository and are
modelled by how `Alarm.c` uses them.

## 3. Runs

`tlc -config MCx.cfg MCx` in this directory (`MCFatRewrite.cfg` is for `MCFat`, `MCSpiBusRelease.cfg` for `MCSpiBus`). All but the last three must pass.

| Run | Question | Properties | Bounds, and why they are enough |
|---|---|---|---|
| `touch_adc` | Are positions sampled correctly while finger and converter do anything? | `ImplementsPanel`, `GlitchFiltered`, `HeldIsReported`, `LiftedIsReported` | four readings, two places per axis: a pair of any two places can be mixed up, and a pressure reading is mistaken for a position and the reverse. Any conversion of a pressed panel may misread |
| `widgets` | Do widgets get whole strokes, and do they follow them on the screen? | `DeliversStrokes`, `LiftIsReleased`, `NothingStuck`, `ScreenIsTrue`, `BacklightFollows` | a button and the slider of 7.2. Four readings per axis: one calibrates to -1, the "no touch" value, one to another negative number; the others are on the button, beside it, on the slider in and out of reach of its thumb, and beyond its end |
| `calibration` | Is half a calibration ever used, and does a whole one find what was touched? | `RunsCalibrated`, `CirclesAreFound` | the code's own sizes (8 points, 10 polls, 320 x 240), two calibrations, an old and an interrupted one or an interrupted and a new one. A panel turned round; two readings for one circle. With a tolerance of 5 pixels instead of 6 `CirclesAreFound` fails: the integer gain costs them |
| `grid` | Is a button debounced, right and returned under every interleaving? | `CellWasFound`, `OptionIsLong`, `Debounced`, `HoldIsAccepted`, `ReleaseReturns` | debounce 2, long press 3, counters that wrap after 3 ticks and at 5: a count, its restart, its overflow and the wrap of a delay's target all happen. 4 x 4 cells of a screen of 320 x 240, as in the demos |
| `alarm_clock` | Does the alarm ring once, in time, without touching the interrupt's file? | `FileIsNotShared`, `NoRetrigger`, `NotMissed` | two hours of four minutes of three seconds: the hour and the day wrap, snooze of two minutes crosses the hour; a file of one feed, of which the alarm begins, goes on and repeats |
| `spi_bus` | Do flash, card and codec do what their drivers promise although each goes at its own pace? | `BusNotShared`, `InOrder`, `AllPlayed`, `PlaybackEnds`, `ImplementsMemory`, `ImplementsSectors`, `EveryCallReturns` | codec: files of 0 to 7 bytes, buffer 3, feed 2, FIFO 4: a buffer that is not a multiple of a feed, a last short buffer. Flash: three sectors of one page of two bytes, one-bit bytes, writes up to four bytes: within a page, across one and two ends, over the end of the memory, on any content, so that any page of a write may be the first that does not read back, or none. Card: three sectors, so that a sector's address in bytes is that of another in blocks, and time-outs after two tries: a first that fails and a last. Any of the three kinds of card, exchanged at any step, a reset at any step |
| `fat` | Are files plain files, whatever the buffers hold and wherever the card is pulled out? | `ImplementsFiles`, `FlushedSurvives`, `CardSound`, `NoLostCluster` | two names; three clusters of two sectors of two bytes, a table of two sectors, a directory of two entries: chains cross sectors, clusters and sectors of the table, the card and the directory fill up. Three cards: empty, fragmented with a deleted entry, full with an empty file of a PC. Three calls with a name on a card, any number of reads, writes and seeks, files of up to 7 bytes; a write gets bytes that differ, so that one that is lost, repeated or out of place shows; the card is pulled out once between two mounts of a fresh card |
| `tiles` | Can the game break? | `EachTileOnce`, `ScreenShowsTiles`, `Solvable` | the 8-tile board, all 181440 positions |
| `demos` | Do terminal, layout, pond and file objects hold at their limits? | `OnPage`, `OtherRowsKept`, `SlicesPartition`, `FieldInside`, `NeverFull`, `ImplementsDrops`, `OpenedWasClosed` | 4 x 2 page, tab 2, strings shorter than, as long as and longer than a row; three cuts of a 6 x 9 screen, fractions that round to nothing, to something, and the 85 percent of 7.3; a drop is seen three times, room for 4; six file objects: the wrong index of `SD_Close` falls inside and outside the table |
| `flash_copy` | Is a file of two sectors read back as it was? | `ReadsBack` | *violated*, see section 6 |
| `sd_release` | Does a write leave the card as it found it? | `CardIsReleased` | *violated*, see section 6. The constants of `spi_bus` |
| `fat_rewrite` | May a program write over what is in a file? | `SizeIsLength` | *violated*, see section 6. The cards of `fat`, opened the way `SD_Open` does for "w" |

Every property has a mutant in `PROJECT.json`: the definition of the code it guards against
(`Slip...` next to the real one) with which TLC finds it violated.

`CHECK_DEADLOCK FALSE` stands in the two cfgs of `MCSpiBus` (when the file was played
and the card is out nothing is left to do, and `main` idles in an empty loop)
and in the two of `MCFat` (a program may be done when its bounded calls are used up).

## 4. Fairness

Safety is checked without any. Liveness assumes:

- `TouchAdc`: the timer ticks (`WF` on `TouchDetectPosition` and on the initialization) and a conversion that was
  started completes (`WF` on `Convert`). Nothing obliges the finger; "held" and
  "lifted" are premises of the properties, and so is that conversions stop being disturbed, without
  which the code rightly waits for ever.
- `Grid`: the timer ticks, `main` runs, and - strong fairness - the polling loop of
  `SYSTEM_DelayMs` looks at the counter between two ticks. The loop is a few
  instructions, a tick is thousands of them; without it the loop could miss, each time, the
  moment before the counter wraps.
- `Widgets`: the main loop goes on (`WF` on `Loop`); drawing blocks and always ends. Nothing obliges the
  finger or the sampler: that the finger has left is the premise of `LiftIsReleased`.
- `M25P80`: the driver runs; the chip completes what it started.
- `SoundPlayer`: the interrupt comes and runs, the codec plays.
- `SdSpi`: the driver runs (`WF` on `Driver`). Nothing is asked of the card: it may be silent or busy for ever.

## 5. What is proved

`tlapm XProofs.tla` checks each module below, for all values of the constants that
satisfy the module's assumptions. The shape is always the same: an inductive invariant
(`IInv`, or a name of its own), a lemma that the initial states satisfy it, one that every step keeps it (a step
of the proof per action), and the theorems from it.

| Module | Theorem | Assumptions | The inductive invariant, and why it is needed |
|---|---|---|---|
| `TouchAdcProofs` | `TypeCorrect`, `PanelImplemented` (`ImplementsPanel`), `GlitchesFiltered` (`GlitchFiltered`) | readings are naturals, places and pressures are readings | `TypeOK`; `Wiring`: which plate is read and driven in each state, so that a conversion is of the axis the state thinks it is; `FingerSeen`: a finger on the panel belongs to this acquisition's history; `Samples`: what `tempX` and `tempY` may be while an axis settles and after it. The pair that is published at the end is only explained by what is known of its halves several states before |
| `CalStoreProofs` | `StoreTypes`, `VersionSealsAll`, `NeverHalfCalibrated` (`RunsCalibrated`) | at least one point and one poll | `Sealed`: a valid version vouches for all points; `Storing`: while the points are written there is no valid version, and the cells before `cell` are those of the new calibration; `Loading`, `Running`: RAM follows the flash; `Erasing`, `Checking`, `Booting`: entry conditions of these |
| | `DialogueCalibrates` (`RunsCalibrated` with the dialogue) | none more | none: every step of the dialogue is a step of `CalStore` or a stutter |
| | `CirclesFound` (`CirclesAreFound`) | eight points, readings are naturals (`PanelAssumption`), and `LinesFit`: the lines through any points of the circles find the circles within the tolerance. This is arithmetic on the readings of a panel; TLC evaluates it for the panel of the run (`FitAssumption`). What is proved is that the points in use are points of the circles, each in its place | `OnCircle`: while a circle is asked for nothing else is touched; `Letting`: when its release is seen the finger has left, as the pair was there before; `Sampled`: a point may be of two touches of one circle, but of no other; `Taken`, `Kept`: so are the points before, and those of earlier calibrations |
| `GridProofs` | `CellsFound` (`CellWasFound`), `OptionsLong` (`OptionIsLong`), `PressDebounced` (`Debounced`) | the touch grid: a debounce of a sample or more, not longer than a long press, a long press below the largest integer | `AwaitingPress`, `AwaitingRelease`: in each of the two loops its counter is the run of samples so far, and the press counter never runs ahead of the samples, also when it overflows; `Answer`: what is returned was sampled |
| | `TilesTypeCorrect`, `NoTileLost` (`EachTileOnce`), `ScreenIsTrue` (`ScreenShowsTiles`) | the tiles, on a board of 3 x 3 or more | a `Good` board (each tile once, screen equal to matrix) through the four checks: `SwapIsGood`, `TryIsGood`, `TouchedIsGood` |
| | `AlwaysSolvable` (`Solvable`) | the same | `SolvableInv`: the board is `Played` (inversions and the place of the empty one add up to an even number) before and after each of the four checks. That an exchange of two tiles turns an odd number of pairs round (`TurnsOdd`) is a pairing of the places between them (`PairedOff`), so no induction over the board is needed |
| | `NotShared` (`FileIsNotShared`), `RingsOnce` (`NoRetrigger`) | the alarm clock: an hour is a whole number of steps of the arrows and the first alarm is at one; a snooze is shorter than an hour | `Matching`: the file is rewound only by an alarm that does not ring yet, and does not change until it does; `RangNow`, `NotForAlarm`, `NotForSnooze`: the minute it rang for is the one on the face, and neither the alarm's, while it is on or off, nor the one it is snoozed to. `SnoozeMoves` says that a snooze leads to another minute, `StopsKept` that the arrows stay within the hour |
| `FatVolumeProofs`, `FatProofs` | `FatInvHolds`, `CardAlwaysSound` (`CardSound`), `NoClusterLost` (`NoLostCluster`), `FlushedAlwaysSurvives` (`FlushedSurvives`), `FilesRefined` (`ImplementsFiles`) | `VolumeAssumption`: any volume of up to 65524 clusters, sectors, tables and directories of any size; `CardsAssumption`; `Habits = {}`: programs that write at the end of a file only | see below |
| `WidgetsProofs` | `StrokesDelivered` (`DeliversStrokes`) | readings are naturals, any calibration | `FirstHalf`, `WholeHere`: a place read in two steps is whole or nowhere, whatever was published in between; `WholeBefore`, `Told`: while a stroke goes on, the last message told the place before. The release is at the last place only because of `Told` |
| | `NoneStuck` (`NothingStuck`), `ScreenFollows` (`ScreenIsTrue`), `BacklightIsSlider` (`BacklightFollows`) | `ObjectsAssumption`: any list of buttons and at most one slider, with room for its thumb | `Layer`: the types, one widget at most has the focus, and `AllMarked`: wherever a widget differs from what is drawn of it, the bit that makes it be drawn again is set, whatever a message changed before another mark was handled; `PressedBefore`, `PressedHere`: a pressed button is where the stroke is; `Clean`: after drawing nothing is marked to be drawn. The loops over the list are functions by recursion; what they keep of it is proved by taking the least widget for which it would fail (`Least`) |
| `SpiBusProofs` | `BusGuarded` (`BusNotShared`), `BytesInOrder` (`InOrder`), `PlayedToTheEnd` (`AllPlayed`) | any sizes with a feed no longer than the codec's FIFO and a flush no shorter | `Armed`: the interrupt works only after the last of main's steps; `Buffered`: the buffer holds the next bytes of the file; `Totals`, `Ordered`: what the codec has, heard or queued, is the bytes sent and then the zeros counted |
| | `FlashImplementsMemory` (`ImplementsMemory`) | pages, sectors and a memory of any size | `Idling`: between calls the chip is idle and as protected as before; `Writing`: the array holds the call's bytes up to `counter`, or to the end of the page that is being programmed, across any number of pages, those up to `counter` have read back, and commands are sent only to a chip that will obey. So a write ends after all of its bytes, or at the end of the page of its first bad byte, which is what `Reached` says without a loop (`PageChecked`); `Erasing`: the protection is off when the erase is sent, and it is done at once |
| | `CardImplementsSectors` (`ImplementsSectors`) | any number of sectors, any number of tries | `Serving`: what the card is doing belongs to the call under way, or to one that has failed; `Addressing`: a card that listens counts sectors as `gSDMode` says, in bytes or in blocks, however it was exchanged or reset before; `Doing`: the sector it reads, receives or programs is that of the call |
| | `CallsOnTheBus` (both) | the same | the flash and the card as `MCSpiBus` runs them |
| `DemosProofs` | `CursorOnPage` (`OnPage`), `RowsKept` (`OtherRowsKept`) | a page of two rows or more, tabs that divide a row | `OnPage` itself, as what each operation makes of a page within bounds is one; `PutsWithin`, `PutsInRow`: a string of any length, character by character, by the least that would fail |
| | `SlicesApart` (`SlicesPartition`), `FieldWithin` (`FieldInside`) | a screen that 16 bits hold, fractions of 0 to 99 percent | `SliceInv`: the rest and the slices are apart, cover the screen when all are taken off the bottom, and the borders of none wrap |
| | `AlwaysRoom` (`NeverFull`) | `RoomAssumption`: as many drops fit as can come while one is visible | `PondInv`: a drop has grown in every round since the next one came (`Grown`), so the oldest of a full list is too large |
| | `DropsImplemented` (`ImplementsDrops`) | the same | `Sorted`: the oldest drops are the largest, and those that have grown this round are so by a step, so the drops that go are the head of the list and the two halves of the array, joined, are the list as it will be; `Placed`: a drop is where a finger was read |
| | `TypeCorrect`, `HeldStaysLocked` (`HeldIsLocked`, which no run lists: TLC finds it true as an INVARIANT of `MCDemos.cfg`), `NotOpenedTwice` (`OpenedWasClosed`) | up to 2^14 objects | `HeldIsLocked` with the types and `OnceHeld`, no object open twice (else closing one use would leave another unlocked), by the lemma `IndexOut`: the unsigned index of `SD_Close` is 0 for the first object and outside the table for all others |

### The FAT library

`FatVolumeProofs`, the volume, and `FatProofs`, the calls, are the longest of the proofs, since each call of the library is many transfers of sectors, the card may be
pulled out before any of them, and either of the two buffers may be written before the other. Its argument is about
ownership. A *ghost* `g` gives to every slot of the directory the name of its file, the clusters of the file in order,
its bytes, and those of them that were flushed (`kept`); no cluster and no name is owned twice (`Owns`).

1. A volume stands for four cards (`Images`): the one that is in, that with the table's buffer written, that with the data
   buffer written, and that with both, which is what the library itself sees (`Cached`). A write-back, at whatever
   moment, only moves among these (`Moves`).
2. A card is `Whole` for a ghost when each entry that is there names a file of it, with the first cluster of its chain
   (`Fits`): the links follow that chain for some clusters to an end mark, and these hold as many bytes as the entry says; and when
   what was flushed is there (`Holds`). An entry may be older than its chain, so a chain may be shorter on one image
   than on another: this is what makes the order of the writes matter, and what lets a cluster be appended in the buffer alone.
3. In a `System` every image is whole, `Cached` has all that is owned (`Current`), the clusters that are neither
   free nor owned are in a set `Lost` (`Tight`), and the cards the call would leave if it were cut short are in a set `Safe`. Every
   operation turns a system for one ghost into a system for another: a cluster more (`Grown`), bytes more (`Longer`),
   a file made, removed (`Gone`), renamed (`Renamed`). While a file is removed, its chain is whole on no image,
   and all of the others are (`But`).
4. Each operator of `FatVolume`, then each call of `FatFile`, has a lemma that says which ghost comes out
   (`...Done`), also when it fails. Loops are proved by the least round for which the claim would fail. A position of a
   file object is in a cluster of its chain, or behind the last one after a read at the end (`At`, `Behind`).
5. `FatInv` is the inductive invariant: with the card in, some ghost exists for which the drive is `Settled`, what
   was flushed is kept, and each open object is a `Handle` on a file of it; with the card out, the card is one
   that a call may leave. There is a lemma for each action (`OpenKeeps`, ..., `MountKeeps`).
6. What is read from a card along its links (`Chain`, `Bytes`, `Sound`) are the files of any ghost the card is whole for, and
   a card that a disk check passes is whole for the ghost that is read from it. So `FatInv` gives the three invariants, and a card
   that was pulled out in a call starts anew with a ghost of its own.
7. `FilesRefined`: each action, with the ghosts before and after it, is the action of `Files` of the same name, or
   changes nothing `Files` knows (`ReadPromised`, ..., `MountPromised`). A write that is done has put the bytes it was given
   behind those of the file, in their order (`WritePromised`).

`FatInv` quantifies over ghosts, so TLC checks what follows from it, and not `FatInv` itself. `Habits = {}` is
needed: with programs that write over what is in a file the size counts bytes that no cluster has, which is the run
`fat_rewrite`. The bounds `LENGTH` and `NAMED` are any numbers, and no proof uses them.

Only model-checked: every liveness property (`HeldIsReported`, `LiftedIsReported`, `LiftIsReleased`, `HoldIsAccepted`,
`ReleaseReturns`, `NotMissed`, `PlaybackEnds`, `EveryCallReturns`), as fairness and ENABLED are outside the prover's reach.
All the other properties of the passing runs, 21 invariants and 11 action properties and refinements, are proved. Of
the arithmetic of calibration only what is said above is proved.

## 6. Where code and comments disagree

`flash_copy`, `fat_rewrite` and `sd_release` are the runs TLC must refute. `5.4-Storage_Flash/main.c` 87 rolls the sector counter
over when it is *greater* than the size of a sector, one piece late, so the
first piece of the second sector is written to bytes that were not erased. The file
read back differs from the file copied (`ReadsBack`). The driver notices: it gives up the rest of that piece at the first page that does not
read back, and returns 0, which `main` (82) ignores.

`FILEIO_Write` (`fileio.c` 2889) adds what it wrote to the size of the file, also when that replaced
bytes of it, though `fileio.h` 162 calls the field "The size of the file" (`SizeIsLength`). `SD_Open` opens
for "w" without `CREATE` or `TRUNCATE`, so its files are rewritten in exactly this way.

`sd_spi.c` 943-945 says of a write that failed that the handler "will try to put the media back in a default state, ready for a
new command". A write command that is refused, or not answered because the card was pulled out, is returned from at once (1077),
with chip select asserted and `gSDMediaState` busy (`CardIsReleased`); the next command to the flash or the
codec, on the same channel, is also one to the card. Every other way out of a read or a write releases it.

Other disagreements met while modelling are stated as properties that no run
checks, since they fail. To see one fail put it in place of the
INVARIANT and PROPERTY lines of the cfg.

| Property | Config | The comment | What the code does |
|---|---|---|---|
| `NullTogether` (INVARIANT) | `MCGrid` | `grid.c` 29 "if one of the two is null the other is too" | x and y are read one after the other (27), the pair may be replaced in between |
| `SampleTime` (PROPERTY) | `MCGrid` | `grid.c` 57, 73 "wait for at least one sample time" | at the wrap of the counter `SYSTEM_DelayMs` (`system.c` 162) returns at once |
| `LongHasOption` (PROPERTY) | `MCGrid` | `grid.c` 77 "check if a button was pushed longer than 500ms" | the 16-bit counter of 69 overflows to a negative number |
| `CellAssigned` (PROPERTY) | `MCGrid` | `grid.h` 45 "Blocking wait for a touch and release event" | a finger that leaves before the second loop leaves `r` (48, 82) uninitialized |
| `RewoundFileExists` (INVARIANT, `Present = FALSE`) | `MCAlarmClock` | `Alarm.c` 86 "if an mp3 file is available" | `FSrewind(fp)` (422, 432) with `fp` null |
| `RingsOnTime` (PROPERTY) | `MCAlarmClock` | `Alarm.c` 418 "check for time match" | after a long touch `Time` (400) is that of before: the alarm rings late |
| `SnoozeElapses` (INVARIANT) | `MCAlarmClock` | `Alarm.c` 428 "check for time match + snooze factor" | minutes are added modulo the hour, the hour stays (429, 430): snoozed across the hour it stays silent |
| `F!BulkEraseAwaited` (PROPERTY, under a name of its own) | `MCSpiBus` | `drv_nvm_flash_spi_m25p80.c` 502 "wait for BULK ERASE to be done" | `CheckWriteInProgress` (670) reads a channel that does not exist; the wait after it saves the call |
| `TakenIsOpen` (INVARIANT) | `MCDemos` | `micro_sd.c` 119 "close files left open" | a failed open (137) keeps its object |
| `ClosedIsFree` (PROPERTY) | `MCDemos` | `micro_sd.c` 119 "or increase the SD_MAX_FILES" | `SD_Close` (158) frees no object but the first |
| `RewoundForNextUse` (INVARIANT) | `MCSpiBus` | `6.4-Sound_Interrupt/main.c` 34 "rewind for next use" | the buffer's pointer is rewound, the file is not |
| `TabReached` (PROPERTY) | `MCDemos` | `tty.c` 229 "move to next tab position" | the loop (232) counts on the cursor it moves, and stops before the stop |
| `PositionKept` (PROPERTY) | `MCDemos` | `tty.c` 87 "return to position" | after the last column of the row (84) the cursor is in the next row |

In words only: `5.2-Storage_Menu/main.c` 28 "defines a 3x3 grid" asks for cells of 3 pixels;
`Slice_Left` (`slice.c` 38-40) hands out an empty slice, because it
moves the source's left side before it copies it; a slice of 100
percent off the bottom of a rectangle at the top of the screen (64) leaves one that ends at row 65535; a new
line clears the rest of the next row, not of the one it leaves (`tty.c` 236-249);
a centered string longer than the page is wide loses its first character (286).

The comment in `7.2-GOL_Slider/main.c` 18, "update the screen backlight", is late by a message: the callback
runs before the slider moves, so the back light follows only at the release. And that works only
because `gfx_gol_scroll_bar.c` 914 answers any release with `PASSIVE`, where 910 says the release happened on
the scroll bar; with it the slider takes the focus at every release anywhere.

A calibration is not clipped: fingers 8 units to the inside of all four circles make coefficients that give
column 321 at the edge, cell 4 of 0 to 3 in `grid.c` 34. Two equal points divide by zero.

In `fileio.c`, met while modelling and outside what `FatFile`'s program does or what its properties are about:

- a seek that fails leaves the file at its first cluster (2690), or at the start of the last one when
  no cluster is left to extend it;
- a write that fills the disk returns the bytes it wrote but moves neither size nor position; it returns
  bytes although `fileio.h` 1128 and 1167 promise objects, and an error code when it may not write;
- opening an empty file of a PC, also only to read it, erases and creates it anew; on a full disk it is gone;
- reading to the end of the last cluster and then writing uses the end mark as a cluster;
- `FindShortFileName` tests for another error than the one that is returned (1378) and goes on;
- a 12-bit table is compared with 16-bit end marks (1855), and one of its entries that straddles two
  sectors is misread when the second is not buffered (2128-2150); an entry 0xFFF7 makes the search for a
  free cluster start again at the beginning;
- a data sector that cannot be read leaves the number of the one that was buffered before;
- `FILEIO_DriveMount` uses an index it has not set when the drive is mounted already, as in `5.2`,
  whose `main` mounts twice (40, 43);
- `FILEIO_Remove` frees the clusters before the entry is deleted on the card, which is why `CardSound`
  excepts a card pulled out meanwhile.

## 7. Not modelled

- `menu.c`: a cursor between two guards; what is hard in it, the buttons and the files, is in `Grid`, `MicroSD`
  and `FatFile`.
- `adxl345.c`: polled transfers with endless retries; all of the state is in the chip and its bus.
- The date page of the alarm clock (a page that blocks and leaves, here) and the rolling digits of
  `solari.c`, which only draw.
- An erase of the flash that the power failure interrupts (`drv_touch_resistive_adc.c` 597): what the cells are
  then is up to the chip, and no order of the code's steps makes up for a version that survives. In
  `CalStore` a write may be torn, an erase is one step.
- Build options that flip or swap the axes of the panel.
- In the FAT library: subdirectories, long names and the parsing of names, search, format, the boot records,
  attributes, times. They are about formats, and the buffers under them are modelled.
- The other kinds of widgets, keyboard messages, hidden and disabled widgets: no project of the repository uses
  them.
- In `sd_spi.c`: transfers of several blocks (`FILEIO_SD_SectorRead` and `FILEIO_SD_SectorWrite` ask for one), the card's size
  from its CSD, the write-protect switch, and detection by polling (`MEDIA_SOFT_DETECT` is not defined).
- `drv_spi_16bit.c`: register writes and a lock around a command. The channel has a single user at a time, since what
  the interrupt and `main` do with it is kept apart in `SoundPlayer` (`BusNotShared`). The FAT library is checked on
  sector transfers that fail or not (`FatVolume`), not on `SdSpi`: two models too large for one state space.
- Graphics primitives and display drivers (their result is pixels), communication stacks and
  cryptography (vendored, no project here builds them), demo programs that are straight-line calls of the
  parts above. These are by far the most of the repository's lines.
