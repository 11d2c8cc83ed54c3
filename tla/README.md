# CppClient: specification and verification

CppClient is the command-line client of a chat and card-room server. It holds
the Texas hold'em engine it shares with the server, a console with its own
threads, and the network code between them. This directory models the parts
whose behaviour is hard to test, checks them with TLC and proves part of what
TLC checks with TLAPS.

## 1. The system

| Component | Source | State | Operations |
|---|---|---|---|
| Hold'em engine | `Game/HoldemPokerGame.*`, `GameItem/Seat.h` | seats, side pots, board, deck, button, turn, bets, blinds, last action and result | SetBlinds, SitDown, BuyIn, StandUp, SitBack, MarkPendingLeave, CashOut, RemovePendingLeavers, StartHand, HandleAction, ProcessAutoModePlayer, ClearPendingHandResult; public as well, but called by the class only: AdvanceStage, AdvanceTurn, ResolveIfNeeded, FinishHand |
| Hand evaluation | `GameItem/HandEvaluator.h`, `Card.h`, `Deck.h` | none (a deck is drawn from) | Evaluate, ParseScore |
| Console | `Utils/Console.*` | output queue, command queue, two events, run flags | Start, Stop, ReadLine, Out/Err, UI loop |
| Line editor, scroll view | `Utils/Console.cpp:290-680` | input line, caret, command history, draft; lines, rows, offset | keys, wheel, resize, drain, drawing |
| Receiving thread, task queue | `Player/Player.*`, `Net/NetPackHandler.*` | socket, `m_deleted`, task queue | RecvJob, AddTask, DoOneTask, Send, Delete |
| Main loop, input thread | `main.cpp`, `CommandProcessor::Run` | none of their own | connect, poll tasks, read lines, stop, join |
| Command table | `Utils/CommandProcessor.*` | current room | prefixes, some thirty commands |
| Wire format | `Net/NetPack.*`, `Write`/`Read` of the items, table snapshot | buffer, read position | reads and writes |
| Rooms, player information | `ServerClass/Room.*`, `Player/PlayerInfo.*` | values read once | read, print |
| Voice messages | `Audio/AudioCenter.*`, `pyScript` | message queue, mute, stop flag | AddVoiceMsg, speaking thread |
| Printers, help, embedded Python | `Helper`, `Python` | none | output; vendored |

How they interact: `main` starts the console (one UI thread), connects, makes
the `Player` (one receiving thread) and starts the input thread. The receiving
thread pushes packs on the task queue; the main loop takes them, prints through
the console's output queue and adds voice messages. The UI thread turns keys into
lines on the command queue; the input thread reads them and sends packs, or
deletes the player, upon which the main loop stops the console and joins. The
engine is called by one thread at a time and reacts only: whoever owns the table
decides when hands start, turns are played for absent players, leavers removed.

What is hard, and what makes each part correct:

* **Engine.** Any order of a dozen calls over a vector that is sorted and erased
  while three indices and lists of player ids point into it. Chips must not be
  created or lost; side pots must pay what was covered; the turn must be at a
  seat that can act; a hand must end and leave nothing behind.
* **Hand evaluation.** Boundary cases of seven cards. The score must order hands
  as the rules do.
* **Console, main loop, receiver.** Four threads, two queues, two manual-reset
  events, a condition variable notified without its mutex, a lock held across a
  handler. Output must be shown, lines read, packs handled in order, and the
  program must end.
* **Line editor and scroll view.** One thread, much arithmetic: indices into a
  history that Enter reorders, an unsigned offset counted from below over rows that
  are added, trimmed and wrapped again. Caret, index and offset must stay inside what
  they point into; a draft must come back; a reader must keep the place.
* **Wire format.** Writer and reader are separate code that only the order and
  width of the fields keep together. What is read must be what was written.
* **Command table.** Chained prefixes, thirty commands, texts that look like
  commands, and a current room that runs ahead of the server.
* **Voice.** A look at a queue without its lock; nothing may be taken from an empty
  queue, and what is told must be said, in order.

## 2. Modules

| Module | Models |
|---|---|
| `Vectors` | erasing from and summing over a `std::vector`, as recursive functions |
| `HoldemTable` | the private helpers of `HoldemPokerGame`, as operators on a table record |
| `HoldemPokerGame` | the engine: one action per call its owner makes |
| `TableLedger` | abstract: stakes that are frozen while a hand is played and settled at its end |
| `HoldemProperties` | types, invariants, action properties and the refinement of the ledger |
| `MCHoldem`, `MCHoldemLive` | instances of the engine and what is sent of it for TLC; the second adds fairness |
| `HandEvaluator` | Evaluate, Score, ParseScore |
| `Hands`, `MCHands` | the deal, the rules of poker as reference, small decks |
| `Console` | the console's queues, events and UI thread |
| `Receiver` | recv, the task queue and DoOneTask |
| `Client` | main, the input thread and Player, composed with the two above |
| `NetPack` | a pack: fields with their widths, writes up to the limit, reads that may be short or out of step |
| `TableWire` | the table snapshot, hand results, and the copy ReadTable makes of a table |
| `InputLine` | the keys, as operators on the line, the caret and the command history |
| `ScrollView` | adding, trimming, wrapping, scrolling, as operators on the text above |
| `Screen`, `MCScreen` | the UI thread's records composed of the two, and what stands on the console |
| `Commands` | prefixes, the table of commands, text messages: the effect of a line |
| `Voice` | the voice queue, mute and the speaking thread |
| `Session`, `MCSession` | lines, server, receiving, handling and speaking composed |
| `VectorTheorems` | lemmas on erasing, summing, searching and on sequences, for all proofs |
| `HoldemPokerGameProofs` | the engine's inductive invariant, helper by helper and call by call; what a whole turn can leave |
| `HoldemTurnProofs` | seats, turn, bets and who leads them, pots' owners, board |
| `HoldemMoneyProofs` | what a payout hands out and to whom, the refinement of the ledger, the result that is sent, exact collection |
| `TableWireProofs` | what is read of a row, a list, a table and a hand result, and that the engine's tables fit |
| `ClientProofs` | the threads of the console and the receiver |
| `ScreenProofs` | the input line and the text above it |
| `SessionProofs` | texts: the order they are said in, and the rooms they go to; what a line means |

**The engine.** The variable `game` is a record with the members of the class
(HoldemPokerGame.h:146-167). `seats` is the vector; the code's index `i` is
`seats[i + 1]`, written `At(g, i)`. An action is a whole call from outside: a chain of
operators `g -> g'` in the order of the source's calls. The two calls at the end
of a hand, HandleShowdown and FinishHand, are made by `Outcomes`, because a
showdown has many results: cards are counts, and `EvaluateHand` is any assignment
of values to players. That stands for every deal, since `DistributePots` only
compares scores. Where the deal matters, `Hands` models it.
Calls that the code refuses are stuttering steps.

**Threads.** In `Console`, `Receiver` and `Client` a step is what a thread does
between two points where another can come in: a lock section, an atomic access,
an event, the condition variable. The predicate test of `wait` and going to sleep
are two steps with the mutex held between them, which is what a lost wake-up is
made of. A prompt to read: `MainPrints(from, signal, to)` is a print of the main
thread, a push to the output queue and then SetEvent. The output queue is reduced
to whether it holds anything. The model prints without the mutex of the stream
buffer, so it has more interleavings than the code. The stream of the socket is
counted in half packs; a `recv` returns any number of them, into the same buffer,
and makes one pack, as RecvJob does.

**The wire.** A pack is the sequence of the fields written, each a width and a value.
A read of the width that was written gives the value; another width gives `Garbage`
and leaves the rest out of step, a read beyond the end gives 0 and does not move: that
is what `NetPack.cpp:72-152` does to a reader who disagrees with the writer.
`TableWire` writes a table as the server does and reads it as the client does, at every
reachable state of the engine. A text is sent, and read, with the NUL that ends it. A
hand result has the score of each hand, for every order the hands may be in. A card is
named by where it lies, so that a card in the wrong place shows.

**The screen.** `edit` and `view` hold the members of `Console` that belong to the UI
thread; `drawn` is what the last drawing put on the console. A step is one record
(key, wheel, resize) or one drain. VK_END returns before drawing, so `GoEnd` leaves
`drawn` as it was.

**The session.** A line is a list of prefixes and words; its effect is the new current
room, the packs sent and, for QUIT and MUTE, what it does to the client. `outbox` and
`stream` are the two directions of the connection. The server is not in this
repository: it takes packs in order, lets the user in or refuses, and tells a text at
any time. A `recv` keeps the first pack of those that come together, as in
`Receiver`. `Voice` splits PlayVoiceMsg at the look at the queue, the taking and the
look at the mute flag. Texts are numbered in the order they are told. `joined` and `warned`
are history: where the user is, and where it has been told, or has chosen, not to be.

## 3. What is checked

| Run | Question | Bounds |
|---|---|---|
| `open_table` | does a hand survive players who sit, buy in, cash out, stand up and come back while it runs, does every call implement the ledger, and where do copies show the button? | 3 players, 3 seats with free ones below and between, buy-ins of 2 and 3, 6 chips at most |
| `leavers` | are chips conserved and pots paid right in whole hands; do leaving, and removal during a hand, keep turn, button, seats, board and pots right; does a hand leave nothing behind whoever is left at its end; is it the ledger's? | 3 players, buy-ins of 2 and 3, bets and raises of 2 or all-in; 8 chips; a deck of 11 cards, which a hand of three uses up |
| `hand_ends` | does every hand end, and does everyone who is sent the table or a result, at any moment, read what was written and no cards but its own? | 2 players, 6 chips, standing up, coming back and leaving during the hand; results with boards of 0 and 5 cards and every order of scores |
| `hands` | does a score name the right kind, on every street, and keep the order as far as three ranks? | every deal of ten decks of nine cards to two seats and the board |
| `client` | packs in order, output shown, lines read, no lost wake-up, the program ends | one line waiting, any number typed; three halves of packs |
| `screen` | do the caret, the history index and the scroll offset stay in range, does the draft come back, are rows and lines in step, and does a reader keep the place? | lines of 3 characters, 2 commands and 3 lines remembered, windows of 3x3, 5x2 and 5x1 |
| `session` | does every line mean what the help says, do texts go where the user is, are texts told said in order? | 8 lines entered in any order, some 12000 looked at in every room; 2 packs each way, 2 texts |

Five more runs show where the code and what is written of it part:

| Run | Shows |
|---|---|
| `newcomer_stops_hand` | SitDown during a hand in a lower seat moves the turn to a seat that cannot act: the hand never ends |
| `single_winner_paid` | with a gap in the seat numbers the result names no winner: it compares a seat number with an index |
| `leavers_bets` | what a leaver has bet on the street is in no pot and paid to nobody |
| `kickers` | the weights of the score are 100000, 1000, 10, 0, 0: a third kicker does not count |
| `error_lost` | the message of a failed connection may never reach the screen |

Other places where code and text part, met while modelling and without a run:
`SIT <seat>` is documented with a seat number (`HelpString.h:132`, `149`), which
`CommandProcessor.cpp:190-196` ignores; CHECK sends CheckCall and so pays a bet that
is open; SetBlinds does not ask for `bb >= 2 * sb` (`HelpString.h:118`); the comments
"Format:" at `NetPackHandler.cpp:27`, `49`, `56` name other fields than
`PlayerInfo::ReadInfo` reads (id, name, language, chips); a leaver is not counted
alive, so a hand may end "without showdown" although nobody folded
(`HoldemPokerGame.cpp:501`, `526`). A text that begins with the name of a command is
taken for that command unless `[text]` goes before it, and a text longer than a pack is
sent without its words: `LinesMean` says both. `ReadTable` stores the number of the
dealer's seat as an index (`HoldemPokerGame.cpp:877`), although the section is headed
"Serialization (for network sync)" (`HoldemPokerGame.h:123`): `ButtonIsShown` says when
the copy is right and where it puts the button otherwise. A straight to the five scores
as one to the ace (`HandEvaluator.h:78`), although a higher score is to be the better
hand (`:27`): `FirstThreeDecide` says that it counts as the highest straight.

*Why the bounds are enough.* Three players are the least with a side pot, a fold
out of it and a third party to pay; buy-ins of 2 and 3, and what the hands before made
of them, with blinds 1 and 2 give short blinds, short calls, short raises and odd chips. The minimum buy-in is one
big blind instead of 100 (`BuyinFactor`), which only makes short stacks easier to
reach. `MaxMoney` bounds BuyIn, `Amounts` the bets, `MaxCommands` the queue of
lines, `MaxHalves` the stream. The properties that look at single steps need no
history beyond the last hand. Permutations of players are a symmetry: no
constant names one. The engine never reads its last action and result, so TLC's
`VIEW` leaves them out (`MCHoldem` says why that is safe for action properties).
`ChipsConserved` names the two ways the code drops chips, a leaver's bets
and a pot that everyone it names has abandoned; elsewhere it asks for equality. The
first is what `leavers_bets` shows.
`FirstThreeDecide` has the wheel count as the highest straight, as the code does, and the
decks of `hands` hold no suited wheel: it is scored as a royal flush. It says that the
score compares kind and three ranks, no less and no more; `kickers` shows a pair of hands
for which that is not enough. A board that is not complete is filled with invalid cards, as in
`EvaluateHand`; the evaluator has to leave them out of its counts.
`OutputIsShown`, `LinesAreRead` and `TasksAreHandled` promise nothing once the
console is stopped. Runs that end (the program, a deal, a table nobody may buy
into) turn deadlock checking off.

In `screen` a line fills the narrow window and more, so that input and text are both cut,
wrapped and scrolled; three remembered lines make trimming the normal case, and two
remembered commands make Enter reorder and cut. At most one piece of other threads' text
joins the echo of a line in a drain. In `session` two rooms are enough to be in one and
name another; two packs on the way let an answer be late and two arrive together. What a
line means depends on the line and the current room only, so all combinations of up to
three prefixes are looked at in each room rather than entered.

`ButtonIsShown` and `ReaderKeepsPlace` say what the code does beyond their plain
case: with a free seat below the dealer's the client shows the button further on or
nowhere, and old lines trimmed under a reader move the text by no more than was
trimmed. `TextsReachMembers` excuses a text to a room the user named without joining,
left, or was refused: LEAVEROOM and a refusal keep the current room, and nothing in the
repository says what it should be. What remains is the race of TOROOM with its answer.
`LinesMean` is about prefixes, rooms and texts; it does not say which pack a
command sends or what it holds after the room.

*Fairness.* In `MCHoldemLive` the player who is to act answers: weak fairness of
a turn being taken, which the variable `turns` counts. The server that
owns the engine provides it by the players or by its timer. In `Client` the main,
input and UI threads are weakly fair: an operating system lets a thread run, and
the locks are held for one bounded section. In `Session` the main loop (DoOneTask) and the
speaking thread are weakly fair for the same reason; both are loops that sleep for a
bounded time and go on. The receiving thread, the user and the
server owe nothing. Spurious wake-ups of the condition variable are left out:
the predicate is tested again, so they could only hide a lost wake-up.

## 4. What is proved

**The table.** `HoldemPokerGameProofs` proves, for all players, seat counts, deck sizes, blinds,
amounts and sets of allowed calls:

* `TypeCorrect`: `Spec => []TypeOK`. No stack, bet or pot is ever negative, and no
  call returns in stage Showdown.
* `AllInExactlyWhenBroke`: `Spec => []AllInIffBroke`.
* `HandsLeaveNothing`: `Spec => []NothingLeftOver`.
* `Inductive`: `Spec => []IInv`, from which the others follow.

None of the three is inductive: the types say nothing of a bet that exceeds a
stack, an all-in flag is only right if chips only move through `PutIn`, and what
FinishHand leaves depends on what the calls between hands do. The invariant is
`game \in SoundTable`: either an `IdleTable`, where nothing of a hand is left, or a
`HandTable` in one of the four streets, in which all-in means no chips and
`lastBet` and `lastRaise` are natural numbers. The argument has three layers. Each helper of
`HoldemTable` maps sound tables to sound tables (a lemma per helper; sums, layers
of pots and erasures by induction on the length of the vector, in
`VectorTheorems`). `OutcomesPlayable` closes the end of a hand. One lemma per
call, and `NextKeeps` collects them. The assumptions are `TableAssumption`
and `GameAssumption`, the types of the constants, which TLC evaluates in the runs.

**The hand.** The second half of `HoldemPokerGameProofs` says, per helper, which members change, and gathers
in `PlayOnCases` what a whole turn can leave: the next seat to act, a new street, a single
winner, a showdown. `HoldemTurnProofs` then shows that every call is of one of five
kinds (`StepKinds`: a seat is edited, a player sits down, leavers are removed, a hand
starts, a seat acts) and what each invariant makes of each kind.

| Theorem | Property | Needs | Invariant added to `IInv` |
|---|---|---|---|
| `SeatsStayInOrder` | `SeatsInOrder` | - | `Ordered`: the button of an empty table is 0, the turn within the vector |
| `TurnStaysWithPlayer` | `TurnSurvivesRemoval` | - | `Ordered` |
| `ButtonFallsToTheSeatBehind` | `ButtonFallsBack` | - | `Ordered` |
| `TurnStaysLive` | `TurnIsLive` | small blind < big blind; no SitDown during a hand | `TurnHeld` |
| `LastBetStaysHighest` | `LastBetIsHighest` | small blind <= big blind | `BetsHeld` |
| `PotsKeepTheirOwners` | `PotsAreOwned` | - | `PotsOwned`: an owner is a seat of the hand, found by its player |
| `BoardAlwaysMatches` | `BoardMatchesStage` | a deck of `2 * MaxSeats + 5` cards | `BoardHeld`: the cards dealt, counted against the deck |
| `BetsStayLed` | (behind `ChipsConserved`) | as `TurnStaysLive` | `Led`: the order of turns, and who has the highest bet |

The hypotheses are there because the code needs them. SitDown during a hand, which
the code allows, inserts below the turn and breaks `TurnIsLive`: the run
`newcomer_stops_hand` shows it. SetBlinds takes any pair, and a small blind above the big
one makes `_lastBet` less than the highest bet. With equal blinds two players who have
just that much are both all-in by posting, and StartHand does not look whether anybody
is left to act. Nine seats need 23 cards of the deck's 52.

`Led` says who holds the highest bet of a street: a seat that has not folded. A fold could
break it, so it also says that such a seat has no turn before somebody
raises it, which takes the order of turns: those who have acted come after those who
have not. Before the first raise the big blind has the highest bet without having acted;
it is the last to act, and alone by the time it could fold.

**The money.** `TableKeepsTheLedger` proves `Spec => ImplementsLedger` with no
hypothesis: every call maps to a step of `TableLedger` or to a stutter. Stakes are
frozen while a hand runs because a chip only moves between a stack, a bet and
a pot of a player of the hand; the step that counts is the end of a hand, which must not
pay more than the players owned. That rests on three facts. A payout hands out a pot
exactly, if anybody claims it: the shares and the odd chips, which go round from the dealer, add up to it
(`DealerOrder` makes that order a permutation). Collecting bets into layers takes from
the bets what it adds to the pots. And `Backed`, the invariant: bets and
pots together are at most what the players have bet in this hand. At most, since the
bets of a player marked as leaving are not collected. `Backed` is what neither the ledger nor
`SoundTable` says and every payout needs.

* `ResultIsThePayout`: `Spec => ResultMatchesPayout`, again with no hypothesis. A layer
  is made a pot only if somebody can claim it. So a pot that is not paid out was there
  before the turn, and the last of those it names has just folded: it was abandoned, which is
  what the property allows. The entries of the result add up to the shares because no
  two of them are equal: one per player of the hand.
* `NobodyWinsMoreThanMatched`: `Spec => WinsAreCovered`. The invariant is `Covered`:
  the pots that name a player hold, together, at most what all seats have put in up
  to what that player did, of the chips collected so far. A layer that names a player lies
  below its bet, so collecting keeps it (`CollectCovered`), and a payout gives a player no
  more than the pots that name it (`WonBounded`). The property reads the chips paid in off the
  stacks before and after the step; `PaidInIs` shows that this is the bet of the hand.
* `ChipsStayOnTheTable`: `Spec => ChipsConserved`, with the hypotheses of `BetsStayLed`. The
  ledger forbids that a hand creates chips; this forbids that it loses any. The step that could
  is the collection of bets: each pass takes a layer and keeps it only if somebody who has not
  folded bet into it, so chips above the highest such bet would vanish. `Led` says there are
  none (`LayersExact`, `CollectExact`), once `LayersReach` has shown that the passes the loop
  allows itself empty the bets. A payout pays every pot somebody can claim
  (`ShowdownKeepsMoney`). Sitting down during a hand has to be excluded: it may
  move the turn back to the highest bettor, who folds, and the top of its bet is nobody's.
  TLC finds this third way to lose a chip with three players, one of them removed between two
  hands and back in a lower seat during the next. The runs of `ChipsConserved`
  therefore do not allow SitDown during a hand; `newcomer_stops_hand` shows the cause.

**The wire.** `TableWireProofs`, for any players, blinds, buy-ins and bets:

| Theorem | Property | Needs |
|---|---|---|
| `CopyStaysTheTable` | `CopyIsTheTable` | at most 14 seats; no player has the number that stands for nobody |
| `ButtonStaysShown` | `ButtonIsShown` | at most 14 seats |
| `ResultAlwaysArrives` | `ResultArrives` | at most 100 seats |

The argument has three parts. A row of fields that fits is written whole, and read with
the widths it was written with it gives its values and leaves what follows
(`RowIsSent`, `ReadRowIs`). A list is its size in one byte and its rows; below 256 items
it comes back item by item, by induction along what the reader holds after each of them
(`ReadingExists`, and one lemma for each kind of item: `BoardReadBack`, `NamesReadBack`,
`PotsReadBack`, `SeatsReadBack`, `EntriesReadBack`). `TableReadBack` and
`ResultReadBack` put rows and lists behind one another and say what the client is left
with; `CopyTells` compares that with the table, field by field, and `ButtonCopied` the
seats that are shown.

What remains is that the engine's tables fit. Pots are never merged across
streets, so `Laid` bounds them: each street makes at most one for every seat
(`PassesMakePots`), and there are three streets before a hand is settled. With the owners
of a pot seated (`PotsOwned`), 14 seats need at most 922 of the 1023 fields a pack of 4096
bytes has room for whatever their widths. For the result `Sized` says that it has one
entry for a seat dealt in. The bounds on the seats are there because the code has none
of its own: `SetMaxSeats` takes any number, and a table that does not fit is cut
silently and read out of step. Tables of nine or ten seats are well inside.

**The threads.** `ClientProofs` takes `Client.tla` with any lines, any bound on
the queue and any stream of half packs.

* `StopMeetsNobody`: `Spec => []StopMeetsNoReader`. By `Lifetimes`: which places of main
  allow which of the other threads. The input thread reads only while the player is not
  deleted, or main waits in a place before it stops the console.
* `OutputStaysSignalled`: `Spec => []OutputIsSignalled`. The property is nearly inductive:
  every thread between its push and its SetEvent owes a signal, and the UI thread
  resets the event before it drains. `Signalled` adds the empty queue before main starts
  the console, and `Lifetimes` that the UI thread is not yet there then.
* `PacksAreHandledInOrder`: `Spec => HandledInOrder`. `PacksInv` puts the pack handled
  last, the one in hand, the queue and the packs received behind one another.

**The screen.** `ScreenProofs`, for any characters, window sizes, and limits of lines
and of history.

* `EditorStaysSafe`: `Spec => []EditorIsSafe`, and `DraftAlwaysComesBack`: the action
  property `DraftComesBack`. `EditorInv` adds the types of the record. The lemmas are one per
  key; the work is in `RemoveFirst`, by which Enter takes the earlier copy of a line out:
  what is left has no other copy, so that appending keeps the history free of repetitions.
* `WrappedStaysCurrent`, `OffsetStaysInRange`, `WindowStaysFull`: the three invariants
  of the text, and `ReaderAlwaysKeepsPlace`: the action property `ReaderKeepsPlace`. `ViewInv`
  states the rows, and the count of rows of each line, as what wrapping the lines gives,
  and bounds the offset by the rows above the window. The work is in trimming:
  rows go in whole lines from the front, and the offset, counted from below, is cut
  to what is left.

The assumptions are the types of the constants (`InputAssumption`, `ViewAssumption`,
`ScreenAssumption`), which TLC evaluates in the run.

**The session.** `SessionProofs`, for any lines, rooms and lengths of the queues
(`SessionAssumption` and `ProbeAssumption` give the constants their types).

* `SpeakerFindsAMessage`: `Spec => []NeverTakesNothing`. Between the look without the
  lock and the taking only others step, and they only add.
* `TextsAreTakenInOrder`: `Spec => TakenInOrder`. Order is not inductive: it needs the
  whole way of a text. `SessionInv` puts the last text taken, the voice queue, the task
  queue and the stream behind one another and says that each holds rising numbers, each
  below those of the next, none above the number of texts told.
* `TextsStayWithMembers`: `Spec => []TextsReachMembers`. The invariant speaks of texts
  on their way, but a text is written with the room that is current when the line is
  entered. `RoomInv` adds that the current room is none, known to the user, or asked for by
  a `goto_room` still on its way, while the player exists. Three steps could break it: a
  prefix that sets the room, whose `goto_room` is sent before any text of the same
  line (`LineKeepsRooms`, with `ReadsWritten` for the way of the room through a pack); the
  server that takes the oldest pack and answers (`ServerKeepsRooms`); and sends that
  fail, after which the player is gone.
* `LinesMeanWhatIsSaid`: `Spec => []LinesMean`, for any set of `Probes` and any number of
  prefixes. `ProbeAssumption` says what such a line is: tokens that `ParsePrefixes` tells
  apart, and words that fit into a pack unless one is marked as too long. The invariant is
  that the active room is none or a number a line can give (`RoomKnown`); the work is in
  `LineMeans`, about one line. The tokens are read by a loop and the meaning asks for
  the last of a kind: `Heard` is what the loop keeps (`HeardStep`), and its end is the
  meaning's beginning (`PrefixMeans`). Texts and languages are read back from the packs
  they are written to (`TextBack`, `LanguageBack`), and a call for a table has its room
  first whatever is written behind (`RoomFirst`). Then the cases of `HandleLine` are
  those of the help (`LineMeans`, with `HandlerMeans` and `TextIsText`).

**Only model-checked.** Liveness and everything under fairness: `HandEnds`, `QuitEnds`,
`OutputIsShown`, `LinesAreRead`, `TasksAreHandled`, `TextsAreSaid` (out of the prover's
reach). The evaluator (`KindIsRight`, `FirstThreeDecide`), whose scores are compared with the
rules of the game over every deal of small decks: a search through data, left to TLC.

## 5. Not modelled, and the plan

* Not modelled. Rooms and player information are read from a pack and printed at
  once, and nothing depends on them later. The printers and help texts are output
  without state. The stream buffers of the console only cut and convert text. The
  interpreter that speaks, and everything under `src/Python`, is vendored; its headers are
  more than nine tenths of the lines of code of the repository, so that the share
  the map covers stays small although the client's own code is covered. The server's
  network code is not in this repository. Integer overflow of amounts is not modelled.
* Out of the prover's reach: liveness. Not proved: what the evaluator computes.

`PROJECT.json` lists components, runs, the mutant that each property catches, the
source lines of every definition, the findings and the hazards.
