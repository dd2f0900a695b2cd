---------------------------- MODULE De2Programs ----------------------------
(***************************************************************************)
(* The programs that run the network, and the board's switch test:         *)
(*   baseline, mac4  neural/apps/inference_*.c, all images one after the   *)
(*                   other on the simulation console;                      *)
(*   demo            neural/fpga/quartus/inference/inference_demo.c, the   *)
(*                   image the switches select, on display and LED bar;    *)
(*   led_test        neural/fpga/quartus/test/led_test.c.                  *)
(* Which program runs, the network and the images are chosen once.  The    *)
(* user moves the switches at any time, and may press KEY[0], which resets *)
(* the processor but neither the display nor the LED register.             *)
(***************************************************************************)
EXTENDS Inference, Sequences, FiniteSets

CONSTANTS
    PROGRAMS,  \* which of the four programs are considered
    WORLDS,    \* networks with their images: [net, images]
    IMAGES,    \* images a program knows (10)
    SWITCHES,  \* values of the switch and key register: sets of bit numbers
    RESETS     \* bound on the presses of KEY[0]

Selections == 0 .. IMAGES - 1

ASSUME ImagesAssumption == IMAGES \in 1 .. CLASSES
ASSUME WorldAssumption  == WORLDS \subseteq [net : Networks, images : [Selections -> Images]]
\* The biases the networks are trained with leave room for the products.
ASSUME BiasAssumption   == \A w \in WORLDS : \A c \in Filters :
                               w.net.conv1_bias[c] <= INT_MAX \div M1_NUM - 9 * 128 * 128
ASSUME SwitchAssumption == SWITCHES \subseteq SUBSET (0 .. 21)
ASSUME ResetsAssumption == RESETS \in Nat
ASSUME ProgramAssumption == PROGRAMS \subseteq {"baseline", "mac4", "demo", "led_test"}

VARIABLES
    program, world,          \* what runs, on which data
    pc,                      \* the statement it has reached
    inputs,                  \* SW_KEY_REG: the bits that read 1
    selected,                \* target, highest
    last,                    \* last_selected, last_displayed
    conv_out, pool_out, flat, predictions,
    i, j, sum,               \* loop counters, accumulator
    best_class, max_score, pos_sum, confidence,
    correct_count,
    seg7, leds,              \* SEG7_REG and LED_REG
    console,                 \* lines printed; the board programs keep the last one
    resets,
    reference                \* history: the baseline's scores of every image

loopVars  == <<i, j, sum>>
netVars   == <<conv_out, pool_out, flat, predictions>>
scoreVars == <<best_class, max_score, pos_sum, confidence>>
boardVars == <<seg7, leds>>
rigid     == <<program, world, reference>>
vars == <<program, world, pc, inputs, selected, last, netVars, loopVars, scoreVars,
          correct_count, boardVars, console, resets, reference>>

BLANK       == -1      \* 0xFFFFFFFF
UNKNOWN     == -2      \* SEG7_REG before its first store
UnknownLeds == {1}     \* LED_REG before its first store: no bar looks like it

OnBoard == program \in {"demo", "led_test"}
UsesMac == program \in {"mac4", "demo"}
net     == world.net
img     == world.images[selected]

\* `conv_out[..] = {0}': the compiler's call of memset.
Zeroed(side) == [c \in Filters |-> [p \in Plane(side) |-> 0]]
NoScores     == [k \in Classes |-> 0]

\* The scores inference_baseline.c computes, in one formula.
BaselineConv(w, n) ==
    [c \in Filters |-> [p \in Plane(CONV) |->
        Requantize(ScalarSum(w.net, w.images[n], c, p[1], p[2]))]]
BaselinePool(conv) ==
    [c \in Filters |-> [p \in Plane(POOL) |-> Pooled(conv, c, p[1], p[2])]]
BaselineScores(w, n) ==
    LET pool == BaselinePool(BaselineConv(w, n))
    IN  [k \in Classes |-> ScalarScore(w.net, pool, k)]

-----------------------------------------------------------------------------
NoNetwork == conv_out = <<>> /\ pool_out = <<>> /\ flat = <<>> /\ predictions = <<>>
NoScoring == i = 0 /\ j = 0 /\ sum = 0 /\ best_class = 0 /\ max_score = 0 /\ pos_sum = 0 /\ confidence = 0

Start == IF program = "demo" THEN "blank_seg7" ELSE "main"

Init ==
    /\ program \in PROGRAMS /\ world \in WORLDS
    /\ pc = Start /\ inputs \in SWITCHES
    /\ selected = 0 /\ last = -1
    /\ NoNetwork /\ NoScoring
    /\ correct_count = 0
    /\ seg7 = UNKNOWN /\ leds = UnknownLeds
    /\ console = <<>> /\ resets = 0
    /\ reference = [n \in Selections |-> BaselineScores(world, n)]

Say(line) == console' = IF OnBoard THEN <<line>> ELSE Append(console, line)

-----------------------------------------------------------------------------
(* Choosing what to classify.                                              *)

\* for (i = 9; i >= 0; i--) if (sw & (1 << i)), on sw = raw >> 4.
Highest == LET on == {n \in Selections : n + 4 \in inputs}
           IN  IF on = {} THEN -1 ELSE Max(on)

\* The apps' loop over the targets.
NextTarget ==
    /\ pc = "main" /\ ~OnBoard
    /\ IF selected < IMAGES
       THEN pc' = "enter" /\ UNCHANGED console
       ELSE pc' = "done" /\ Say(<<"accuracy", correct_count>>)
    /\ UNCHANGED <<rigid, inputs, selected, last, netVars, loopVars, scoreVars, correct_count,
                   boardVars, resets>>

\* The demo's loop: the one load of SW_KEY_REG decides.
MutPollHigherOnly ==
    /\ pc = "main" /\ program = "demo"
    /\ IF Highest >= 0 /\ Highest > last
       THEN pc' = "enter" /\ selected' = Highest
       ELSE IF Highest < 0 /\ last # -1
            THEN pc' = "blank_seg7" /\ UNCHANGED selected
            ELSE UNCHANGED <<pc, selected>>
    /\ UNCHANGED <<rigid, inputs, last, netVars, loopVars, scoreVars, correct_count, boardVars,
                   console, resets>>
Poll ==
    /\ pc = "main" /\ program = "demo"
    /\ IF Highest >= 0 /\ Highest # last
       THEN pc' = "enter" /\ selected' = Highest
       ELSE IF Highest < 0 /\ last # -1
            THEN pc' = "blank_seg7" /\ UNCHANGED selected
            ELSE UNCHANGED <<pc, selected>>
    /\ UNCHANGED <<rigid, inputs, last, netVars, loopVars, scoreVars, correct_count, boardVars,
                   console, resets>>

\* At start, and when the last switch goes off: display first, then the bar.
BlankSeg7 ==
    /\ pc = "blank_seg7"
    /\ seg7' = BLANK /\ pc' = "blank_leds"
    /\ UNCHANGED <<rigid, inputs, selected, last, netVars, loopVars, scoreVars, correct_count,
                   leds, console, resets>>

BlankLeds ==
    /\ pc = "blank_leds"
    /\ leds' = {} /\ last' = -1 /\ pc' = "main" /\ Say(<<"blanked">>)
    /\ UNCHANGED <<rigid, inputs, selected, netVars, loopVars, scoreVars, correct_count,
                   seg7, resets>>

\* The switch test stores the digit in every turn and prints what is new.
ShowSwitch ==
    /\ pc = "main" /\ program = "led_test"
    /\ seg7' = IF Highest >= 0 THEN Highest ELSE BLANK
    /\ IF Highest # last
       THEN last' = Highest /\ Say(<<"showing", Highest>>)
       ELSE UNCHANGED <<last, console>>
    /\ UNCHANGED <<rigid, pc, inputs, selected, netVars, loopVars, scoreVars, correct_count,
                   leds, resets>>

-----------------------------------------------------------------------------
(* run_inference, a layer at a time.                                       *)

Enter ==
    /\ pc = "enter"
    /\ predictions' = NoScores
    /\ conv_out' = Zeroed(CONV) /\ pool_out' = Zeroed(POOL)
    /\ pc' = "conv"
    /\ IF OnBoard THEN Say(<<"classifying", selected>>) ELSE UNCHANGED console
    /\ UNCHANGED <<rigid, inputs, selected, last, flat, loopVars, scoreVars, correct_count,
                   boardVars, resets>>

ConvSum(c, y, x) ==
    IF UsesMac THEN MacSum(net, img, c, y, x) ELSE ScalarSum(net, img, c, y, x)

Conv2D ==
    /\ pc = "conv"
    /\ conv_out' = [c \in Filters |-> [p \in Plane(CONV) |->
                        Requantize(ConvSum(c, p[1], p[2]))]]
    /\ pc' = "pool"
    /\ UNCHANGED <<rigid, inputs, selected, last, pool_out, flat, predictions,
                   loopVars, scoreVars, correct_count, boardVars, console, resets>>

StartClasses == pc' = "fc" /\ i' = 0 /\ j' = 0 /\ sum' = net.fc_bias[0]

MaxPool2D ==
    /\ pc = "pool"
    /\ pool_out' = [c \in Filters |-> [p \in Plane(POOL) |->
                        Pooled(conv_out, c, p[1], p[2])]]
    /\ IF UsesMac THEN pc' = "flatten" /\ UNCHANGED loopVars ELSE StartClasses
    /\ UNCHANGED <<rigid, inputs, selected, last, conv_out, flat, predictions,
                   scoreVars, correct_count, boardVars, console, resets>>

FlattenPool ==
    /\ pc = "flatten"
    /\ flat' = [k \in 0 .. FLAT - 1 |-> Flattened(pool_out, k)]
    /\ StartClasses
    /\ UNCHANGED <<rigid, inputs, selected, last, conv_out, pool_out, predictions,
                   scoreVars, correct_count, boardVars, console, resets>>

\* The term of the last layer's accumulator at j: four products, or one.
Stride == IF UsesMac THEN 4 ELSE 1
Term   == IF UsesMac THEN MAC4(pack4(flat, j), pack4(net.fc_weights, i * FLAT + j))
                     ELSE Flattened(pool_out, j) * net.fc_weights[i * FLAT + j]

Accumulate ==
    /\ pc = "fc" /\ j < FLAT
    /\ sum' = sum + Term /\ j' = j + Stride
    /\ UNCHANGED <<rigid, pc, inputs, selected, last, netVars, i, scoreVars,
                   correct_count, boardVars, console, resets>>

\* out[i] = sum; after the last class run_inference returns.
StoreScore ==
    /\ pc = "fc" /\ j >= FLAT
    /\ predictions' = [predictions EXCEPT ![i] = sum]
    /\ j' = 0
    /\ IF i + 1 < CLASSES
       THEN i' = i + 1 /\ sum' = net.fc_bias[i + 1] /\ UNCHANGED <<pc, conv_out, pool_out, flat>>
       ELSE /\ i' = 0 /\ sum' = 0 /\ pc' = "argmax"
            /\ conv_out' = <<>> /\ pool_out' = <<>> /\ flat' = <<>>
    /\ UNCHANGED <<rigid, inputs, selected, last, scoreVars, correct_count,
                   boardVars, console, resets>>

-----------------------------------------------------------------------------
(* Scoring.                                                                *)

MutBetter(k) == predictions[k] >= max_score
Better(k) == predictions[k] > max_score

\* i = 0 is the initialisation, i = 1 .. CLASSES-1 the loop.
Argmax ==
    /\ pc = "argmax"
    /\ IF i = 0 \/ Better(i)
       THEN best_class' = i /\ max_score' = predictions[i]
       ELSE UNCHANGED <<best_class, max_score>>
    /\ IF i + 1 < CLASSES THEN i' = i + 1 /\ UNCHANGED pc
                          ELSE i' = 0 /\ pc' = "share"
    /\ UNCHANGED <<rigid, inputs, selected, last, netVars, j, sum, pos_sum, confidence,
                   correct_count, boardVars, console, resets>>

MutShare ==
    /\ pc = "share"
    /\ pos_sum' = pos_sum + predictions[i]
    /\ IF i + 1 < CLASSES THEN i' = i + 1 /\ UNCHANGED pc
                          ELSE i' = 0 /\ pc' = "percent"
    /\ UNCHANGED <<rigid, inputs, selected, last, netVars, j, sum, best_class, max_score,
                   confidence, correct_count, boardVars, console, resets>>
Share ==
    /\ pc = "share"
    /\ pos_sum' = IF predictions[i] > 0 THEN pos_sum + predictions[i] ELSE pos_sum
    /\ IF i + 1 < CLASSES THEN i' = i + 1 /\ UNCHANGED pc
                          ELSE i' = 0 /\ pc' = "percent"
    /\ UNCHANGED <<rigid, inputs, selected, last, netVars, j, sum, best_class, max_score,
                   confidence, correct_count, boardVars, console, resets>>

Percent ==
    /\ pc = "percent"
    /\ confidence' = IF pos_sum > 0 THEN (100 * max_score) \div pos_sum ELSE 0
    /\ pc' = IF OnBoard THEN "seg7" ELSE "report"
    /\ UNCHANGED <<rigid, inputs, selected, last, netVars, loopVars, best_class, max_score,
                   pos_sum, correct_count, boardVars, console, resets>>

\* Every local of the loop body ends with the turn.
EndTurn ==
    /\ pc' = "main"
    /\ predictions' = <<>> /\ UNCHANGED <<conv_out, pool_out, flat>>
    /\ i' = 0 /\ j' = 0 /\ sum' = 0
    /\ best_class' = 0 /\ max_score' = 0 /\ pos_sum' = 0 /\ confidence' = 0

\* The apps print the result and count the right ones.
MutReport ==
    /\ pc = "report" /\ ~OnBoard
    /\ Say(<<"predicted", selected, best_class, confidence>>)
    /\ correct_count' = IF best_class = i THEN correct_count + 1 ELSE correct_count
    /\ selected' = selected + 1
    /\ EndTurn
    /\ UNCHANGED <<rigid, inputs, last, boardVars, resets>>
Report ==
    /\ pc = "report" /\ ~OnBoard
    /\ Say(<<"predicted", selected, best_class, confidence>>)
    /\ correct_count' = IF best_class = selected THEN correct_count + 1 ELSE correct_count
    /\ selected' = selected + 1
    /\ EndTurn
    /\ UNCHANGED <<rigid, inputs, last, boardVars, resets>>

\* confidence_to_leds: the bits 0 .. idx.
LedIndex(conf) ==
    IF conf <= 0 THEN 0 ELSE IF conf > 100 THEN 9 ELSE (conf - 1) \div 10
confidence_to_leds(conf) == 0 .. LedIndex(conf)

\* The demo stores the digit, then the bar, then prints and remembers.
ShowDigit ==
    /\ pc = "seg7"
    /\ seg7' = best_class /\ pc' = "leds"
    /\ UNCHANGED <<rigid, inputs, selected, last, netVars, loopVars, scoreVars, correct_count,
                   leds, console, resets>>

ShowBar ==
    /\ pc = "leds"
    /\ leds' = confidence_to_leds(confidence) /\ pc' = "report"
    /\ UNCHANGED <<rigid, inputs, selected, last, netVars, loopVars, scoreVars, correct_count,
                   seg7, console, resets>>

MutRememberSwitch ==
    /\ pc = "report" /\ program = "demo"
    /\ Say(<<"predicted", selected, best_class, confidence>>)
    /\ last' = Highest
    /\ EndTurn
    /\ UNCHANGED <<rigid, inputs, selected, correct_count, boardVars, resets>>
Remember ==
    /\ pc = "report" /\ program = "demo"
    /\ Say(<<"predicted", selected, best_class, confidence>>)
    /\ last' = selected
    /\ EndTurn
    /\ UNCHANGED <<rigid, inputs, selected, correct_count, boardVars, resets>>

ProgramStep ==
    \/ NextTarget \/ Poll \/ BlankSeg7 \/ BlankLeds \/ ShowSwitch
    \/ Enter \/ Conv2D \/ MaxPool2D \/ FlattenPool \/ Accumulate \/ StoreScore
    \/ Argmax \/ Share \/ Percent \/ Report \/ ShowDigit \/ ShowBar \/ Remember

-----------------------------------------------------------------------------
(* The user.                                                               *)

Flip ==
    /\ OnBoard /\ inputs' \in SWITCHES
    /\ UNCHANGED <<rigid, pc, selected, last, netVars, loopVars, scoreVars, correct_count,
                   boardVars, console, resets>>

\* KEY[0]: the program starts again; the registers of de2_top.v have no reset.
Reset ==
    /\ OnBoard /\ resets < RESETS
    /\ resets' = resets + 1
    /\ pc' = Start /\ selected' = 0 /\ last' = -1
    /\ conv_out' = <<>> /\ pool_out' = <<>> /\ flat' = <<>> /\ predictions' = <<>>
    /\ i' = 0 /\ j' = 0 /\ sum' = 0
    /\ best_class' = 0 /\ max_score' = 0 /\ pos_sum' = 0 /\ confidence' = 0
    /\ UNCHANGED <<rigid, inputs, correct_count, boardVars, console>>

Next == ProgramStep \/ Flip \/ Reset

Spec     == Init /\ [][Next]_vars
\* The processor keeps executing; the user need not do anything.
FairSpec == Spec /\ WF_vars(ProgramStep)

-----------------------------------------------------------------------------
TypeOK ==
    /\ program \in PROGRAMS /\ world \in WORLDS
    /\ pc \in {"main", "enter", "conv", "pool", "flatten", "fc", "argmax", "share", "percent",
               "seg7", "leds", "report", "blank_seg7", "blank_leds", "done"}
    /\ inputs \in SWITCHES /\ selected \in 0 .. IMAGES /\ last \in -1 .. IMAGES - 1
    /\ i \in Classes /\ j \in 0 .. FLAT /\ sum \in Int /\ best_class \in Classes /\ correct_count \in 0 .. IMAGES
    /\ max_score \in Int /\ pos_sum \in Nat /\ confidence \in Int
    /\ seg7 \in Classes \cup {BLANK, UNKNOWN} /\ leds \subseteq 0 .. 9
    /\ resets \in 0 .. RESETS

Scoring == {"argmax", "share", "percent", "seg7", "leds", "report"}
Scored  == Scoring \ {"argmax", "share"}

\* Every program computes the scores of the scalar one, bit for bit: packing,
\* the zero-padded kernel rows, the byte read past the last pixel, the layout of
\* the flattened planes and the four-byte strides change nothing.
ScoresAreBaseline ==
    pc \in Scoring => predictions = reference[selected]

\* The product with M1_NUM fits the 32-bit integer it is computed in, for each
\* accumulator of the convolution; a wrapped one would be shifted and clamped
\* as if nothing had happened.
SumFits(s) == s <= INT_MAX \div M1_NUM
SumsFit ==
    pc = "conv" => \A c \in Filters : \A p \in Plane(CONV) : SumFits(ConvSum(c, p[1], p[2]))

\* The digit reported is the first of the classes with the highest score.
BestIsFirstMaximum ==
    pc \in Scored =>
        /\ max_score = predictions[best_class]
        /\ \A k \in Classes : predictions[k] <= max_score
        /\ \A k \in 0 .. best_class - 1 : predictions[k] < max_score

\* The confidence is a percentage, and the winner has at least an equal share
\* of the positive scores: the LED bar is never cut off at its ends.
ConfidenceIsShare ==
    pc \in Scored \ {"percent"} =>
        confidence \in (IF pos_sum > 0 THEN 100 \div CLASSES ELSE 0) .. 100

\* What a score vector shows, from the baseline's scores.
FirstMaximum(scores) ==
    CHOOSE k \in Classes : /\ \A m \in Classes : scores[m] <= scores[k]
                           /\ \A m \in 0 .. k - 1 : scores[m] < scores[k]
ShareOfWinner(scores) ==
    LET total == MapThenSumSet(LAMBDA k : IF scores[k] > 0 THEN scores[k] ELSE 0, Classes)
    IN  IF total > 0 THEN (100 * scores[FirstMaximum(scores)]) \div total ELSE 0
Digit(n) == FirstMaximum(reference[n])
Share100(n) == ShareOfWinner(reference[n])

DemoShows(n) ==
    IF n = -1 THEN seg7 = BLANK /\ leds = {}
    ELSE seg7 = Digit(n) /\ leds = confidence_to_leds(Share100(n))
TestShows(n) == seg7 = IF n = -1 THEN BLANK ELSE n

\* Whenever the demo is about to look at the switches, the display, the bar and
\* the last line printed all belong to the image it remembers, whatever the
\* switches did since they were read and wherever a reset fell.
DisplayShowsSelected ==
    pc = "main" /\ program = "demo" =>
        /\ DemoShows(last)
        /\ console = IF last = -1 THEN <<<<"blanked">>>>
                     ELSE <<<<"predicted", last, Digit(last), Share100(last)>>>>

\* The apps report each image once, in order, and the accuracy they print is
\* the number of images whose own number is the baseline's prediction.
AccuracyCounted ==
    pc = "done" =>
        console = [k \in 1 .. IMAGES |->
                      <<"predicted", k - 1, Digit(k - 1), Share100(k - 1)>>]
                  \o <<<<"accuracy", Cardinality({n \in Selections : Digit(n) = n})>>>>

\* When the user leaves the switches alone, the board ends up showing what they
\* select, and keeps showing it.
SelectedBy(s) == LET on == {n \in Selections : n + 4 \in s} IN IF on = {} THEN -1 ELSE Max(on)
Shown(s) == IF program = "demo" THEN DemoShows(SelectedBy(s)) ELSE TestShows(SelectedBy(s))
DisplaySettles ==
    \A s \in SWITCHES : OnBoard /\ <>[](inputs = s) => <>[]Shown(s)

=============================================================================
