----------------------------- MODULE LiveChart ------------------------------
(***************************************************************************)
(* The chart page: CandlestickChart.js, the price header and its fallback  *)
(* poll in App.js, over the stream of LiveStream.                          *)
(*                                                                         *)
(* JavaScript runs to completion: an action is a callback, with the React  *)
(* effects that its state changes cause.  Requests to the API may be       *)
(* answered late and in any order; they have no cancellation and carry     *)
(* the symbol and the timeframe of the render that made them.              *)
(*                                                                         *)
(* What the page shows is abstracted to: the symbol and timeframe that the *)
(* bars were loaded for, the close of the last bar and the price in the    *)
(* header.  Bars of a tick never lie before the last bar.  Leaving the     *)
(* chart tab and coming back, and scrolling to older bars, are not         *)
(* modelled.                                                               *)
(***************************************************************************)
EXTENDS LiveStream, FiniteSets, SequencesExt

CONSTANTS
    Timeframes,     \* the timeframes of the toolbar
    FirstView       \* the symbol and the timeframe of the first render

CONSTANTS           \* bounds of the model, none of them in the code
    MaxPolls        \* fallback polls under way at once

ASSUME ChartAssumption ==
    /\ FirstView \in [sym: Symbols, tf: Timeframes]
    /\ MaxPolls \in Nat \ {0}

VARIABLES
    view,           \* the symbol (App) and the timeframe chosen
    candles,        \* candlesRef: the view that the bars shown were loaded for
    live,           \* liveCandleRef: its close, None when there is none
    header,         \* latestPrice: the price in the header
    loading,        \* dataLoadingRef
    prev,           \* prevSymbolRef
    loads,          \* the invocations of loadData under way
    polls           \* answers of the fallback poll under way

shown == <<candles, live, header>>
chartVars == <<view, shown, loading, prev, loads, polls>>
vars == <<streamVars, chartVars>>

Views == [sym: Symbols, tf: Timeframes]
Load == [id: 0..MaxEvents, view: Views, phase: {"history", "summary", "answered"},
         last: Maybe(Values), price: Maybe(Values)]

TypeOK ==
    /\ StreamTypeOK
    /\ view \in Views /\ candles \in Maybe(Views)
    /\ live \in Maybe(Values) /\ header \in Maybe(Values)
    /\ loading \in BOOLEAN /\ prev \in Maybe(Symbols)
    /\ loads \subseteq Load
    /\ polls \in Seq(Values) /\ Len(polls) <= MaxPolls

NewLoad(id, v) ==
    [id |-> id, view |-> v, phase |-> "history", last |-> None, price |-> None]

\* The first render: one load, and the poll's interval.
Init ==
    /\ StreamInit
    /\ view = FirstView
    /\ candles = None /\ live = None /\ header = None
    /\ loading = TRUE /\ prev = None
    /\ loads = {NewLoad(0, view)}
    /\ polls = <<>>

\* /realtime/summary: data.daily?.todayClose || data.tick?.close
LivePrice(s) == IF redis["close"][s] # None THEN redis["close"][s] ELSE redis["tick"][s]

-----------------------------------------------------------------------------
(* loadData *)

\* After a render with another symbol or timeframe: loadData starts.
StartLoad(v) ==
    /\ Happens
    /\ view' = v
    /\ loads' = loads \cup {NewLoad(events + 1, v)}
    /\ loading' = TRUE
    /\ UNCHANGED <<redis, session, frames, stale>>
    /\ UNCHANGED <<shown, polls>>

SelectSymbol(s) ==
    /\ s # view.sym
    /\ StartLoad([view EXCEPT !.sym = s])
    /\ IF prev \notin {None, s}
       THEN SwitchSymbol(s) /\ prev' = s
       ELSE UNCHANGED <<conn, commands, prev>>

\* Another timeframe, or another set of indicators, on which loadData depends.
Reload(t) ==
    /\ StartLoad([view EXCEPT !.tf = t])
    /\ UNCHANGED <<conn, commands, prev>>

\* The end of loadData, whatever happened: ticks are let in again and the
\* stream is opened for, or switched to, the symbol of this invocation.
Finish(l) ==
    /\ loads' = loads \ {l}
    /\ loading' = FALSE
    /\ CASE prev = None -> Subscribe(l.view.sym)
         [] prev \notin {None, l.view.sym} -> SwitchSymbol(l.view.sym)
         [] OTHER -> UNCHANGED <<conn, commands>>
    /\ prev' = l.view.sym
    /\ UNCHANGED <<redis, session, frames, stale>>
    /\ UNCHANGED <<view, polls>>

\* Bars: they replace what is shown, and the last one becomes the live candle.
HistoryAnswer(l, last) ==
    /\ l.phase = "history"
    /\ candles' = l.view /\ live' = last
    /\ loads' = (loads \ {l}) \cup {[l EXCEPT !.phase = "summary", !.last = last]}
    /\ UNCHANGED streamVars
    /\ UNCHANGED <<view, header, loading, prev, polls>>

\* A symbol without bars.
HistoryEmpty(l) ==
    /\ l.phase = "history"
    /\ candles' = None /\ live' = None
    /\ Finish(l)
    /\ UNCHANGED <<header, events>>

HistoryFails(l) ==
    /\ l.phase = "history" /\ Happens
    /\ Finish(l)
    /\ UNCHANGED shown

\* The API reads Redis for the summary that loadData awaits.
SummaryRead(l) ==
    /\ l.phase = "summary"
    /\ loads' = (loads \ {l}) \cup {[l EXCEPT !.phase = "answered",
                                              !.price = LivePrice(l.view.sym)]}
    /\ UNCHANGED streamVars
    /\ UNCHANGED <<view, shown, loading, prev, polls>>

\* The last bar takes the price of the summary; onPriceUpdate sets the header
\* and the effect of the header patches the live candle.
LoadEnds(l, price) ==
    LET last    == IF price = None THEN l.last ELSE price
        patched == IF price \notin {None, l.last} THEN price ELSE live
    IN  /\ header' = last
        /\ live' = IF patched = None THEN None ELSE last
        /\ Finish(l)
        /\ UNCHANGED <<candles>>

SummaryAnswer(l) ==
    /\ l.phase = "answered"
    /\ LoadEnds(l, l.price)
    /\ UNCHANGED events

SummaryFails(l) ==
    /\ l.phase = "answered" /\ Happens
    /\ LoadEnds(l, None)

-----------------------------------------------------------------------------
(* Callbacks of the stream, and the fallback poll of App.js *)

\* A tick is dropped while data is loaded.  It is not compared with the symbol.
OnTick(f) ==
    /\ f.type = "tick" /\ Receive(f)
    /\ IF loading
       THEN UNCHANGED <<live, header>>
       ELSE live' = f.val /\ header' = f.val
    /\ UNCHANGED <<view, candles, loading, prev, loads, polls>>

\* The panel shows the quote, which nothing reads back.
OnQuote(f) ==
    /\ f.type = "quote" /\ Receive(f)
    /\ UNCHANGED chartVars

\* The bug: the interval of the first render is never renewed.
PollOfFirstRender ==
    /\ Len(polls) < MaxPolls /\ LivePrice(FirstView.sym) # None
    /\ polls' = Append(polls, LivePrice(FirstView.sym))
    /\ UNCHANGED streamVars
    /\ UNCHANGED <<view, shown, loading, prev, loads>>

\* setInterval(3000): the API answers for the symbol of the render.  Nothing
\* else happens when it does, so that the answer can be read at once.
Poll ==
    /\ Len(polls) < MaxPolls /\ LivePrice(view.sym) # None
    /\ polls' = Append(polls, LivePrice(view.sym))
    /\ UNCHANGED streamVars
    /\ UNCHANGED <<view, shown, loading, prev, loads>>

\* The bug: only the header takes the answer of the poll.
PollAnswerHeaderOnly(i) ==
    /\ i \in DOMAIN polls
    /\ header' = polls[i]
    /\ polls' = RemoveAt(polls, i)
    /\ UNCHANGED streamVars
    /\ UNCHANGED <<view, candles, live, loading, prev, loads>>

\* handlePriceUpdate, then the effect that patches the live candle.
PollAnswer(i) ==
    /\ i \in DOMAIN polls
    /\ header' = polls[i]
    /\ live' = IF live = None \/ loading THEN live ELSE polls[i]
    /\ polls' = RemoveAt(polls, i)
    /\ UNCHANGED streamVars
    /\ UNCHANGED <<view, candles, loading, prev, loads>>

PollFails(i) ==
    /\ i \in DOMAIN polls /\ Happens
    /\ polls' = RemoveAt(polls, i)
    /\ UNCHANGED <<redis, session, conn, frames, commands, stale>>
    /\ UNCHANGED <<view, shown, loading, prev, loads>>

-----------------------------------------------------------------------------
LoadStep(l) ==
    \/ \E last \in Values : HistoryAnswer(l, last)
    \/ HistoryEmpty(l) \/ HistoryFails(l)
    \/ SummaryRead(l) \/ SummaryAnswer(l) \/ SummaryFails(l)

OnFrame == \E f \in Frame : OnTick(f) \/ OnQuote(f)

Next ==
    \/ StreamStep /\ UNCHANGED chartVars
    \/ \E s \in Symbols : SelectSymbol(s)
    \/ \E t \in Timeframes : Reload(t)
    \/ \E l \in loads : LoadStep(l)
    \/ OnFrame
    \/ Poll
    \/ \E i \in 1..MaxPolls : PollAnswer(i) \/ PollFails(i)

Spec == Init /\ [][Next]_vars

\* Timers fire, requests are answered or fail, the event loops of the server
\* and of the browser run what is ready.
Fairness ==
    /\ WF_vars(SenderStep /\ UNCHANGED chartVars)
    /\ WF_vars(TakeCommand /\ UNCHANGED chartVars)
    /\ WF_vars(Open /\ UNCHANGED chartVars)
    /\ WF_vars(Reconnect /\ UNCHANGED chartVars)
    /\ WF_vars(OnFrame)
    /\ WF_vars(\E l \in loads : LoadStep(l))
    /\ WF_vars(Poll)
    /\ WF_vars(PollAnswer(1))

FairSpec == Spec /\ Fairness

-----------------------------------------------------------------------------
(* Properties *)

\* The header ends with the price of the chosen symbol, although the stream
\* may be lost without notice, follow another symbol after a reconnection, or
\* push ticks of one, and answers of polls made for another symbol may come
\* late (App.js, the periodic poll).
HeaderConverges == <>[](header = LivePrice(view.sym))

\* So does the close of the last bar (CandlestickChart.js, the effect that
\* patches it), unless no bars could be loaded.
LastBarConverges == <>[](live \in {None, LivePrice(view.sym)})

\* Ticks are let in again after every load.
ChartResumes == <>[](loads = {} /\ ~loading)

\* The comment of dataLoadingRef: ticks are skipped while new data is loaded.
TicksWaitForLoad == loads # {} => loading

\* The stream ends with the chosen symbol, if it is not lost without notice.
StreamFollows == <>[](session # None => session.sym = view.sym)

\* The bars shown end as those of the chosen symbol and timeframe.
BarsOfView == <>[](candles \in {None, view})

=============================================================================
