------------------------- MODULE SmtpSessionProofs -------------------------
(***************************************************************************)
(* Theorems about one session of the server, for every set of mailboxes,   *)
(* every limit of recipients and every result of send and of saving.       *)
(***************************************************************************)
EXTENDS SmtpSession, SequenceTheorems, TLAPS

-----------------------------------------------------------------------------
\* The states and the message.

\* While the letter is saved, and only then, the session is delivering; lines
\* are handled only after the greeting.
PhaseOfState ==
  /\ phase = "saving" => state = "DELIVERING"
  /\ state = "DELIVERING" => phase \in {"saving", "dead"}
  /\ phase = "lines" => state # "SEND_GREETING"

\* Text mode is either the accident of a fresh session, which no line survives,
\* or it comes with a letter that has a sender, recipients and a body.
FreshText ==
  /\ state \in {"SEND_GREETING", "INIT", "CLOSED"}
  /\ from = NoMail /\ body = "null"

LetterText ==
  /\ state \in {"WRITING_DATA", "DELIVERING", "CLOSED"}
  /\ from \in Mailbox /\ recepients_num > 0 /\ body \in {"empty", "text"}

MessageInv ==
  /\ state \in {"SEND_GREETING", "INIT"} => from = NoMail /\ recepients_num = 0
  /\ state = "WAIT" => from \notin Mailbox /\ recepients_num = 0
  /\ state = "MAIL_CREATED_NO_RECEPIENTS" => from \in Mailbox /\ recepients_num = 0
  /\ state = "RECEPIENTS_SET" => from \in Mailbox /\ recepients_num > 0
  /\ input_message => FreshText \/ LetterText
  /\ state \in {"WRITING_DATA", "DELIVERING"} => input_message

\* The message has as many recipients as were accepted, and they are those.
SlotsInv ==
  /\ recepients_num \in 0 .. MaxRecipients
  /\ accepted \in Seq(Mailbox)
  /\ to \in [0 .. MaxRecipients - 1 -> Mailbox \cup {NoMail, Empty, "junk"}]
  /\ Len(accepted) = recepients_num
  /\ \A k \in 1 .. recepients_num : to[k - 1] = accepted[k]

\* The recipients are those answered 250 since the last reset, whatever refused
\* addresses, lost replies and resets came between them.
LEMMA SlotsStep ==
  ASSUME SlotsInv, [Next]_vars
  PROVE  SlotsInv'
<1> USE SessionAssumption DEF SlotsInv
<1>1. CASE handle_RCPT
  <2>1. CASE UNCHANGED <<to, recepients_num, accepted>>
    BY <2>1
  <2>2. CASE RefuseRecipient /\ ~Full
    BY <2>2 DEF RefuseRecipient, Full
  <2>3. ASSUME NEW mail \in Mailbox, ~Full,
               to' = [to EXCEPT ![recepients_num] = mail],
               accepted' = Append(accepted, mail),
               recepients_num' = recepients_num + 1
        PROVE  SlotsInv'
    BY <2>3 DEF Full
  <2> QED
    BY <1>1, <2>1, <2>2, <2>3
    DEF handle_RCPT, allowed_commands, message, history
<1>2. CASE Reset
  BY <1>2 DEF Reset
<1>3. CASE UNCHANGED <<to, recepients_num, accepted>>
  BY <1>3
<1> QED
  <2>1. CASE Loop
    BY <2>1, <1>3 DEF Loop, SendGreeting, HangUp, StartLines, EndLines, Remove,
                      message, history
  <2>2. CASE CommandHandler
    BY <2>2, <1>1, <1>2, <1>3
    DEF CommandHandler, handle_HELO, handle_EHLO, handle_MAIL, handle_RSET,
        handle_DATA, handle_QUIT, handle_NOOP, handle_NOT_IMPLEMENTED,
        allowed_commands, message, history
  <2>3. CASE TextHandler
    BY <2>3, <1>2, <1>3
    DEF TextHandler, handle_TEXT, StartSaving, SaveForRecipient, EndSaving,
        message, history
  <2>4. CASE \E received \in ReceivedLines : Receive(received)
    BY <2>4, <1>3 DEF Receive, message, history
  <2>5. CASE Timeout \/ Stop \/ FallSilent \/ Leave \/ Ended \/ UNCHANGED vars
    BY <2>5, <1>3 DEF Timeout, Stop, FallSilent, Leave, Ended, vars, message,
                      history
  <2> QED
    BY <2>1, <2>2, <2>3, <2>4, <2>5 DEF Next

\* Initially the message is empty.
LEMMA SlotsInit == Init => SlotsInv
BY SessionAssumption DEF Init, SlotsInv

\* So they are in every session.
LEMMA SlotsAlways == Spec => []SlotsInv
BY SlotsInit, SlotsStep, PTL DEF Spec

\* RecipientsAreAccepted: no recipient of another letter is left in
\* message->to, for every limit of recipients.
THEOREM RecipientsAreAcceptedHolds == Spec => []RecipientsAreAccepted
<1>1. SlotsInv => RecipientsAreAccepted
  BY DEF SlotsInv, RecipientsAreAccepted
<1> QED
  BY <1>1, SlotsAlways, PTL

-----------------------------------------------------------------------------
\* The state, the phase and the message.

StateInv == PhaseOfState /\ MessageInv /\ input_message \in BOOLEAN

\* The state and the message agree from the start.
LEMMA StateInit == Init => StateInv
BY SessionAssumption
DEF Init, StateInv, PhaseOfState, MessageInv, FreshText, LetterText

\* The turns of the loop keep the agreement.
LEMMA LoopStateStep ==
  ASSUME StateInv, SlotsInv,
         Loop \/ (\E received \in ReceivedLines : Receive(received))
           \/ Timeout \/ Stop \/ FallSilent \/ Leave \/ Ended \/ UNCHANGED vars
  PROVE  StateInv'
<1> USE DEF StateInv, PhaseOfState, MessageInv, FreshText, LetterText, message,
            history
<1>1. CASE SendGreeting
  BY <1>1 DEF SendGreeting, AfterReading
<1>2. CASE HangUp
  BY <1>2 DEF HangUp, AfterReading
<1>3. CASE StartLines \/ EndLines \/ Remove
  BY <1>3 DEF StartLines, EndLines, Remove
<1>4. CASE \E received \in ReceivedLines : Receive(received)
  BY <1>4 DEF Receive, AfterReading
<1>5. CASE Timeout
  BY <1>5 DEF Timeout
<1>6. CASE Stop
  BY <1>6 DEF Stop
<1>7. CASE FallSilent \/ Leave \/ Ended \/ UNCHANGED vars
  BY <1>7 DEF FallSilent, Leave, Ended, vars
<1> QED
  BY <1>1, <1>2, <1>3, <1>4, <1>5, <1>6, <1>7 DEF Loop

\* So do the commands, whatever becomes of their replies.
LEMMA CommandStateStep ==
  ASSUME StateInv, SlotsInv, CommandHandler
  PROVE  StateInv'
<1> USE SessionAssumption
    DEF StateInv, PhaseOfState, MessageInv, FreshText, LetterText, message,
        history, Take
<1>1. CASE handle_HELO
  BY <1>1 DEF handle_HELO, allowed_commands, Replied, UnlessBlocked
<1>2. CASE handle_EHLO
  BY <1>2 DEF handle_EHLO, allowed_commands, Replied, UnlessBlocked
<1>3. CASE handle_MAIL
  BY <1>3 DEF handle_MAIL, allowed_commands, Replied
<1>4. CASE handle_RCPT
  BY <1>4 DEF handle_RCPT, allowed_commands, Replied, RefuseRecipient, SlotsInv
<1>5. CASE handle_RSET
  BY <1>5 DEF handle_RSET, allowed_commands, Replied, Reset
<1>6. CASE handle_DATA
  <2>1. CASE UNCHANGED <<state, input_message, message>> /\ Replied
    BY <1>6, <2>1 DEF handle_DATA, Replied
  <2>2. CASE /\ ReadyForData
             /\ body' = "empty" /\ input_message' = TRUE
             /\ state' = "WRITING_DATA" /\ phase' = "lines"
             /\ UNCHANGED <<from, recepients_num>>
    BY <2>2 DEF ReadyForData
  <2> QED
    BY <1>6, <2>1, <2>2 DEF handle_DATA, allowed_commands
<1>7. CASE handle_QUIT
  BY <1>7 DEF handle_QUIT, UnlessBlocked
<1>8. CASE handle_NOOP \/ handle_NOT_IMPLEMENTED
  BY <1>8 DEF handle_NOOP, handle_NOT_IMPLEMENTED, Replied
<1> QED
  BY <1>1, <1>2, <1>3, <1>4, <1>5, <1>6, <1>7, <1>8 DEF CommandHandler

\* So do the lines of a letter and its delivery.
LEMMA TextStateStep ==
  ASSUME StateInv, TextHandler
  PROVE  StateInv'
<1> USE SessionAssumption
    DEF StateInv, PhaseOfState, MessageInv, FreshText, LetterText, message,
        history
<1>1. CASE handle_TEXT
  BY <1>1 DEF handle_TEXT, TextLine
<1>2. CASE StartSaving
  BY <1>2 DEF StartSaving, TextLine
<1>3. CASE SaveForRecipient
  BY <1>3 DEF SaveForRecipient
<1>4. CASE EndSaving
  BY <1>4 DEF EndSaving, Reset, Replied
<1> QED
  BY <1>1, <1>2, <1>3, <1>4 DEF TextHandler

\* So they agree in every session.
LEMMA StateAlways == Spec => []StateInv
<1>1. StateInv /\ SlotsInv /\ [Next]_vars => StateInv'
  BY LoopStateStep, CommandStateStep, TextStateStep DEF Next
<1> QED
  BY <1>1, StateInit, SlotsAlways, PTL DEF Spec

\* StateMatchesMessage: what each handler assumes of the message without
\* looking at it.
THEOREM StateMatchesMessageHolds == Spec => []StateMatchesMessage
<1>1. StateInv => StateMatchesMessage
  BY DEF StateInv, MessageInv, FreshText, LetterText, StateMatchesMessage
<1> QED
  BY <1>1, StateAlways, PTL

\* TextOnlyInLetter: no command ends up in a letter, no line of a letter is
\* obeyed.
THEOREM TextOnlyInLetterHolds == Spec => []TextOnlyInLetter
<1>1. StateInv => TextOnlyInLetter
  BY DEF StateInv, MessageInv, FreshText, LetterText, TextOnlyInLetter
<1> QED
  BY <1>1, StateAlways, PTL

-----------------------------------------------------------------------------
\* Every variable keeps its type.

\* TypeOK without the variables of StateInv and SlotsInv; while the letter is
\* saved the line that ended it is still there, and the loop of save_message
\* stays in the recipients of the message.
TypeInv ==
  /\ state \in {"SEND_GREETING", "INIT", "WAIT", "MAIL_CREATED_NO_RECEPIENTS",
                "RECEPIENTS_SET", "WRITING_DATA", "DELIVERING", "CLOSED"}
  /\ lines \in Seq(Command)
  /\ from \in Mailbox \cup {NoMail, Empty}
  /\ body \in {"null", "empty", "text", "freed"}
  /\ i \in 0 .. MaxRecipients
  /\ stored \in Seq(Mailbox)
  /\ peer \in {"talking", "silent", "gone"}
  /\ phase \in {"select", "write", "lines", "saving", "removed", "stopped",
               "dead"}
  /\ phase = "saving" => lines # <<>> /\ i <= recepients_num

\* The types hold at first.
LEMMA TypeInit == Init => TypeInv
BY SessionAssumption DEF Init, TypeInv

\* What is received is a sequence of commands; the other turns move the phase.
LEMMA LoopTypeStep ==
  ASSUME TypeInv,
         Loop \/ (\E received \in ReceivedLines : Receive(received))
           \/ Timeout \/ Stop \/ FallSilent \/ Leave \/ Ended \/ UNCHANGED vars
  PROVE  TypeInv'
<1> USE DEF TypeInv, message, history
<1>1. CASE SendGreeting
  BY <1>1 DEF SendGreeting, AfterReading
<1>2. CASE HangUp
  BY <1>2 DEF HangUp, AfterReading
<1>3. CASE StartLines \/ EndLines \/ Remove
  BY <1>3 DEF StartLines, EndLines, Remove
<1>4. ASSUME NEW received \in ReceivedLines, Receive(received)
      PROVE  TypeInv'
  <2>1. received \in Seq(Command)
    BY SessionAssumption DEF ReceivedLines
  <2> QED
    BY <1>4, <2>1 DEF Receive, AfterReading
<1>5. CASE Timeout \/ Stop
  BY <1>5 DEF Timeout, Stop
<1>6. CASE FallSilent \/ Leave \/ Ended \/ UNCHANGED vars
  BY <1>6 DEF FallSilent, Leave, Ended, vars
<1> QED
  BY <1>1, <1>2, <1>3, <1>4, <1>5, <1>6 DEF Loop

\* A command takes the first line and stores nothing.
LEMMA CommandTypeStep ==
  ASSUME TypeInv, CommandHandler
  PROVE  TypeInv'
<1> USE DEF message, history
<1>1. phase' \in {"lines", "select", "dead"}
  BY DEF CommandHandler, handle_HELO, handle_EHLO, handle_MAIL, handle_RCPT,
         handle_RSET, handle_DATA, handle_QUIT, handle_NOOP,
         handle_NOT_IMPLEMENTED, allowed_commands, Replied, Take
<1>2. lines' \in Seq(Command)
  <2>1. lines # <<>>
    BY DEF CommandHandler, handle_HELO, handle_EHLO, handle_MAIL, handle_RCPT,
           handle_RSET, handle_DATA, handle_QUIT, handle_NOOP,
           handle_NOT_IMPLEMENTED, Take
  <2>2. lines' = lines \/ lines' = <<>> \/ lines' = Tail(lines)
    BY DEF CommandHandler, handle_HELO, handle_EHLO, handle_MAIL, handle_RCPT,
           handle_RSET, handle_DATA, handle_QUIT, handle_NOOP,
           handle_NOT_IMPLEMENTED, allowed_commands, Replied
  <2>3. lines \in Seq(Command) /\ Tail(lines) \in Seq(Command)
    BY <2>1, HeadTailProperties DEF TypeInv
  <2>4. <<>> \in Seq(Command)
    OBVIOUS
  <2> QED
    BY <2>2, <2>3, <2>4
<1>3. i' = i /\ peer' = peer
  BY DEF CommandHandler, handle_HELO, handle_EHLO, handle_MAIL, handle_RCPT,
         handle_RSET, handle_DATA, handle_QUIT, handle_NOOP,
         handle_NOT_IMPLEMENTED, Take
<1>4. /\ state' = state \/ state' \in {"WAIT", "MAIL_CREATED_NO_RECEPIENTS",
                        "RECEPIENTS_SET", "WRITING_DATA", "CLOSED"}
      /\ body' = body \/ body' = "empty"
      /\ from' = from \/ from' \in Mailbox \cup {NoMail, Empty}
      /\ stored' = stored \/ stored' = <<>>
  BY DEF CommandHandler, handle_HELO, handle_EHLO, handle_MAIL, handle_RCPT,
         handle_RSET, handle_DATA, handle_QUIT, handle_NOOP,
         handle_NOT_IMPLEMENTED, allowed_commands, UnlessBlocked, Reset,
         RefuseRecipient
<1>5. stored' \in Seq(Mailbox)
  <2>1. <<>> \in Seq(Mailbox)
    OBVIOUS
  <2> QED
    BY <1>4, <2>1 DEF TypeInv
<1>6. /\ state' \in {"SEND_GREETING", "INIT", "WAIT", "RECEPIENTS_SET",
                    "MAIL_CREATED_NO_RECEPIENTS", "WRITING_DATA", "DELIVERING",
                    "CLOSED"}
      /\ body' \in {"null", "empty", "text", "freed"}
      /\ from' \in Mailbox \cup {NoMail, Empty}
  BY <1>4 DEF TypeInv
<1> QED
  BY <1>1, <1>2, <1>3, <1>5, <1>6 DEF TypeInv

\* The loop of save_message goes through the recipients and no further.
LEMMA TextTypeStep ==
  ASSUME TypeInv, SlotsInv, TextHandler
  PROVE  TypeInv'
<1> USE DEF message, history
<1>1. recepients_num \in 0 .. MaxRecipients /\ MaxRecipients \in Nat
  BY SessionAssumption DEF SlotsInv
<1>2. lines # <<>> => Tail(lines) \in Seq(Command)
  BY HeadTailProperties DEF TypeInv
<1>3. CASE handle_TEXT
  BY <1>1, <1>2, <1>3 DEF handle_TEXT, TextLine, TypeInv
<1>4. CASE StartSaving
  BY <1>1, <1>4 DEF StartSaving, TextLine, FirstRecipient, TypeInv
<1>5. CASE SaveForRecipient
  <2>1. to[i] \in Mailbox
    BY <1>1, <1>5 DEF SaveForRecipient, SlotsInv, TypeInv
  <2>2. stored' \in Seq(Mailbox)
    BY <1>5, <2>1 DEF SaveForRecipient, TypeInv
  <2>3. i' \in 0 .. recepients_num
    BY <1>1, <1>5 DEF SaveForRecipient, TypeInv
  <2> QED
    BY <1>1, <1>5, <2>2, <2>3 DEF SaveForRecipient, TypeInv
<1>6. CASE EndSaving
  BY <1>1, <1>2, <1>6 DEF EndSaving, Reset, Replied, TypeInv
<1> QED
  BY <1>3, <1>4, <1>5, <1>6 DEF TextHandler

\* So every variable keeps its type in every session.
LEMMA TypeAlways == Spec => []TypeInv
<1>1. TypeInv /\ SlotsInv /\ [Next]_vars => TypeInv'
  BY SlotsStep, LoopTypeStep, CommandTypeStep, TextTypeStep DEF Next
<1> QED
  BY <1>1, TypeInit, SlotsAlways, PTL DEF Spec

\* TypeOK: what is stored for the recipients of a letter are addresses.
THEOREM TypeOKHolds == Spec => []TypeOK
<1>1. TypeInv /\ SlotsInv /\ StateInv => TypeOK
  BY DEF TypeInv, SlotsInv, StateInv, TypeOK
<1> QED
  BY <1>1, TypeAlways, SlotsAlways, StateAlways, PTL

-----------------------------------------------------------------------------
\* The delivery of a letter.

\* What has been stored while a letter is saved: the first i recipients, when
\* no rename fails; nothing of it is left for the next letter.
StoredInv ==
  /\ phase \notin {"saving", "dead"} => stored = <<>>
  /\ phase = "saving" /\ body = "text" /\ "lost" \notin StoreResult =>
       /\ Len(stored) = i
       /\ \A k \in 1 .. i : stored[k] = to[k - 1]

\* Nothing is stored at first.
LEMMA StoredInit == Init => StoredInv
BY DEF Init, StoredInv

\* Each turn of the loop of save_message stores the next recipient.
LEMMA StoredStep ==
  ASSUME TypeInv, SlotsInv, StoredInv, [Next]_vars
  PROVE  StoredInv'
<1> USE DEF message, history
<1>1. recepients_num \in Nat /\ i \in Nat /\ stored \in Seq(Mailbox)
  BY SessionAssumption DEF SlotsInv, TypeInv
<1>2. CASE Loop \/ (\E received \in ReceivedLines : Receive(received))
             \/ Timeout \/ Stop \/ FallSilent \/ Leave \/ Ended \/ UNCHANGED vars
  <2>1. UNCHANGED <<message, i, stored>>
    BY <1>2 DEF Loop, SendGreeting, HangUp, StartLines, EndLines, Remove, Receive,
                Timeout, Stop, FallSilent, Leave, Ended, vars
  <2>2. phase' = phase \/ phase \in {"select", "write", "lines"}
    BY <1>2 DEF Loop, SendGreeting, HangUp, StartLines, EndLines, Remove, Receive,
                Timeout, Stop, FallSilent, Leave, Ended, vars, AfterReading
  <2>3. phase' = "saving" => phase = "saving"
    BY <1>2 DEF Loop, SendGreeting, HangUp, StartLines, EndLines, Remove, Receive,
                Timeout, Stop, FallSilent, Leave, Ended, vars, AfterReading
  <2> QED
    BY <2>1, <2>2, <2>3 DEF StoredInv
<1>3. CASE CommandHandler
  <2>1. phase = "lines" /\ phase' # "saving"
    BY <1>3
    DEF CommandHandler, handle_HELO, handle_EHLO, handle_MAIL, handle_RCPT,
        handle_RSET, handle_DATA, handle_QUIT, handle_NOOP,
        handle_NOT_IMPLEMENTED, allowed_commands, Replied, Take
  <2>2. stored' = stored \/ stored' = <<>>
    BY <1>3
    DEF CommandHandler, handle_HELO, handle_EHLO, handle_MAIL, handle_RCPT,
        handle_RSET, handle_DATA, handle_QUIT, handle_NOOP,
        handle_NOT_IMPLEMENTED, allowed_commands, Reset
  <2> QED
    BY <2>1, <2>2 DEF StoredInv
<1>4. CASE handle_TEXT
  BY <1>4 DEF handle_TEXT, TextLine, StoredInv
<1>5. CASE StartSaving
  BY <1>5 DEF StartSaving, TextLine, FirstRecipient, StoredInv
<1>6. CASE SaveForRecipient
  <2>1. to[i] \in Mailbox
    BY <1>1, <1>6 DEF SaveForRecipient, SlotsInv
  <2>2. CASE stored' = Append(stored, to[i]) /\ i' = i + 1
    <3>1. UNCHANGED <<phase, to, body>>
      BY <1>6, <2>2, <1>1, <2>1 DEF SaveForRecipient
    <3>2. CASE phase = "saving" /\ body = "text" /\ "lost" \notin StoreResult
      <4>1. Len(stored) = i /\ \A k \in 1 .. i : stored[k] = to[k - 1]
        BY <3>2 DEF StoredInv
      <4>2. Len(stored') = i'
        BY <1>1, <2>1, <2>2, <4>1, AppendProperties
      <4>3. \A k \in 1 .. i' : stored'[k] = to'[k - 1]
        BY <1>1, <2>1, <2>2, <3>1, <4>1, AppendProperties
      <4> QED
        BY <1>6, <3>1, <4>2, <4>3 DEF SaveForRecipient, StoredInv
    <3> QED
      BY <1>6, <3>1, <3>2 DEF SaveForRecipient, StoredInv
  <2>3. CASE "lost" \in StoreResult /\ UNCHANGED phase
    BY <1>6, <2>3 DEF SaveForRecipient, StoredInv
  <2>4. CASE phase' = "dead"
    BY <1>6, <2>4 DEF SaveForRecipient, StoredInv
  <2> QED
    BY <1>6, <2>2, <2>3, <2>4 DEF SaveForRecipient
<1>7. CASE EndSaving
  BY <1>7 DEF EndSaving, Reset, Replied, StoredInv
<1> QED
  BY <1>2, <1>3, <1>4, <1>5, <1>6, <1>7 DEF Next, TextHandler

\* StoredForAccepted: the letter is stored for every accepted recipient, once
\* and in order, however many there are.
THEOREM StoredForAcceptedHolds == Spec => StoredForAccepted
<1>1. ASSUME TypeInv, SlotsInv, StateInv, StoredInv, [Next]_vars,
             state = "DELIVERING", state' = "WAIT", body = "text",
             "lost" \notin StoreResult
      PROVE  stored = accepted
  <2>1. phase \in {"saving", "dead"}
    BY <1>1 DEF StateInv, PhaseOfState
  <2>2. EndSaving
    BY <1>1, <2>1
    DEF Next, Loop, SendGreeting, HangUp, StartLines, EndLines, Remove, Receive,
        Timeout, Stop, FallSilent, Leave, Ended, vars, AfterReading,
        CommandHandler, handle_HELO, handle_EHLO, handle_MAIL, handle_RCPT,
        handle_RSET, handle_DATA, handle_QUIT, handle_NOOP,
        handle_NOT_IMPLEMENTED, Take, TextHandler, handle_TEXT, StartSaving,
        TextLine, SaveForRecipient
  <2>3. i = recepients_num
    BY <1>1, <2>2, SessionAssumption DEF EndSaving, TypeInv, SlotsInv
  <2>4. /\ stored \in Seq(Mailbox) /\ accepted \in Seq(Mailbox)
        /\ Len(stored) = Len(accepted)
        /\ \A k \in 1 .. Len(stored) : stored[k] = accepted[k]
    BY <1>1, <2>2, <2>3 DEF EndSaving, StoredInv, SlotsInv, TypeInv
  <2> QED
    BY <2>4, SeqEqual
<1>2. TypeInv /\ SlotsInv /\ StateInv /\ StoredInv /\ [Next]_vars
        => [state = "DELIVERING" /\ state' = "WAIT" /\ body = "text"
              /\ "lost" \notin StoreResult => stored = accepted]_vars
  BY <1>1
<1>3. Spec => []StoredInv
  BY StoredInit, StoredStep, TypeAlways, SlotsAlways, PTL DEF Spec
<1> QED
  BY <1>2, <1>3, TypeAlways, SlotsAlways, StateAlways, PTL
  DEF Spec, StoredForAccepted

-----------------------------------------------------------------------------
\* The automaton of server.def.

\* Every handler, reply and failure moves the session along a transition of
\* ServerFsm or leaves its state.
LEMMA FsmStep ==
  ASSUME TypeInv, StateInv, [Next]_vars
  PROVE  [Fsm!Next]_state
<1> USE DEF PhaseOfState, StateInv, Fsm!Next, Fsm!InDialogue
<1> state \in {"SEND_GREETING", "INIT", "WAIT", "MAIL_CREATED_NO_RECEPIENTS",
              "RECEPIENTS_SET", "WRITING_DATA", "DELIVERING", "CLOSED"}
  BY DEF TypeInv
<1>1. CASE UNCHANGED state
  BY <1>1
<1>2. CASE SendGreeting
  BY <1>2 DEF SendGreeting, Fsm!connection_established, Fsm!greeting_failed
<1>3. CASE HangUp \/ Timeout
  BY <1>3 DEF HangUp, Timeout, Fsm!connection_failed, Fsm!greeting_failed
<1>4. CASE handle_HELO \/ handle_EHLO
  BY <1>4 DEF handle_HELO, handle_EHLO, allowed_commands, UnlessBlocked,
              Fsm!handle_HELO
<1>5. CASE handle_MAIL
  BY <1>5 DEF handle_MAIL, allowed_commands, Fsm!handle_MAIL
<1>6. CASE handle_RCPT
  BY <1>6 DEF handle_RCPT, allowed_commands, Fsm!handle_RCPT
<1>7. CASE handle_RSET
  BY <1>7 DEF handle_RSET, allowed_commands, Reset, Fsm!handle_RSET
<1>8. CASE handle_DATA
  BY <1>8 DEF handle_DATA, allowed_commands, ReadyForData, Fsm!handle_DATA
<1>9. CASE handle_QUIT
  BY <1>9 DEF handle_QUIT, UnlessBlocked, Take, MessageInv, Fsm!handle_QUIT
<1>10. CASE StartSaving
  BY <1>10 DEF StartSaving, TextLine, MessageInv, FreshText, LetterText,
               Fsm!CLRF_dot_CLRF, Fsm!late_dot
<1>11. CASE EndSaving
  BY <1>11 DEF EndSaving, Reset, Fsm!message_saved
<1> QED
  BY <1>1, <1>2, <1>3, <1>4, <1>5, <1>6, <1>7, <1>8, <1>9, <1>10, <1>11
  DEF Next, Loop, StartLines, EndLines, Remove, Receive, Stop, FallSilent, Leave,
      Ended, vars, CommandHandler, handle_NOOP, handle_NOT_IMPLEMENTED,
      TextHandler, handle_TEXT, SaveForRecipient

\* ImplementsServerFsm: the session implements the automaton of server.def.
THEOREM ImplementsServerFsmHolds == Spec => ImplementsServerFsm
<1>1. Init => state = "SEND_GREETING"
  BY DEF Init
<1>2. TypeInv /\ StateInv /\ [Next]_vars => [Fsm!Next]_state
  BY FsmStep
<1> QED
  BY <1>1, <1>2, TypeAlways, StateAlways, PTL DEF Spec, ImplementsServerFsm, Fsm!Spec

=============================================================================
