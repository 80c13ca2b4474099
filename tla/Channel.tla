-------------------------------- MODULE Channel --------------------------------
(***************************************************************************)
(* Channel and Epoller (src/event/channel.cc, channel.h, epoller.cc): one  *)
(* descriptor's event mask, its place in Epoller::channels_ and what the   *)
(* kernel was told of it.  Every operation maps a channel to a channel; an *)
(* assertion of the code that fails leaves failed = TRUE.                  *)
(***************************************************************************)
EXTENDS FiniteSets

Events == {"read", "write"}  \* kReadEvent and kWriteEvent

(* status is the POLL_TAG kept in the channel; mapped tells whether channels_
   has the descriptor; interest is the mask given to epoll_ctl, and the channel
   is registered with the kernel between EPOLL_CTL_ADD and EPOLL_CTL_DEL;
   added_to_loop_ is the flag ~Channel asserts about. *)
ChannelStates ==
  [events : SUBSET Events, status : {"NEW", "ADD", "DEL"}, mapped : BOOLEAN,
   registered : BOOLEAN, interest : SUBSET Events, added_to_loop_ : BOOLEAN,
   failed : BOOLEAN]

NewChannel ==
  [events |-> {}, status |-> "NEW", mapped |-> FALSE, registered |-> FALSE,
   interest |-> {}, added_to_loop_ |-> FALSE, failed |-> FALSE]

is_writing(c) == "write" \in c.events
is_reading(c) == "read" \in c.events
is_none_event(c) == c.events = {}

(* Epoller::update: tell the kernel. *)
CtlSet(c) == [c EXCEPT !.registered = TRUE, !.interest = c.events]
CtlDel(c) == [c EXCEPT !.registered = FALSE, !.interest = {}]

(* Fault: a channel whose mask is empty stays registered. *)
update_channel_KeepEmpty(c) ==
  CASE c.status = "NEW" ->
         [CtlSet(c) EXCEPT !.status = "ADD", !.mapped = TRUE,
                           !.failed = @ \/ c.mapped]
    [] c.status = "DEL" -> [CtlSet(c) EXCEPT !.status = "ADD", !.failed = TRUE]
    [] c.status = "ADD" -> CtlSet(c)

(* Epoller::update_channel.  For a channel marked DEL the code asserts that
   channels_ does not have it, and then dereferences what it did not find. *)
update_channel(c) ==
  CASE c.status = "NEW" ->
         [CtlSet(c) EXCEPT !.status = "ADD", !.mapped = TRUE,
                           !.failed = @ \/ c.mapped]
    [] c.status = "DEL" ->
         [CtlSet(c) EXCEPT !.status = "ADD", !.failed = TRUE]
    [] c.status = "ADD" ->
         IF is_none_event(c) THEN [CtlDel(c) EXCEPT !.status = "DEL"]
                             ELSE CtlSet(c)

(* Channel::update_, behind every change of the mask. *)
SetEvents(c, es) ==
  update_channel([c EXCEPT !.events = es, !.added_to_loop_ = TRUE])

enable_reading(c) == SetEvents(c, c.events \cup {"read"})
disable_reading(c) == SetEvents(c, c.events \ {"read"})
enable_writing(c) == SetEvents(c, c.events \cup {"write"})
disable_writing(c) == SetEvents(c, c.events \ {"write"})
disable_all(c) == SetEvents(c, {})

(* Channel::remove and Epoller::remove_channel. *)
remove(c) ==
  [CtlDel(c) EXCEPT !.added_to_loop_ = FALSE, !.mapped = FALSE, !.status = "NEW",
                    !.failed = @ \/ ~is_none_event(c) \/ c.status = "NEW"]
===============================================================================
