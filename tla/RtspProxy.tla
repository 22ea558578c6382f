------------------------------ MODULE RtspProxy ------------------------------
(***************************************************************************)
(* RtspHandler and GstRtspProxyServer for one camera: viewers connect to   *)
(* the RTSP server, each new media gives the handler the sources to push   *)
(* to, the receiver forwards video and the detector unit sends metadata    *)
(* documents, and StopRTSP takes it all down.                              *)
(* gst-rtsp-server and GLib are external: a media is made for a viewer if  *)
(* the mount point was there when it was looked up, in a thread of the     *)
(* server, and a loop that is told to quit before it runs is not stopped   *)
(* by that.  Sources stay valid: OnMediaConfigure keeps a reference.       *)
(***************************************************************************)
EXTENDS OnvifMetadata

CONSTANTS
  Documents,            \* the documents that the unit sends
  FirstNumbers,         \* the random numbers a payloader may start with
  MaxMedia,             \* bound: medias made
  MaxDocuments          \* bound: documents sent

\* A sequence number says something about the packet before it only while
\* fewer pushes fail in a row than there are numbers; a push that fails ends
\* its document.
ASSUME ProxyAssumption ==
  /\ Documents \subseteq Seq({"first", "next"})
  /\ FirstNumbers \subseteq Nat /\ \A n \in FirstNumbers : n < SeqModulus
  /\ MaxMedia \in Nat
  /\ MaxDocuments \in Nat /\ MaxDocuments < SeqModulus

VARIABLES
  mpc,                  \* the main thread: Initialize, then StopRTSP
  lpc, quit,            \* the loop thread, and the quit it was told, if any
  mounted, context,     \* the mount point; the FactoryContext is allocated
  viewer,               \* the request of a viewer: "idle", "found", "calling"
  medias,               \* medias made so far; the number is its source
  video,                \* cam_sinks_: video_src, 0 for none
  payloader,            \* cam_sinks_: meta_payloader, << >> for none
  mutex,                \* cam_sinks_mtx_ is held by the sender of metadata
  sending,              \* the document and the bytes that are left, or << >>
  target,               \* the payloader that the sender uses, or << >>
  sent,                 \* documents taken up so far
  forwarding,           \* the source ForwardVideoRtp has in hand, 0 for none
  got,                  \* the metadata packets that each source has taken
  cut                   \* history: the numbers, of each source, that a packet
                        \* was about to take when its document was dropped

serverVars == <<mpc, lpc, quit, mounted, context>>
sinkVars == <<viewer, medias, video, payloader>>
metaVars == <<mutex, sending, target, sent, got, cut>>
vars == <<serverVars, sinkVars, metaVars, forwarding>>

Alive == mpc # "aborted"

Init ==
  /\ mpc = "start" /\ lpc = "none" /\ quit = "no"
  /\ mounted = FALSE /\ context = FALSE
  /\ viewer = "idle" /\ medias = 0
  /\ video = 0 /\ payloader = << >>
  /\ mutex = FALSE /\ sending = << >> /\ target = << >> /\ sent = 0
  /\ got = [m \in 1..MaxMedia |-> << >>]
  /\ cut = [m \in 1..MaxMedia |-> {}]
  /\ forwarding = 0

------------------------------------------------------------------------------
\* Start, and the thread it starts.

Start ==
  /\ mpc = "start"
  /\ mpc' = "attaching"
  /\ lpc' = "attach"
  /\ UNCHANGED <<quit, mounted, context, sinkVars, metaVars, forwarding>>

\* The loop and the source are made, then Start is told.
Attach ==
  /\ Alive
  /\ lpc = "attach"
  /\ lpc' = "attached"
  /\ UNCHANGED <<mpc, quit, mounted, context, sinkVars, metaVars, forwarding>>

StartReturns ==
  /\ mpc = "attaching" /\ lpc # "attach"
  /\ mpc' = "register"
  /\ UNCHANGED <<lpc, quit, mounted, context, sinkVars, metaVars, forwarding>>

\* After five seconds.  running_ is cleared, so Stop does nothing when the
\* server is destroyed, and a thread object that can be joined ends the
\* program.
StartTimesOut ==
  /\ mpc = "attaching" /\ lpc = "attach"
  /\ mpc' = "aborted"
  /\ UNCHANGED <<lpc, quit, mounted, context, sinkVars, metaVars, forwarding>>

\* g_main_loop_run forgets a quit that came before it.
LoopRun ==
  /\ Alive
  /\ lpc = "attached"
  /\ lpc' = "running"
  /\ quit' = IF quit = "told" THEN "lost" ELSE quit
  /\ UNCHANGED <<mpc, mounted, context, sinkVars, metaVars, forwarding>>

LoopEnds ==
  /\ Alive
  /\ lpc = "running" /\ quit = "told"
  /\ lpc' = "ended"
  /\ UNCHANGED <<mpc, quit, mounted, context, sinkVars, metaVars, forwarding>>

\* RegisterClient, whose last call is RegisterCamera; then RunRTSP.
RegisterClient ==
  /\ mpc = "register"
  /\ mpc' = "up"
  /\ mounted' = TRUE
  /\ context' = TRUE
  /\ UNCHANGED <<lpc, quit, sinkVars, metaVars, forwarding>>

------------------------------------------------------------------------------
\* A viewer, served by a thread of the server (external), and the callback
\* OnMediaConfigure with OnProxySinkReady.

ViewerAsks ==
  /\ Alive
  /\ viewer = "idle" /\ lpc = "running" /\ mounted
  /\ medias < MaxMedia
  /\ viewer' = "found"
  /\ UNCHANGED <<serverVars, medias, video, payloader, metaVars, forwarding>>

\* The context may be gone by now, and is then used all the same.
OnMediaConfigure ==
  /\ Alive
  /\ viewer = "found"
  /\ \/ /\ viewer' = "calling"
        /\ medias' = medias + 1
        /\ UNCHANGED mpc
     \/ /\ ~context
        /\ mpc' = "aborted"
        /\ UNCHANGED <<viewer, medias>>
  /\ UNCHANGED <<lpc, quit, mounted, context, video, payloader, metaVars,
                 forwarding>>

OnProxySinkReady ==
  /\ Alive
  /\ viewer = "calling"
  /\ ~mutex
  /\ viewer' = "idle"
  /\ video' = medias
  /\ \E n \in FirstNumbers : payloader' = << [source |-> medias, seq |-> n] >>
  /\ UNCHANGED <<serverVars, medias, metaVars, forwarding>>

------------------------------------------------------------------------------
\* SendOnvifMetadata, called by the unit while it runs: the lock is held for
\* the whole document.

\* A plausible bug: the lock is released before the push, as it is for video.
UnlockedSendOnvifMetadata ==
  /\ mpc = "up" /\ sending = << >> /\ ~mutex
  /\ sent < MaxDocuments
  /\ payloader # << >>
  /\ \E d \in Documents : sending' = << [doc |-> d, left |-> d] >>
  /\ target' = payloader
  /\ sent' = sent + 1
  /\ UNCHANGED <<mutex, got, cut, serverVars, sinkVars, forwarding>>

SendOnvifMetadata ==
  /\ mpc = "up" /\ sending = << >> /\ ~mutex
  /\ sent < MaxDocuments
  /\ payloader # << >>
  /\ \E d \in Documents : sending' = << [doc |-> d, left |-> d] >>
  /\ target' = payloader
  /\ mutex' = TRUE
  /\ sent' = sent + 1
  /\ UNCHANGED <<got, cut, serverVars, sinkVars, forwarding>>

\* One round of the loop of PushXml.  PushPacket gets no buffer to write to,
\* and then no number is taken either; or the header is written, and the
\* source takes the packet or not.  When it has failed, the rest of the
\* document is dropped.
Outcomes == {"no buffer", "refused", "taken"}

PushPacket ==
  /\ Alive
  /\ sending # << >>
  /\ LET p    == target[1]
         s    == sending[1]
         rest == Rest(s.left)
     IN  \E outcome \in Outcomes :
           LET after == IF outcome = "no buffer" THEN p ELSE NextNumber(p) IN
           /\ got' = IF outcome = "taken"
                     THEN [got EXCEPT ![p.source] =
                             Append(@, Packet(p, s.doc, s.left))]
                     ELSE got
           /\ cut' = IF outcome = "no buffer"
                     THEN [cut EXCEPT ![p.source] = @ \cup {p.seq}]
                     ELSE cut
           /\ payloader' = IF payloader = target THEN << after >> ELSE payloader
           /\ IF outcome = "taken" /\ rest # << >>
              THEN /\ sending' = << [s EXCEPT !.left = rest] >>
                   /\ target' = << after >>
                   /\ UNCHANGED mutex
              ELSE /\ sending' = << >>
                   /\ target' = << >>
                   /\ mutex' = FALSE
  /\ UNCHANGED <<sent, viewer, medias, video, serverVars, forwarding>>

\* ForwardVideoRtp, called by the receiver while its pipeline plays: the
\* source is read under the lock and used after it.
ForwardVideoRtp ==
  /\ mpc \in {"up", "hung"} /\ forwarding = 0 /\ video # 0 /\ ~mutex
  /\ forwarding' = video
  /\ UNCHANGED <<serverVars, sinkVars, metaVars>>

ForwardPush ==
  /\ Alive
  /\ forwarding # 0
  /\ forwarding' = 0
  /\ UNCHANGED <<serverVars, sinkVars, metaVars>>

------------------------------------------------------------------------------
\* The unit has stopped (see DetectorUnit); StopRTSP begins with
\* client->Stop(), which returns when the receiver has ended.  In RtspClient
\* there are two ways in which it does not: the quit of the receiver's loop
\* was lost, or a bus callback outlived its receiver and ended the program.

StopRTSP ==
  /\ mpc = "up" /\ sending = << >>
  /\ mpc' = "clients"
  /\ UNCHANGED <<lpc, quit, mounted, context, sinkVars, metaVars, forwarding>>

StopClients ==
  /\ mpc = "clients" /\ forwarding = 0
  /\ mpc' = "mounts"
  /\ UNCHANGED <<lpc, quit, mounted, context, sinkVars, metaVars, forwarding>>

ClientStopFails ==
  /\ mpc = "clients"
  /\ mpc' \in {"hung", "aborted"}
  /\ UNCHANGED <<lpc, quit, mounted, context, sinkVars, metaVars, forwarding>>

\* GstRtspProxyServer::Stop, steps 1 to 5.
RemoveMounts ==
  /\ mpc = "mounts"
  /\ mpc' = "quit"
  /\ mounted' = FALSE
  /\ context' = FALSE
  /\ UNCHANGED <<lpc, quit, sinkVars, metaVars, forwarding>>

\* A plausible bug: the thread is joined without a quit.
ForgetfulQuitLoop ==
  /\ mpc = "quit"
  /\ mpc' = "join"
  /\ UNCHANGED <<lpc, quit, mounted, context, sinkVars, metaVars, forwarding>>

\* Step 6.
QuitLoop ==
  /\ mpc = "quit"
  /\ mpc' = "join"
  /\ quit' = "told"
  /\ UNCHANGED <<lpc, mounted, context, sinkVars, metaVars, forwarding>>

\* Steps 7 and 8.
JoinLoop ==
  /\ mpc = "join" /\ lpc = "ended"
  /\ mpc' = "sinks"
  /\ UNCHANGED <<lpc, quit, mounted, context, sinkVars, metaVars, forwarding>>

ClearSinks ==
  /\ mpc = "sinks" /\ ~mutex
  /\ mpc' = "stopped"
  /\ video' = 0
  /\ payloader' = << >>
  /\ UNCHANGED <<lpc, quit, mounted, context, viewer, medias, metaVars,
                 forwarding>>

------------------------------------------------------------------------------
Loop == Attach \/ LoopRun \/ LoopEnds
Startup == Start \/ StartReturns \/ RegisterClient
StopRest == StopClients \/ RemoveMounts \/ QuitLoop \/ JoinLoop \/ ClearSinks
Configure == OnMediaConfigure \/ OnProxySinkReady

Next ==
  \/ Loop \/ Startup \/ StartTimesOut \/ StopRTSP \/ StopRest \/ ClientStopFails
  \/ ViewerAsks \/ Configure
  \/ SendOnvifMetadata \/ PushPacket
  \/ ForwardVideoRtp \/ ForwardPush

Spec == Init /\ [][Next]_vars

\* Threads are scheduled and sources answer; nobody has to connect, to send
\* or to stop.
FairSpec ==
  /\ Spec
  /\ WF_vars(Loop)
  /\ WF_vars(Startup \/ StopRest)
  /\ WF_vars(Configure)
  /\ WF_vars(PushPacket)
  /\ WF_vars(ForwardPush)

------------------------------------------------------------------------------
SplitsCharacter(p) ==
  ~p.marker /\ p.doc[p.from + p.size + 1] = "next"

\* The longest run of bytes without the start of a character that a packet
\* can hold decides whether a character has to be split.
Splittable(p) ==
  \A n \in 1..PayloadMax : p.doc[p.from + n + 1] = "next"

\* What the sequence numbers tell a viewer: packets of its source that carry
\* consecutive numbers continue one document or begin the next after the
\* marker, also when a push was refused in between or another viewer replaced
\* the source in the middle of a document.  They hide one loss: the rest of a
\* document that was dropped because its next packet got no buffer, and no
\* number; the packet after that begins a document, it never goes on in the
\* middle of one.  No packet ends inside a character that fits into one; and
\* the payloader that is used is the one in the map, not one that
\* OnProxySinkReady has replaced and freed (RtspHandler.cpp,
\* SendOnvifMetadata; OnvifMetadataPayloader.cpp, PushXml).
DocumentsWhole ==
  /\ \A m \in 1..MaxMedia : \A i \in 1..(Len(got[m]) - 1) :
       LET p == got[m][i]
           q == got[m][i + 1]
       IN  q.seq = (p.seq + 1) % SeqModulus =>
             \/ IF p.marker THEN q.from = 0
                ELSE q.doc = p.doc /\ q.from = p.from + p.size
             \/ q.seq \in cut[m] /\ q.from = 0
  /\ \A m \in 1..MaxMedia : \A i \in 1..Len(got[m]) :
       LET p == got[m][i]
       IN  SplitsCharacter(p) => Splittable(p)
  /\ sending # << >> => target = payloader

\* The quit came before the loop ran (see README): that of the server's loop,
\* or that of the receiver's, for which client->Stop() waits.
QuitLost == quit = "lost" \/ mpc = "hung"

\* StopRTSP returns, unless one of the two quits is lost or something was used
\* after it was freed, the context of a mount point or a receiver
\* (RtspHandler.cpp, StopRTSP; GstRtspProxyServer.cpp, the shutdown in ten
\* steps).
ProxyStopEnds ==
  mpc = "clients" ~> (mpc \in {"stopped", "aborted"} \/ QuitLost)
==============================================================================
