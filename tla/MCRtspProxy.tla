----------------------------- MODULE MCRtspProxy -----------------------------
(* Documents of one, two and three packets of two bytes; the last has a     *)
(* character of three bytes, which no packet can hold.                      *)
EXTENDS RtspProxy

MCDocuments == { << "first" >>,
                 << "first", "first", "next", "first" >>,
                 << "first", "next", "next", "first" >> }
==============================================================================
