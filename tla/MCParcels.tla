----------------------------- MODULE MCParcels ------------------------------
(* Instances of Parcels: objects of two words, first buffers of three.     *)
EXTENDS Parcels

B1 == <<"BBinder", 1>>
H1 == <<"BpBinder", 1>>
H0 == <<"BpBinder", 0>>

\* A message with a descriptor that its sender owned or not, a handle and a
\* word, and messages without descriptors.
WireFd(own) ==
    [words |-> Words(FileDesc(0, own)) \o <<Word(3)>> \o Words(Handle(1)) \o <<Word(12)>>,
     objects |-> <<0, OBJ + 1>>]
WirePlain == [words |-> <<Word(3), Word(4)>>, objects |-> <<>>]
WireBinder == [words |-> Words(Handle(1)) \o <<Word(12)>>, objects |-> <<0>>]

\* one parcel built, grown and cut
Build == [ops |-> {"writeData", "writeBinder", "writeFd", "setPosition", "setSize",
                   "setCapacity"} \X {1},
          steps |-> 5, fails |-> 1, wire |-> {}]

\* objects written in any order and read from anywhere
ReadBack == [ops |-> {"writeData", "writeFd", "setPosition", "readData", "readFd",
                      "hasFds"} \X {1},
          steps |-> 7, fails |-> 0, wire |-> {}]

\* parts of one parcel appended to another
Join == [ops |-> {"writeBinder", "writeFd", "lendFd"} \X {1} \cup
                 {"writeData", "append", "allowFds", "setSize", "setData"} \X {2},
          steps |-> 5, fails |-> 0, wire |-> {}]

\* a buffer received, read, appended from and let go
Take == [ops |-> {"receive", "readBinder", "readFd", "readData", "hasFds", "free",
                   "setPosition"} \X {1} \cup {"append", "free"} \X {2},
          steps |-> 5, fails |-> 0, wire |-> {WireFd(0), WirePlain, WireBinder}]

\* a buffer received, written to, cut and so taken over
Own == [ops |-> {"receive", "readBinder", "setPosition", "writeData", "writeBinder",
                 "writeFd", "lendFd", "readFd", "setSize", "setData", "free"} \X {1},
          steps |-> 4, fails |-> 1,
          wire |-> {WireFd(0), WireFd(1), WirePlain, WireBinder}]

MCScenarios == {Build, ReadBack, Join, Take, Own}
MCIds == {1, 2}
MCRefs == {B1, H1, H0}
=============================================================================
