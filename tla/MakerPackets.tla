----------------------------- MODULE MakerPackets -----------------------------
(***************************************************************************)
(* The packets the toy and the maker's server exchange (src/main/yt_src/   *)
(* authorize/dataProcess.c): 97 bytes with a checksum, put into another    *)
(* order on the way, and the license, which is what a packet of the server *)
(* leaves in flash and what the toy shows from then on.                    *)
(***************************************************************************)
EXTENDS Integers, SequencesExt, Bitwise

CONSTANTS Bytes   \* the values that are tried for a byte

PACKET_BYTE_NUM == 97
Positions == 0 .. PACKET_BYTE_NUM - 1

VARIABLES
    stage,    \* "written", "sealed", "changed", "opened"
    packet,   \* the packet
    original, \* history: as it was written
    changed,  \* history: the byte that was changed on the way, or -1
    ret       \* what you_333_KeepPacket_001 returned
packetVars == <<stage, packet, original, changed, ret>>

pForwardTable == <<
    47, 50, 77, 52, 89, 60, 78, 45, 9, 4, 81, 8, 73, 46, 93, 55, 31, 36, 28, 61, 0, 25, 90, 21, 15,
    39, 18, 22, 56, 91, 11, 23, 57, 19, 53, 6, 44, 58, 79, 82, 70, 16, 7, 5, 37, 80, 49, 32, 64, 2,
    75, 12, 94, 26, 67, 51, 34, 74, 85, 76, 24, 14, 69, 92, 95, 38, 43, 84, 54, 27, 33, 35, 63, 48,
    96, 66, 13, 10, 65, 88, 72, 17, 71, 62, 20, 68, 1, 86, 30, 42, 41, 87, 40, 3, 59, 83, 29>>
pBackwardTable == <<
    20, 86, 49, 93, 9, 43, 35, 42, 11, 8, 77, 30, 51, 76, 61, 24, 41, 81, 26, 33, 84, 23, 27, 31, 60,
    21, 53, 69, 18, 96, 88, 16, 47, 70, 56, 71, 17, 44, 65, 25, 92, 90, 89, 66, 36, 7, 13, 0, 73, 46,
    1, 55, 3, 34, 68, 15, 28, 32, 37, 94, 5, 19, 83, 72, 48, 78, 75, 54, 85, 62, 40, 82, 80, 12, 57,
    50, 59, 2, 6, 38, 45, 10, 39, 95, 67, 58, 87, 91, 79, 4, 22, 29, 63, 14, 52, 64, 74>>

\* Byte i of one packet is byte table[i] of the other.
TranPacket(table, p) ==
    [n \in Positions |-> p[CHOOSE i \in Positions : table[i + 1] = n]]
TranPacketForward(p) == TranPacket(pForwardTable, p)
\* The forward table is used for the way back.
TranPacketForwardAgain(p) == TranPacket(pForwardTable, p)
TranPacketBackward(p) == TranPacket(pBackwardTable, p)

\* you_333_GenerateCRC: five bytes, each over every fifth of the first ninety.
Start == <<55, 41, 243, 228, 133>>
GenerateCRC(p) ==
    [j \in 0 .. 4 |-> FoldLeft(LAMBDA crc, i : crc ^^ p[5 * i + j], Start[j + 1],
                               [i \in 1 .. 18 |-> i - 1])]
Sealed(p) == [n \in Positions |-> IF n \in 90 .. 94 THEN GenerateCRC(p)[n - 90] ELSE p[n]]

\* you_333_ModifyInfo: what it does twice is nothing.
ModifyInfo(bytes, key, n) == [i \in 0 .. n - 1 |-> (i ^^ key) ^^ bytes[i]]

\* The code and the address overlap in flash.
PartsOverlap == {<<28, 2, 8, 75>>, <<48, 9, 6, 87>>, <<39, 16, 8, 67>>, <<4, 24, 8, 77>>,
                 <<12, 32, 8, 82>>}
\* The parts of a license: where in the packet, where in flash, how long, and
\* the key: activation code, address, times, customer, product and the date.
Parts == {<<28, 2, 8, 75>>, <<48, 10, 6, 87>>, <<39, 16, 8, 67>>, <<4, 24, 8, 77>>,
          <<12, 32, 8, 82>>, <<54, 40, 2, 68>>}
         \cup {<<56 + i, 42 + i, 1, 68>> : i \in 0 .. 4}
Cut(bytes, from, n) == [i \in 0 .. n - 1 |-> bytes[from + i]]

\* you_333_KeepData_001 (what follows the parts in flash is noise).
KeepData(p) ==
    [d \in 0 .. 46 |->
        IF \E part \in Parts : d \in part[2] .. part[2] + part[3] - 1
          THEN LET part == CHOOSE part \in Parts : d \in part[2] .. part[2] + part[3] - 1
               IN ModifyInfo(Cut(p, part[1], part[3]), part[4], part[3])[d - part[2]]
          ELSE 0]

\* you_333_GeneratePacket_002 shows a license: y, t, 1, 1, customer, product,
\* the code of the firmware, activation code, 1, 1, 1, times, flag, address.
DefaultCode == <<121, 116, 107, 106, 99, 111, 100, 101>>
Shown(data, from, at, n, key, i) == ModifyInfo(Cut(data, from, n), key, n)[i - at]
GeneratePacket_002(data, flag) ==
    Sealed([i \in Positions |->
        CASE i \in 0 .. 3 -> <<121, 116, 49, 49>>[i + 1]
          [] i \in 4 .. 11 -> Shown(data, 24, 4, 8, 77, i)
          [] i \in 12 .. 19 -> Shown(data, 32, 12, 8, 82, i)
          [] i \in 20 .. 27 -> DefaultCode[i - 19]
          [] i \in 28 .. 35 -> Shown(data, 2, 28, 8, 75, i)
          [] i \in 36 .. 38 -> 49
          [] i \in 39 .. 46 -> Shown(data, 16, 39, 8, 67, i)
          [] i = 47 -> flag
          [] i \in 48 .. 53 -> Shown(data, 10, 48, 6, 87, i)
          [] OTHER -> 0])

\* you_333_GeneratePacket_001 asks for a license with the names and address.
GeneratePacket_001(customer, product, mac) ==
    Sealed([i \in Positions |->
        CASE i \in 0 .. 3 -> <<121, 116, 48, 49>>[i + 1]
          [] i \in 4 .. 11 -> customer[i - 4]
          [] i \in 12 .. 19 -> product[i - 12]
          [] i \in 20 .. 27 -> DefaultCode[i - 19]
          [] i \in 36 .. 38 -> 49
          [] i \in 39 .. 46 -> <<0, 97, 0, 122, 0, 64, 0, 87>>[i - 38]
          [] i = 47 -> 48
          [] i \in 48 .. 53 -> mac[i - 48]
          [] OTHER -> 0])

\* you_333_CheckServerInfo_001 to _003: the server works, has a license for
\* the toy and knows it (_004, the times left, is not asked).
CheckServerInfo(p) == p[3] # 48 /\ p[36] # 48 /\ p[37] # 48
-----------------------------------------------------------------------------
Names(b) == [i \in 0 .. 7 |-> (b + i) % 256]

Init ==
    /\ \E a, b, c \in Bytes :
          LET first == GeneratePacket_001(Names(a), Names(b), Names(c))
          IN original \in {first, GeneratePacket_002(KeepData(first), 48),
                           Sealed([first EXCEPT ![3] = 48]), Sealed([first EXCEPT ![37] = 48])}
    /\ packet = original /\ stage = "written" /\ changed = -1 /\ ret = 0

Send == /\ stage = "written" /\ stage' = "sealed" /\ packet' = TranPacketForward(packet)
        /\ UNCHANGED <<original, changed, ret>>
\* A byte is not what it was.
Noise ==
    /\ stage = "sealed" /\ stage' = "changed"
    /\ \E n \in {i \in Positions : i % 8 = 0} :
          /\ packet' = [packet EXCEPT ![n] = (@ + 1) % 256]
          /\ changed' = pBackwardTable[n + 1]
    /\ UNCHANGED <<original, ret>>
\* you_333_KeepPacket_001
KeepPacket ==
    /\ stage \in {"sealed", "changed"} /\ stage' = "opened"
    /\ packet' = TranPacketBackward(packet)
    /\ ret' = IF (\A j \in 0 .. 4 : packet'[90 + j] = GenerateCRC(packet')[j])
                 /\ CheckServerInfo(packet')
                THEN 0 ELSE -1
    /\ UNCHANGED <<original, changed>>
Next == Send \/ Noise \/ KeepPacket
Spec == Init /\ [][Next]_packetVars
-----------------------------------------------------------------------------
PacketsTypeOK ==
    /\ stage \in {"written", "sealed", "changed", "opened"}
    /\ packet \in [Positions -> 0 .. 255] /\ changed \in -1 .. 96 /\ ret \in {0, -1}

\* What is opened is what was sent: a packet without a fault is accepted unless
\* the server refuses, and one with a changed byte is not, but for the two
\* bytes behind the checksum.
PacketsComeBack ==
    stage = "opened" =>
        /\ changed = -1 => packet = original /\ (ret = 0 <=> CheckServerInfo(original))
        /\ changed \in 0 .. 94 => ret = -1

\* The license that is shown is the one the server gave: its names, code, times
\* and address go through flash and back.
LicenseIsShown ==
    LET shown == GeneratePacket_002(KeepData(original), 48)
    IN \A i \in (4 .. 19) \cup (28 .. 35) \cup (39 .. 46) \cup (48 .. 53) : shown[i] = original[i]
=============================================================================
