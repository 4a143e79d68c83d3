----------------------------- MODULE WinEvents -----------------------------
(* The packets that the Windows driver and the Python service exchange.     *)
(* The two sides declare each structure on their own: the driver in          *)
(* inc/WVUKernelUserComms.h, the service with ctypes in ntfltmgr.py.  A       *)
(* layout here is what the compiler or ctypes makes of the declaration on     *)
(* x64: the offset and the width of each field.  The names of the operators   *)
(* are those of the Python classes; the driver's structures carry a C_.       *)
EXTENDS Integers, Sequences, FiniteSets

CONSTANTS
    NameUnits,   \* the UTF-16 code units a name is made of
    MaxName,     \* bound: code units of a name
    SignBit      \* bound: the top bit of a pointer, in the code 2^63

ASSUME WinEventsAssumption == NameUnits \subseteq Nat /\ MaxName \in Nat /\ SignBit \in Nat \ {0}

None == "None"
RoundUp(n, m) == ((n + m - 1) \div m) * m

Primitive(n) == [size |-> n, align |-> n]
BYTE == Primitive(1)
USHORT == Primitive(2)
ULONG == Primitive(4)
LONGLONG == Primitive(8)
BYTES(n) == [size |-> n, align |-> 1]
(* BYTE x[0] of the C declarations. *)
OPEN == BYTES(0)

(* A structure: fields in order, each at the next multiple of its alignment,  *)
(* the whole padded to the largest alignment.                                 *)
Structure(fields) ==
    LET offset[i \in 1..Len(fields)] ==
            IF i = 1 THEN 0
            ELSE RoundUp(offset[i - 1] + fields[i - 1][2].size, fields[i][2].align)
        align == CHOOSE a \in {fields[i][2].align : i \in DOMAIN fields} :
                    \A i \in DOMAIN fields : fields[i][2].align <= a
        At(f) == CHOOSE i \in DOMAIN fields : fields[i][1] = f
        names == {fields[i][1] : i \in DOMAIN fields}
    IN  [size |-> RoundUp(offset[Len(fields)] + fields[Len(fields)][2].size, align),
         align |-> align,
         offset |-> [f \in names |-> offset[At(f)]],
         width |-> [f \in names |-> fields[At(f)][2].size]]

-----------------------------------------------------------------------------
(* ntfltmgr.py: the headers.                                                 *)
UUID == Structure(<< <<"Data1", ULONG>>, <<"Data2", USHORT>>, <<"Data3", USHORT>>, <<"Data4", BYTES(8)>> >>)
CLIENT_ID == Structure(<< <<"UniqueProcess", LONGLONG>>, <<"UniqueThread", LONGLONG>> >>)
LIST_ENTRY == BYTES(16)
FILTER_REPLY_HEADER == Structure(<< <<"Status", ULONG>>, <<"MessageId", LONGLONG>> >>)
FILTER_MESSAGE_HEADER == Structure(<< <<"ReplyLength", ULONG>>, <<"MessageId", LONGLONG>> >>)

SensorDataHeader_short ==
    Structure(<< <<"sensor_id", UUID>>, <<"sensor_type", USHORT>>, <<"DataSz", USHORT>>,
                 <<"CurrentGMT", LONGLONG>> >>)
SensorDataHeader ==
    Structure(<< <<"sensor_id", UUID>>, <<"sensor_type", USHORT>>, <<"DataSz", USHORT>>,
                 <<"CurrentGMT", LONGLONG>>, <<"ListEntry", LIST_ENTRY>> >>)

(* An event class: its structure, the field that holds the name and the one    *)
(* that build() takes the name's length from.                                  *)
Event(fields, name, length) ==
    [layout |-> Structure(<< <<"Header", SensorDataHeader>> >> \o fields), name |-> name, length |-> length]
LongLongs(names) == [i \in DOMAIN names |-> <<names[i], LONGLONG>>]

RegCreateKeyInfo ==
    Event(LongLongs(<<"ProcessId", "EProcess", "RootObject">>)
          \o << <<"Options", ULONG>>, <<"SecurityDescriptor", LONGLONG>>,
                <<"SecurityQualityOfService", LONGLONG>>, <<"DesiredAccess", ULONG>>,
                <<"GrantedAccess", ULONG>>, <<"Version", LONGLONG>>, <<"Wow64Flags", ULONG>>,
                <<"Attributes", ULONG>>, <<"CheckAccessMode", BYTE>>,
                <<"CompleteNameSz", USHORT>>, <<"CompleteName", BYTE>> >>,
          "CompleteName", "CompleteNameSz")
RegQueryValueKeyInfo ==
    Event(LongLongs(<<"ProcessId", "EProcess">>)
          \o << <<"Class", ULONG>>, <<"_blank", ULONG>>, <<"Object", LONGLONG>>,
                <<"KeyValueInformationClass", ULONG>>, <<"ValueNameLength", USHORT>>,
                <<"ValueName", BYTE>> >>,
          "ValueName", "ValueNameLength")
RegRenameKeyInfo ==
    Event(LongLongs(<<"ProcessId", "EProcess", "Object">>)
          \o << <<"NewNameLength", USHORT>>, <<"NewName", BYTE>> >>, "NewName", "NewNameLength")
RegPostOperationInfo ==
    Event(LongLongs(<<"ProcessId", "EProcess", "Object">>)
          \o << <<"Status", ULONG>>, <<"PreInformation", LONGLONG>>, <<"ReturnStatus", ULONG>> >>,
          None, None)
RegDeleteValueKeyInfo ==
    Event(LongLongs(<<"ProcessId", "EProcess", "Object">>)
          \o << <<"ValueNameLength", USHORT>>, <<"ValueName", BYTE>> >>,
          "ValueName", "ValueNameLength")
RegSetValueKeyInfo ==
    Event(LongLongs(<<"ProcessId", "EProcess", "Object">>)
          \o << <<"Type", ULONG>>, <<"ValueNameLength", USHORT>>, <<"ValueName", BYTE>> >>,
          "ValueName", "ValueNameLength")
ProcessListValidationFailed ==
    Event(<< <<"Status", ULONG>> >> \o LongLongs(<<"ProcessId", "EProcess">>), None, None)
ImageLoadInfo ==
    Event(LongLongs(<<"ProcessId", "EProcess", "ImageBase", "ImageSize">>)
          \o << <<"FullImageNameSz", USHORT>>, <<"FullImageName", BYTE>> >>,
          "FullImageName", "FullImageNameSz")
ThreadCreateInfo ==
    Event(LongLongs(<<"ProcessId", "ThreadId", "Win32StartAddress", "StartAddress">>)
          \o << <<"IsStartAddressValid", BYTE>> >>, None, None)
ThreadDestroyInfo == Event(LongLongs(<<"ProcessId", "ThreadId">>), None, None)
(* build() of this class takes the length from DataSz, not CommandLineSz. *)
ProcessCreateInfo ==
    Event(LongLongs(<<"ParentProcessId", "ProcessId", "EProcess">>)
          \o << <<"CreatingThreadId", CLIENT_ID>>, <<"FileObject", LONGLONG>>,
                <<"CreationStatus", ULONG>>, <<"CommandLineSz", USHORT>>, <<"CommandLine", BYTE>> >>,
          "CommandLine", "DataSz")
ProcessDestroyInfo == Event(LongLongs(<<"ProcessId", "EProcess">>), None, None)

SensorType ==
    [ImageLoad |-> 1, ProcessCreate |-> 2, ProcessDestroy |-> 3, ThreadCreate |-> 4,
     ThreadDestroy |-> 5, ProcessListValidationFailed |-> 6, RegQueryValueKeyInfo |-> 7,
     RegCreateKeyInfo |-> 8, RegSetValueKeyInfo |-> 9, RegOpenKeyInfo |-> 10,
     RegDeleteValueKeyInfo |-> 11, RegRenameKeyInfo |-> 12, RegPostOperationInfo |-> 4097]

(* The class that decodes a packet of the given type number: SensorType() of   *)
(* the number, then the chain of comparisons.                                 *)
ClassOf ==
    [ImageLoad |-> ImageLoadInfo, ProcessCreate |-> ProcessCreateInfo,
     ProcessDestroy |-> ProcessDestroyInfo, ThreadCreate |-> ThreadCreateInfo,
     ThreadDestroy |-> ThreadDestroyInfo,
     ProcessListValidationFailed |-> ProcessListValidationFailed,
     RegQueryValueKeyInfo |-> RegQueryValueKeyInfo, RegCreateKeyInfo |-> RegCreateKeyInfo,
     RegSetValueKeyInfo |-> RegSetValueKeyInfo, RegOpenKeyInfo |-> RegCreateKeyInfo,
     RegDeleteValueKeyInfo |-> RegDeleteValueKeyInfo, RegRenameKeyInfo |-> RegRenameKeyInfo,
     RegPostOperationInfo |-> RegPostOperationInfo]
_packet_decode_header(type) == ClassOf[CHOOSE t \in DOMAIN SensorType : SensorType[t] = type]

-----------------------------------------------------------------------------
(* The command port.                                                         *)
WVU_COMMAND ==
    [Echo |-> 0, EnableProbe |-> 1, DisableProbe |-> 2, EnableUnload |-> 3, DisableUnload |-> 4,
     EnumerateSensors |-> 5, ConfigureSensor |-> 6, OneShotKill |-> 7]
COMMAND_MESSAGE_narrow ==
    Structure(<< <<"Command", ULONG>>, <<"sensor_id", UUID>>, <<"DataSz", ULONG>>, <<"Data", BYTE>> >>)
COMMAND_MESSAGE ==
    Structure(<< <<"Command", ULONG>>, <<"sensor_id", UUID>>, <<"DataSz", LONGLONG>>, <<"Data", BYTE>> >>)
RESPONSE_MESSAGE ==
    Structure(<< <<"Response", ULONG>>, <<"Status", ULONG>>, <<"DataSz", LONGLONG>>, <<"Data", BYTE>> >>)
SensorStatusHeader == Structure(<< <<"NumberOfEntries", ULONG>> >>)
MAXSENSORNAMESZ == 64
SensorStatus ==
    Structure(<< <<"sensor_id", UUID>>, <<"LastRunTime", LONGLONG>>, <<"RunInterval", LONGLONG>>,
                 <<"OperationCount", ULONG>>, <<"Attributes", USHORT>>, <<"Enabled", BYTE>>,
                 <<"SensorName", BYTES(MAXSENSORNAMESZ)>> >>)
MAXRSPSZ == 4096

(* A command as the service sends it: the structure and, after it, the data.   *)
(* Those that name no probe leave the id zero, which stands for all probes.     *)
ZEROGUID == 0
Command(name, id, length, copied) ==
    [Command |-> WVU_COMMAND[name], sensor_id |-> id, DataSz |-> length,
     buffer |-> COMMAND_MESSAGE.size + length, copied |-> copied]
Echo == Command("Echo", ZEROGUID, 0, 0)
EnableProbe(id) == Command("EnableProbe", id, 0, 0)
DisableProbe(id) == Command("DisableProbe", id, 0, 0)
EnableUnload == Command("EnableUnload", ZEROGUID, 0, 0)
DisableUnload == Command("DisableUnload", ZEROGUID, 0, 0)
(* The pid is ASCII. *)
OneShotKill(digits) == Command("OneShotKill", ZEROGUID, digits, digits)
(* The length counts characters, and that many bytes of the UTF-8 text are      *)
(* copied; an empty text raises, so nothing is sent.                            *)
Utf8(widths) == LET sum[i \in 0..Len(widths)] == IF i = 0 THEN 0 ELSE sum[i - 1] + widths[i]
                IN  sum[Len(widths)]
ConfigureSensor(widths, id) ==
    IF widths = <<>> THEN {} ELSE {Command("ConfigureSensor", id, Len(widths), Len(widths))}

(* FilterSendMessage keeps what fits the response buffer. *)
FilterSendMessage(returned) == IF returned < MAXRSPSZ THEN returned ELSE MAXRSPSZ
(* Where EnumerateSensors looks for the entry with the given index. *)
EntryAt(ndx) == SensorStatusHeader.size + ndx * SensorStatus.size
EnumerateSensors(count) == {EntryAt(ndx) : ndx \in 0..(count - 1)}

-----------------------------------------------------------------------------
(* Conversions.  LongLongToHex(num) = hex(2^64 - abs(num)), with num signed.   *)
Signed(word) == IF word >= SignBit THEN word - 2 * SignBit ELSE word
Abs(n) == IF n < 0 THEN -n ELSE n
LongLongToHex(num) == 2 * SignBit - Abs(num)

(* The numbers that the enumerations of the service have a name for: those of   *)
(* the first three raise for any other number, a registry type is then reported *)
(* as the number.  Flags are sums of bits.                                       *)
KeyValueInformationClass == 0..6
RegNotifyClass == 0..49
KPROCESSOR_MODE == 0..1
RegObjectType == 0..11
SensorAttributeFlags == {2 * n : n \in 0..15}
Accepted == [Class |-> RegNotifyClass, KeyValueInformationClass |-> KeyValueInformationClass,
             CheckAccessMode |-> KPROCESSOR_MODE]

-----------------------------------------------------------------------------
(* The driver: inc/WVUKernelUserComms.h.                                     *)
C_LIST_ENTRY == Structure(LongLongs(<<"Flink", "Blink">>))
C_PROBE_DATA_HEADER ==
    Structure(<< <<"probe_id", UUID>>, <<"probe_type", USHORT>>, <<"data_sz", USHORT>>,
                 <<"current_gmt", LONGLONG>>, <<"ListEntry", C_LIST_ENTRY>> >>)
C_Event(fields) == Structure(<< <<"ProbeDataHeader", C_PROBE_DATA_HEADER>> >> \o fields)
C_RegCreateKeyInfo ==
    C_Event(LongLongs(<<"ProcessId", "EProcess", "RootObject">>)
            \o << <<"Options", ULONG>>, <<"SecurityDescriptor", LONGLONG>>,
                  <<"SecurityQualityOfService", LONGLONG>>, <<"DesiredAccess", ULONG>>,
                  <<"GrantedAccess", ULONG>>, <<"Version", LONGLONG>>, <<"Wow64Flags", ULONG>>,
                  <<"Attributes", ULONG>>, <<"CheckAccessMode", BYTE>>,
                  <<"CompleteNameSz", USHORT>>, <<"CompleteName", BYTE>> >>)
C_RegQueryValueKeyInfo ==
    C_Event(LongLongs(<<"ProcessId", "EProcess">>)
            \o << <<"Class", ULONG>>, <<"Object", LONGLONG>>, <<"KeyValueInformationClass", ULONG>>,
                  <<"ValueNameLength", USHORT>>, <<"ValueName", OPEN>> >>)
C_RegRenameKeyInfo ==
    C_Event(LongLongs(<<"ProcessId", "EProcess", "Object">>)
            \o << <<"NewNameLength", USHORT>>, <<"NewName", OPEN>> >>)
C_RegPostOperationInfo ==
    C_Event(LongLongs(<<"ProcessId", "EProcess", "Object">>)
            \o << <<"Status", ULONG>>, <<"PreInformation", LONGLONG>>, <<"ReturnStatus", ULONG>> >>)
C_RegDeleteValueKeyInfo ==
    C_Event(LongLongs(<<"ProcessId", "EProcess", "Object">>)
            \o << <<"ValueNameLength", USHORT>>, <<"ValueName", OPEN>> >>)
C_RegSetValueKeyInfo ==
    C_Event(LongLongs(<<"ProcessId", "EProcess", "Object">>)
            \o << <<"Type", ULONG>>, <<"ValueNameLength", USHORT>>, <<"ValueName", OPEN>> >>)
C_ProcessListValidationFailed ==
    C_Event(<< <<"Status", ULONG>> >> \o LongLongs(<<"ProcessId", "EProcess">>))
C_ThreadCreateInfo ==
    C_Event(LongLongs(<<"ProcessId", "ThreadId", "Win32StartAddress", "StartAddress">>)
            \o << <<"IsStartAddressValid", BYTE>> >>)
C_ThreadDestroyInfo == C_Event(LongLongs(<<"ProcessId", "ThreadId">>))
C_LoadedImageInfo ==
    C_Event(LongLongs(<<"ProcessId", "EProcess", "ImageBase", "ImageSize">>)
            \o << <<"FullImageNameSz", USHORT>>, <<"FullImageName", BYTE>> >>)
C_ProcessCreateInfo ==
    C_Event(LongLongs(<<"ParentProcessId", "ProcessId", "EProcess">>)
            \o << <<"CreatingThreadId", CLIENT_ID>>, <<"FileObject", LONGLONG>>,
                  <<"CreationStatus", ULONG>>, <<"CommandLineSz", USHORT>>, <<"CommandLine", BYTE>> >>)
C_ProcessDestroyInfo == C_Event(LongLongs(<<"ProcessId", "EProcess">>))
C_COMMAND_MESSAGE ==
    Structure(<< <<"Command", ULONG>>, <<"ProbeId", UUID>>, <<"DataSz", LONGLONG>>, <<"Data", BYTE>> >>)
C_RESPONSE_MESSAGE ==
    Structure(<< <<"Response", ULONG>>, <<"Status", ULONG>>, <<"DataSz", LONGLONG>>, <<"Data", BYTE>> >>)
C_ProbeStatusHeader == Structure(<< <<"NumberOfEntries", ULONG>> >>)
C_ProbeStatus ==
    Structure(<< <<"ProbeId", UUID>>, <<"LastRunTime", LONGLONG>>, <<"RunInterval", LONGLONG>>,
                 <<"OperationCount", ULONG>>, <<"Attributes", USHORT>>, <<"Enabled", BYTE>>,
                 <<"ProbeName", BYTES(64)>> >>)
C_WVU_COMMAND ==
    [Echo |-> 0, EnableProbe |-> 1, DisableProbe |-> 2, EnableUnload |-> 3, DisableUnload |-> 4,
     EnumerateProbes |-> 5, ConfigureProbe |-> 6, OneShotKill |-> 7]
C_ProbeAttributes == {0, 2, 4, 8, 16}
C_RegObjectType == 0..11
(* What the callbacks let into the fields that are enumerations: a query is a   *)
(* RegNtPreQueryValueKey, and its class one that the configuration manager has.  *)
C_Values == [Class |-> {8}, KeyValueInformationClass |-> 0..5, CheckAccessMode |-> 0..1]

(* The probes, as ids; KillProbe is the one named ProcessCreate. *)
ProbeIds == 1..3
KillProbe == 3

(* The probes that a command changes, out of the given ones: OnCommandMessage,   *)
(* OnProtectionStateChange and OnOneShotKill, which looks for ProcessCreate.     *)
OnCommandMessage(cmd, probes) ==
    LET named == IF cmd.sensor_id = ZEROGUID THEN probes ELSE probes \cap {cmd.sensor_id}
    IN  CASE cmd.Command \in {C_WVU_COMMAND.EnableProbe, C_WVU_COMMAND.DisableProbe,
                              C_WVU_COMMAND.ConfigureProbe} -> named
          [] cmd.Command = C_WVU_COMMAND.OneShotKill -> {KillProbe}
          [] OTHER -> {}

(* A packet: its type, its structure, the fields of the name and of the       *)
(* name's length, and the size the probe gives the packet: the structure and  *)
(* the name, in some probes rounded up.                                        *)
C_Packet(type, layout, name, length, round) ==
    [type |-> type, layout |-> layout, name |-> name, length |-> length, round |-> round]
Emitted ==
    {C_Packet(1, C_LoadedImageInfo, "FullImageName", "FullImageNameSz", 16),
     C_Packet(2, C_ProcessCreateInfo, "CommandLine", "CommandLineSz", 16),
     C_Packet(3, C_ProcessDestroyInfo, None, None, 16),
     C_Packet(4, C_ThreadCreateInfo, None, None, 1),
     C_Packet(5, C_ThreadDestroyInfo, None, None, 1),
     C_Packet(6, C_ProcessListValidationFailed, None, None, 1),
     C_Packet(7, C_RegQueryValueKeyInfo, "ValueName", "ValueNameLength", 1),
     C_Packet(8, C_RegCreateKeyInfo, "CompleteName", "CompleteNameSz", 1),
     C_Packet(9, C_RegSetValueKeyInfo, "ValueName", "ValueNameLength", 1),
     C_Packet(10, C_RegCreateKeyInfo, "CompleteName", "CompleteNameSz", 1),
     C_Packet(11, C_RegDeleteValueKeyInfo, "ValueName", "ValueNameLength", 1),
     C_Packet(12, C_RegRenameKeyInfo, "NewName", "NewNameLength", 1),
     C_Packet(4097, C_RegPostOperationInfo, None, None, 1)}
data_sz(p, units) == RoundUp(p.layout.size + 2 * units, p.round)

(* The code unit at a byte offset of the packet that carries the given name:   *)
(* after a name there are zeros, as ProcessCreateProbe clears the buffer.      *)
UnitAt(p, name, at) ==
    LET i == (at - p.layout.offset[p.name]) \div 2
    IN  IF at >= p.layout.offset[p.name] /\ i < Len(name) THEN name[i + 1] ELSE 0

(* The name as build() cuts it out of the packet, code unit by code unit.       *)
(* ImageLoadInfo keeps every second byte, the others decode UTF-16.             *)
NameIn(p, name) ==
    LET event == _packet_decode_header(p.type)
        from == event.layout.offset[event.name]
        length == IF event.length = "DataSz" THEN data_sz(p, Len(name)) - from ELSE 2 * Len(name)
        unit(k) == UnitAt(p, name, from + 2 * k - 2)
    IN  [k \in 1..(length \div 2) |->
            IF event.name = "FullImageName" THEN unit(k) % 256 ELSE unit(k)]

-----------------------------------------------------------------------------
(* What must agree.                                                          *)

(* The service's name of a field of the driver. *)
Renamed(f) == CASE f = "ProbeDataHeader" -> "Header" [] f = "probe_id" -> "sensor_id"
                [] f = "probe_type" -> "sensor_type" [] f = "data_sz" -> "DataSz"
                [] f = "current_gmt" -> "CurrentGMT" [] f = "ProbeId" -> "sensor_id"
                [] f = "ProbeName" -> "SensorName" [] OTHER -> f
(* Every field of the driver's structure is read where the driver writes it;   *)
(* the width of an open array says nothing.                                     *)
SameFields(c, py) ==
    \A f \in DOMAIN c.offset :
        /\ Renamed(f) \in DOMAIN py.offset
        /\ py.offset[Renamed(f)] = c.offset[f]
        /\ c.width[f] \notin {0, 1} => py.width[Renamed(f)] = c.width[f]

PacketAgrees(p) ==
    LET event == _packet_decode_header(p.type)
    IN  /\ SameFields(C_PROBE_DATA_HEADER, SensorDataHeader)
        /\ SameFields(p.layout, event.layout)
        /\ event.name = p.name
        /\ event.length \in {p.length, "DataSz"}
        /\ \A f \in DOMAIN p.layout.offset \cap DOMAIN C_Values : C_Values[f] \subseteq Accepted[f]
        /\ C_RegObjectType \subseteq RegObjectType

Names == UNION {[1..n -> NameUnits] : n \in 0..MaxName}
(* The name is reported whole; what may follow it is padding, and only after a  *)
(* command line; only an image's name loses the high bytes.                     *)
NameAgrees(p, name) ==
    p.name # None =>
        LET got == NameIn(p, name)
        IN  /\ Len(got) >= Len(name)
            /\ \A k \in 1..Len(got) :
                 got[k] = IF k > Len(name) THEN 0
                          ELSE IF p.name = "FullImageName" THEN name[k] % 256 ELSE name[k]
            /\ p.name # "CommandLine" => Len(got) = Len(name)

(* Commands: same numbers, same places; the buffer holds the data that DataSz   *)
(* announces; all of an ASCII text arrives.                                     *)
Sent(widths, id) ==
    {Echo, EnableUnload, DisableUnload, EnableProbe(id), DisableProbe(id), OneShotKill(Len(widths))}
    \cup ConfigureSensor(widths, id)
CommandAgrees(widths, id) ==
    /\ SameFields(C_COMMAND_MESSAGE, COMMAND_MESSAGE)
    /\ SameFields(C_RESPONSE_MESSAGE, RESPONSE_MESSAGE)
    /\ {WVU_COMMAND[c] : c \in DOMAIN WVU_COMMAND} = {C_WVU_COMMAND[c] : c \in DOMAIN C_WVU_COMMAND}
    /\ \A m \in Sent(widths, id) :
         /\ COMMAND_MESSAGE.offset["Data"] + m.DataSz <= m.buffer
         /\ m.copied = m.DataSz
         /\ id # ZEROGUID => OnCommandMessage(m, ProbeIds) \subseteq {id, KillProbe}
    /\ \A m \in {EnableProbe(id), DisableProbe(id)} \cup ConfigureSensor(widths, id) :
         OnCommandMessage(m, ProbeIds) = IF id = ZEROGUID THEN ProbeIds ELSE {id}
    /\ OnCommandMessage(OneShotKill(Len(widths)), ProbeIds) = {KillProbe}
    /\ OnCommandMessage(Echo, ProbeIds) = {}
    /\ (\A i \in DOMAIN widths : widths[i] = 1) =>
         \A m \in ConfigureSensor(widths, id) : m.copied = Utf8(widths)

(* The listing of the probes: each entry is looked for where it was written,     *)
(* and the response buffer holds all of them.                                    *)
ListingAgrees(count) ==
    LET written == {C_ProbeStatusHeader.size + ndx * C_ProbeStatus.size : ndx \in 0..(count - 1)}
        returned == C_ProbeStatusHeader.size + count * C_ProbeStatus.size
    IN  /\ SameFields(C_ProbeStatus, SensorStatus)
        /\ EnumerateSensors(count) = written
        /\ \A at \in EnumerateSensors(count) : at + SensorStatus.size <= FilterSendMessage(returned)
        /\ C_ProbeAttributes \subseteq SensorAttributeFlags

(* A kernel address, whose top bit is set, is reported as it is. *)
PointerAgrees(word) == word >= SignBit => LongLongToHex(Signed(word)) = word
=============================================================================
