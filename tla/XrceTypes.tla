---------------------------- MODULE XrceTypes ----------------------------
(* The wire forms of the XRCE types: xrce_types.c has one serialising and  *)
(* one deserialising function per type, and each definition below is what  *)
(* both do, field by field, for the type it is named after.                *)
(*                                                                         *)
(* A form is a sequence of nodes.  What is written into a node is left to  *)
(* XrceCodec: here a node says how many bytes it takes, how it is aligned, *)
(* how many elements the receiver has room for, and which nodes follow it. *)
(* A function of the pair that leaves out a field the other one has is     *)
(* written with Only.                                                      *)
EXTENDS Naturals, Sequences

CONSTANTS
  UXR_STRING_SIZE_MAX,                 \* elements of each array of the structures
  UXR_SAMPLE_DATA_SIZE_MAX,
  UXR_BINARY_SEQUENCE_MAX,
  UXR_SEQUENCE_MAX,                    \* the lists of strings, samples, locators
  UXR_PROPERTY_SEQUENCE_MAX

ASSUME CapacitiesAssumption ==
  /\ UXR_STRING_SIZE_MAX \in Nat \ {0} /\ UXR_SAMPLE_DATA_SIZE_MAX \in Nat \ {0}
  /\ UXR_BINARY_SEQUENCE_MAX \in Nat \ {0} /\ UXR_SEQUENCE_MAX \in Nat \ {0}
  /\ UXR_PROPERTY_SEQUENCE_MAX \in Nat

---------------------------------------------------------------------------
(* Nodes.                                                                  *)

Uint(n)         == <<[k |-> "int", n |-> n]>>                \* ucdr_serialize_uintN_t
Raw(n)         == <<[k |-> "raw", n |-> n, cap |-> n]>>      \* ucdr_serialize_array_uint8_t
Bytes(cap)     == <<[k |-> "bytes", least |-> 0, cap |-> cap]>>
Text           == <<[k |-> "bytes", least |-> 1, cap |-> UXR_STRING_SIZE_MAX]>>
Opt(s)         == <<[k |-> "opt", s |-> s]>>                \* a bool, then s if it is true
Tagged(n, alt) == <<[k |-> "tag", n |-> n, alt |-> alt]>>   \* a format or kind, then its form
ListOf(s, cap) == <<[k |-> "list", s |-> s, cap |-> cap]>>  \* a length, then s that many times
Only(dir, s)   == <<[k |-> "only", dir |-> dir, s |-> s]>>  \* s only when writing or reading
Align(n)       == <<[k |-> "align", n |-> n]>>              \* ucdr_align_to
Rebase         == <<[k |-> "rebase"]>>                      \* ucdr_init_buffer at the iterator
Endian(other)  == <<[k |-> "endian", other |-> other]>>    \* ub->endianness of what follows
Data(n)        == <<[k |-> "data", n |-> n, cap |-> n]>>   \* data the session passes on, n bytes
Other          == <<>>                                      \* a tag without a case

---------------------------------------------------------------------------
(* Basic structures.                                                       *)

Time_t == Uint(4) \o Uint(4)
BinarySequence_t == Bytes(UXR_BINARY_SEQUENCE_MAX)
StringSequence_t == ListOf(Text, UXR_SEQUENCE_MAX)
ClientKey == Raw(4)
\* Writing an object id leaves out its first byte, reading expects both.
ObjectId == Only("out", Raw(1)) \o Only("in", Raw(2))
ObjectPrefix == Raw(2)
XrceCookie == Raw(4)
XrceVersion == Raw(2)
XrceVendorId == Raw(2)
TransportLocatorSmall == Raw(2) \o Uint(1)
TransportLocatorMedium == Raw(4) \o Uint(2)
TransportLocatorLarge == Raw(16) \o Uint(4)
TransportLocatorString == Text
TransportLocator == Tagged(1,
  [SMALL |-> TransportLocatorSmall, MEDIUM |-> TransportLocatorMedium,
   LARGE |-> TransportLocatorLarge, STRING |-> TransportLocatorString, NONE |-> Other])
TransportLocatorSeq == ListOf(TransportLocator, UXR_SEQUENCE_MAX)
Property == Text \o Text
PropertySeq == ListOf(Property, UXR_PROPERTY_SEQUENCE_MAX)

---------------------------------------------------------------------------
(* Representations of the objects.                                         *)

CLIENT_Representation ==
  XrceCookie \o XrceVersion \o XrceVendorId \o ClientKey \o Uint(1) \o Opt(PropertySeq) \o Uint(2)
\* The properties of the agent are written but never read.
AGENT_Representation ==
  XrceCookie \o XrceVersion \o XrceVendorId
    \o Only("out", Opt(PropertySeq)) \o Only("in", Uint(1))

OBJK_Representation3Formats ==
  Tagged(1, [REFERENCE |-> Text, XML |-> Text, BINARY |-> BinarySequence_t, NONE |-> Other])
OBJK_RepresentationRefAndXMLFormats ==
  Tagged(1, [REFERENCE |-> Text, XML |-> Text, NONE |-> Other])
OBJK_RepresentationBinAndXMLFormats ==
  Tagged(1, [BINARY |-> BinarySequence_t, XML |-> Text, NONE |-> Other])
OBJK_RepresentationRefAndXML_Base == OBJK_RepresentationRefAndXMLFormats
OBJK_RepresentationBinAndXML_Base == OBJK_RepresentationBinAndXMLFormats
OBJK_Representation3_Base == OBJK_Representation3Formats
OBJK_QOSPROFILE_Representation == OBJK_RepresentationRefAndXML_Base
OBJK_TYPE_Representation == OBJK_RepresentationRefAndXML_Base
OBJK_DOMAIN_Representation == OBJK_RepresentationRefAndXML_Base
OBJK_APPLICATION_Representation == OBJK_RepresentationRefAndXML_Base
OBJK_PUBLISHER_Representation == OBJK_RepresentationBinAndXML_Base \o ObjectId
OBJK_SUBSCRIBER_Representation == OBJK_RepresentationBinAndXML_Base \o ObjectId
DATAWRITER_Representation == OBJK_Representation3_Base \o ObjectId
DATAREADER_Representation == OBJK_Representation3_Base \o ObjectId
OBJK_PARTICIPANT_Representation == OBJK_Representation3_Base \o Uint(2)
OBJK_TOPIC_Representation == OBJK_Representation3_Base \o ObjectId
OBJK_REQUESTER_Representation == OBJK_Representation3_Base \o ObjectId
OBJK_REPLIER_Representation == OBJK_Representation3_Base \o ObjectId

OBJK_DomainParticipant_Binary == Opt(Text) \o Opt(Text)
OBJK_Topic_Binary == Text \o Opt(Text) \o Opt(Text)
OBJK_Publisher_Binary_Qos == Opt(StringSequence_t) \o Opt(BinarySequence_t)
OBJK_Publisher_Binary == Opt(Text) \o Opt(OBJK_Publisher_Binary_Qos)
OBJK_Subscriber_Binary_Qos == Opt(StringSequence_t) \o Opt(BinarySequence_t)
OBJK_Subscriber_Binary == Opt(Text) \o Opt(OBJK_Subscriber_Binary_Qos)
OBJK_Endpoint_QosBinary ==
  Uint(2) \o Opt(Uint(2)) \o Opt(Uint(4)) \o Opt(Uint(4)) \o Opt(BinarySequence_t)
OBJK_DataWriter_Binary_Qos == OBJK_Endpoint_QosBinary \o Opt(Uint(8))
OBJK_DataReader_Binary_Qos == OBJK_Endpoint_QosBinary \o Opt(Uint(8)) \o Opt(Text)
OBJK_DataReader_Binary == ObjectId \o Opt(OBJK_DataReader_Binary_Qos)
OBJK_DataWriter_Binary == ObjectId \o Opt(OBJK_DataWriter_Binary_Qos)
OBJK_Requester_Binary == Text \o Text \o Text \o Opt(Text) \o Opt(Text)
OBJK_Replier_Binary == Text \o Text \o Text \o Opt(Text) \o Opt(Text)

ObjectVariant == Tagged(1,
  [AGENT |-> AGENT_Representation, CLIENT |-> CLIENT_Representation,
   APPLICATION |-> OBJK_APPLICATION_Representation,
   PARTICIPANT |-> OBJK_PARTICIPANT_Representation,
   QOSPROFILE |-> OBJK_QOSPROFILE_Representation, TYPE |-> OBJK_TYPE_Representation,
   TOPIC |-> OBJK_TOPIC_Representation, PUBLISHER |-> OBJK_PUBLISHER_Representation,
   SUBSCRIBER |-> OBJK_SUBSCRIBER_Representation, DATAWRITER |-> DATAWRITER_Representation,
   DATAREADER |-> DATAREADER_Representation, REQUESTER |-> OBJK_REQUESTER_Representation,
   REPLIER |-> OBJK_REPLIER_Representation, NONE |-> Other])

CreationMode == Uint(1) \o Uint(1)
RequestId == Raw(2)
ResultStatus == Uint(1) \o Uint(1)
\* Writing a request leaves its id out, reading expects it.
BaseObjectRequest == Only("in", RequestId) \o ObjectId

AGENT_ActivityInfo == Uint(2) \o TransportLocatorSeq
DATAREADER_ActivityInfo == Uint(2)
DATAWRITER_ActivityInfo == Uint(2) \o Uint(8)
ActivityInfoVariant == Tagged(1,
  [AGENT |-> AGENT_ActivityInfo, DATAWRITER |-> DATAWRITER_ActivityInfo,
   DATAREADER |-> DATAREADER_ActivityInfo, NONE |-> Other])
ObjectInfo == Opt(ObjectVariant) \o Opt(ActivityInfoVariant)
BaseObjectReply == BaseObjectRequest \o ResultStatus

---------------------------------------------------------------------------
(* Samples.                                                                *)

DataDeliveryControl == Uint(2) \o Uint(2) \o Uint(2) \o Uint(2)
ReadSpecification == Uint(1) \o Uint(1) \o Opt(Text) \o Opt(DataDeliveryControl)
SeqNumberAndTimestamp == Uint(4) \o Uint(4)
SampleInfoDetail == Tagged(4,
  [EMPTY |-> Uint(4), SEQNUM |-> Uint(4), TIMESTAMP |-> SeqNumberAndTimestamp, NONE |-> Other])
SampleInfo == Uint(1) \o SampleInfoDetail
SampleInfoDelta == Uint(1) \o Uint(1) \o Uint(2)
SampleData == Bytes(UXR_SAMPLE_DATA_SIZE_MAX)
SampleDataSeq == ListOf(SampleData, UXR_SEQUENCE_MAX)
Sample == SampleInfo \o SampleData
SampleSeq == ListOf(Sample, UXR_SEQUENCE_MAX)
SampleDelta == SampleInfoDelta \o SampleData
SampleDeltaSequence == ListOf(SampleDelta, UXR_SEQUENCE_MAX)
PackedSamples == SampleInfo \o SampleDeltaSequence
SamplePackedSeq == ListOf(PackedSamples, UXR_SEQUENCE_MAX)
DataRepresentation == Tagged(1,
  [DATA |-> SampleData, SAMPLE |-> Sample, DATA_SEQ |-> SampleDataSeq,
   SAMPLE_SEQ |-> SampleSeq, PACKED_SAMPLES |-> PackedSamples, NONE |-> Other])

---------------------------------------------------------------------------
(* Payloads of the submessages.                                            *)

CREATE_CLIENT_Payload == CLIENT_Representation
CREATE_Payload == BaseObjectRequest \o ObjectVariant
GET_INFO_Payload == BaseObjectRequest \o Uint(4)
DELETE_Payload == BaseObjectRequest
STATUS_AGENT_Payload == ResultStatus \o AGENT_Representation
STATUS_Payload == BaseObjectReply
INFO_Payload == BaseObjectReply \o ObjectInfo
READ_DATA_Payload == BaseObjectRequest \o ReadSpecification
WRITE_DATA_Payload_Data == BaseObjectRequest
WRITE_DATA_Payload_Sample == BaseObjectRequest \o Sample
WRITE_DATA_Payload_DataSeq == BaseObjectRequest \o SampleDataSeq
WRITE_DATA_Payload_SampleSeq == BaseObjectRequest \o SampleSeq
WRITE_DATA_Payload_PackedSamples == BaseObjectRequest \o PackedSamples
DATA_Payload_Data == BaseObjectRequest
DATA_Payload_Sample == BaseObjectRequest \o Sample
DATA_Payload_DataSeq == BaseObjectRequest \o SampleDataSeq
DATA_Payload_SampleSeq == BaseObjectRequest \o SampleSeq
DATA_Payload_PackedSamples == BaseObjectRequest \o PackedSamples
ACKNACK_Payload == Uint(2) \o Raw(2) \o Uint(1)
HEARTBEAT_Payload == Uint(2) \o Uint(2) \o Uint(1)
TIMESTAMP_Payload == Time_t
TIMESTAMP_REPLY_Payload == Time_t \o Time_t \o Time_t

GuidPrefix_t == Raw(12)
EntityId_t == Raw(3) \o Uint(1)
GUID_t == GuidPrefix_t \o EntityId_t
SequenceNumber_t == Uint(4) \o Uint(4)
SampleIdentity == GUID_t \o SequenceNumber_t
PERFORMANCE_Payload == Uint(4) \o Uint(4) \o Raw(4)

\* What precedes every submessage of a received message.  Its length is little-endian, as
\* the machine is; a flag says whether what follows it is too.
SubmessageHeader ==
  Align(4) \o Endian(FALSE) \o Uint(1)
    \o Tagged(1, [LITTLE |-> Uint(2), BIG |-> Uint(2) \o Endian(TRUE)])
=============================================================================
