SPECIFICATION Spec
CONSTANTS
  u_BASE = 3
  u_LETTER = 1
  u_LENGTH = 2
  u_TIME_LEN = 1
  u_LEAD_MAX = 1
  Arrays <- SomeArrays
  BYTE_BITS = 4
  SEXTET_BITS = 3
  WORD_BITS = 8
  e_RADIX = 5
  MAX_INPUT_LEN = 5
  ENCODED_LEN = 3
  LOW_BITS = 2
  ID_LEN = 2
  e_Payloads <- SomeBytes
  e_Texts <- SomeEncoded
  LIMB = 4
  LIMBS = 3
  k_RADIX = 3
  STRING_LEN = 4
  SECOND = 2
  EPOCH_SECONDS = 1
  ClockMax = 11
  k_Payloads <- SomePayloads
  k_Texts <- SomeTexts
  MaxCount = 2
  i_BASE = 8
  i_LETTER = 5
  i_LENGTH = 7
  i_TIME_LEN = 3
  i_LEAD_MAX = 3
  HEX = 4
  HEX_LETTER = 2
  BYTES = 5
  TIME_BYTES = 2
  VERSION_AT = 3
  VARIANT_AT = 4
  VERSION = 1
  HYPHENS = {3, 4}
  Uuids <- SomeUuids
  Randoms <- SomeRandoms
  Clocks = {0, 7, 200, 255}
  Policies <- OneKeyPolicies
  ListIndents = {0, 2}
INVARIANTS RoundTrip CompareMatchesNative SortMatchesNative
INVARIANTS OneText OrderKept DecodesExactly
INVARIANTS TimeReadsBack SameBits ReadsBack
