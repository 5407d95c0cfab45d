CONSTANTS
  Half32 = 4
  Half64 = 16
  Group = 4
  ProbeNumbers = {1, 2, 3, 5, 9}
  FormText <- MCFormText
  LoggedText <- MCLoggedText
  Number <- MCNumber
  Time = {3, 4}
  ConnFd = {3}
  ContentMax = 2
  SetId = 1
  MaxStored = 2
SPECIFICATION Spec
INVARIANTS PassedOn RoundTrips PythonAgrees OnlyMalformedIsLost AnswersComeHome
PROPERTY FilterAsTyped
